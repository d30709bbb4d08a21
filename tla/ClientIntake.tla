---------------------------- MODULE ClientIntake ----------------------------
(***************************************************************************)
(* The intake of browser crash reports: what the endpoint that accepts     *)
(* anonymous writes admits, whom it believes, under which issue a report   *)
(* falls, and when an issue is said to be spiking.                         *)
(*                                                                         *)
(* Grouping is one step here: ClientErrors has what may come between its   *)
(* statements, and the source maps.  A reported frame is the place it      *)
(* names (file, line and function), its column, and whether the file is a  *)
(* dependency's; a message is its template and the numbers, ids and quoted *)
(* text in it.  Severity, facets and free text are left out.               *)
(***************************************************************************)
EXTENDS Integers, Sequences, FiniteSets, FiniteSetsExt, SequencesExt, Functions

CONSTANTS
    Members,        \* users
    Supers,         \* the super admins among them
    Companies,      \* organizations
    Sites,          \* projects
    CompanyOf,      \* the organization of a project
    Addresses,      \* what clientKey makes of a request
    Posts,          \* the requests in flight
    Reports,        \* the batches browsers send
    TicksPerSecond,
    TokensPerTick,  \* ipRatePerMinute, per tick
    IpBurst,
    SweepInterval,  \* bucketSweepInterval
    Skew,           \* how far in the future a reported time may be: an hour
    MaxFrames,
    SpikeSettings,  \* the configured SpikeConfig
    SpikeDefaults,  \* DefaultSpike...
    LastInstant, MaxReports, MaxTriage, MaxPasses    \* bounds

ASSUME IntakeAssumption ==
    /\ Supers \subseteq Members
    /\ CompanyOf \in [Sites -> Companies]
    /\ {TicksPerSecond, TokensPerTick, IpBurst, SweepInterval, MaxFrames} \subseteq Nat \ {0}
    /\ IpBurst <= TokensPerTick * SweepInterval
    /\ \A b \in Reports :
         /\ Len(b) \in 1 .. IpBurst /\ DOMAIN b = 1 .. Len(b)
         /\ \A k \in DOMAIN b : b[k].at \in Int /\ b[k].sampled \in Int

VARIABLES
    instant,     \* the clock
    ipBuckets,   \* ingestLimiter.buckets
    swept,
    asked,       \* history: what a refused address asked for and when it may come again
    belongs,     \* organization membership
    everBelonged,\* history
    openSites,   \* projects not deleted
    post,        \* the local variables of a request
    reports,     \* client_error_events
    groups,      \* client_error_issues
    paged,       \* history: the alerts handed to the projects' rules
    pass,        \* EvaluateSpikes in progress
    passes,      \* history: passes so far
    triaged      \* history: triage decisions so far

intakeVars == <<instant, ipBuckets, swept, asked, belongs, everBelonged, openSites, post,
                reports, groups, paged, pass, passes, triaged>>
tables == <<reports, groups, paged, pass, passes, triaged>>
tenants == <<belongs, everBelonged, openSites>>
limiter == <<ipBuckets, swept, asked>>

NoBucket == [tokens |-> -1, last |-> 0]
NotAsked == [n |-> 0, from |-> 0]
Nobody   == [user |-> "none", org |-> "none", site |-> "none"]
NoPost   == [step |-> "idle", batch |-> <<>>, who |-> Nobody]
NoTime   == -1
NoPass   == [at |-> 0, found |-> {}, todo |-> {}]

ClientIntakeInit ==
    /\ instant = 0
    /\ ipBuckets = [a \in Addresses |-> NoBucket] /\ swept = 0
    /\ asked = [a \in Addresses |-> NotAsked]
    /\ belongs \in SUBSET (Members \X Companies) /\ everBelonged = belongs
    /\ openSites = Sites
    /\ post = [p \in Posts |-> NoPost]
    /\ reports = <<>> /\ groups = <<>> /\ paged = {}
    /\ pass = NoPass /\ passes = 0 /\ triaged = 0

Elapse == /\ instant < LastInstant
          /\ instant' = instant + 1
          /\ UNCHANGED <<limiter, tenants, post, tables>>
----------------------------------------------------------------------------
(* The limiter. *)

Swept(b) ==
    IF instant - swept > SweepInterval
    THEN [a \in Addresses |-> IF instant - b[a].last > SweepInterval THEN NoBucket ELSE b[a]]
    ELSE b

Refilled(bucket) ==
    IF bucket = NoBucket THEN IpBurst
    ELSE Min({IpBurst, bucket.tokens + (instant - bucket.last) * TokensPerTick})

\* A bug: the wait is cut to whole seconds, and nothing makes up for it.
WaitCut(n, tokens) == Max({(n - tokens) \div (TokensPerTick * TicksPerSecond), 1})

\* Retry-After, in seconds
Wait(n, tokens) == Max({(n - tokens) \div (TokensPerTick * TicksPerSecond) + 1, 1})

\* allow, for as many events as the batch has, from a page of an allowed origin; an
\* admitted request goes on to find out who is reporting.
Receive(p, a, user, batch) ==
    LET n      == Len(batch)
        tokens == Refilled(Swept(ipBuckets)[a])
        ok     == tokens >= n
    IN  /\ post[p] = NoPost
        /\ ok => Len(reports) + n <= MaxReports
        /\ ipBuckets' = [Swept(ipBuckets) EXCEPT ![a] =
                            [tokens |-> IF ok THEN tokens - n ELSE tokens, last |-> instant]]
        /\ swept' = IF instant - swept > SweepInterval THEN instant ELSE swept
        /\ asked' = [asked EXCEPT ![a] =
                        IF ok THEN NotAsked
                        ELSE [n |-> n, from |-> instant + Wait(n, tokens) * TicksPerSecond]]
        /\ post' = IF ok THEN [post EXCEPT ![p] = [step |-> "reporter", batch |-> batch,
                                                   who |-> [Nobody EXCEPT !.user = user]]]
                   ELSE post
        /\ UNCHANGED <<instant, tenants, tables>>
----------------------------------------------------------------------------
(* Who reports. *)

\* The first hint that names something speaks for the batch.
FirstHint(hints) ==
    LET named == SelectSeq(hints, LAMBDA h : h # "none")
    IN  IF named = <<>> THEN "none" ELSE Head(named)

FirstOrgHint(batch)     == FirstHint([i \in DOMAIN batch |-> batch[i].org])
FirstProjectHint(batch) == FirstHint([i \in DOMAIN batch |-> batch[i].site])

\* Authenticate, then QueryByUserID; either may fail, and the report is kept all the same.
Reporter(p) ==
    LET user == post[p].who.user
        hint == FirstOrgHint(post[p].batch)
        Is(u, o, next) == post' = [post EXCEPT ![p].step = next,
                                               ![p].who = [Nobody EXCEPT !.user = u, !.org = o]]
    IN  /\ post[p].step = "reporter"
        /\ \/ Is("none", "none", "store")
           \/ /\ user # "none"
              /\ \/ /\ hint # "none"
                    /\ user \in Supers \/ <<user, hint>> \in belongs
                    /\ Is(user, hint, "project")
                 \/ /\ user \notin Supers \/ hint = "none"
                    /\ Is(user, "none", "store")
        /\ UNCHANGED <<instant, limiter, tenants, tables>>

\* A bug: whichever project exists is believed.
BelievedAny(p) ==
    LET hint == FirstProjectHint(post[p].batch)
    IN  IF hint \in openSites THEN hint ELSE "none"

Believed(p) ==
    LET hint == FirstProjectHint(post[p].batch)
    IN  IF hint \in openSites /\ CompanyOf[hint] = post[p].who.org THEN hint ELSE "none"

ResolveProject(p) ==
    /\ post[p].step = "project"
    /\ post' = [post EXCEPT ![p].step = "store", ![p].who.site = Believed(p)]
    /\ UNCHANGED <<instant, limiter, tenants, tables>>
----------------------------------------------------------------------------
(* Storing and grouping. *)

Occurred(at) == IF at = NoTime \/ at > instant + Skew THEN instant ELSE at

NewReport(who, e) ==
    [org |-> who.org, site |-> who.site, user |-> who.user, sight |-> e.sight,
     at |-> Occurred(e.at), sampled |-> Max({e.sampled, 1}), group |-> 0]

\* One INSERT for the batch; the project's foreign key must hold.
StoreReports(p) ==
    LET who == post[p].who
    IN  /\ post[p].step = "store"
        /\ Len(reports) + Len(post[p].batch) <= MaxReports
        /\ reports' = IF who.site \in openSites \cup {"none"}
                      THEN reports \o [i \in DOMAIN post[p].batch |-> NewReport(who, post[p].batch[i])]
                      ELSE reports
        /\ post' = [post EXCEPT ![p] = NoPost]
        /\ UNCHANGED <<instant, limiter, tenants, groups, paged, pass, passes, triaged>>

NormalizeMessage(message) == message.template

InAppFrames(frames) ==
    LET own == SelectSeq(frames, LAMBDA f : ~f.vendor)
    IN  IF own = <<>> THEN frames ELSE own

\* A bug: the column takes part.
FrameWithColumn(f) == <<f.place, f.column>>

FrameText(f) == f.place

\* An api failure is identified by the request, anything else by the message and the top
\* frames of our own code.
Fingerprint(s) ==
    LET own == InAppFrames(s.frames)
        top == SubSeq(own, 1, Min({MaxFrames, Len(own)}))
    IN  IF s.kind = "api" THEN <<s.kind, s.endpoint>>
        ELSE <<s.kind, NormalizeMessage(s.message)>> \o [i \in DOMAIN top |-> FrameText(top[i])]

SameScope(g, r) ==
    IF r.site # "none" THEN g.site = r.site
    ELSE g.site = "none" /\ g.org = r.org

\* The alert goes to the project's rules; an issue without a project has none.
Fire(g, id, kind) ==
    IF g.site = "none" THEN {} ELSE {[group |-> id, site |-> g.site, kind |-> kind, at |-> instant]}

\* What TouchIssue makes of an issue: RETURNING regressed AND resolved_at IS NULL.
TouchedGroup(g, r) ==
    LET back == g.status = "resolved"
    IN  [g EXCEPT !.first = Min({g.first, r.at}), !.last = Max({g.last, r.at}),
                  !.count = g.count + r.sampled,
                  !.status = IF back THEN "unresolved" ELSE g.status,
                  !.regressed = g.regressed \/ back]

OpenedGroup(r) ==
    [org |-> r.org, site |-> r.site, crash |-> Fingerprint(r.sight), first |-> r.at,
     last |-> r.at, count |-> 1, status |-> "unresolved", regressed |-> FALSE, opened |-> instant]

File(i) ==
    LET r     == reports[i]
        alike == {g \in DOMAIN groups : /\ groups[g].status # "deleted"
                                        /\ SameScope(groups[g], r)
                                        /\ groups[g].crash = Fingerprint(r.sight)}
        id    == IF alike = {} THEN Len(groups) + 1 ELSE CHOOSE g \in alike : TRUE
        new   == IF alike = {} THEN OpenedGroup(r) ELSE TouchedGroup(groups[id], r)
    IN  /\ r.group = 0
        /\ groups' = IF alike = {} THEN Append(groups, new) ELSE [groups EXCEPT ![id] = new]
        /\ reports' = [reports EXCEPT ![i].group = id]
        /\ paged' = paged \cup (IF alike = {} THEN Fire(new, id, "opened")
                                ELSE IF new.regressed THEN Fire(new, id, "regressed") ELSE {})
        /\ UNCHANGED <<instant, limiter, tenants, post, pass, passes, triaged>>
----------------------------------------------------------------------------
(* Spikes. *)

\* Settings that make no sense give way to the defaults.
WithDefaults(c) ==
    LET window == IF c.window <= 0 THEN SpikeDefaults.window ELSE c.window
    IN  [window     |-> window,
         baseline   |-> IF c.baseline < window THEN SpikeDefaults.baseline ELSE c.baseline,
         multiplier |-> IF c.multiplier <= 1 THEN SpikeDefaults.multiplier ELSE c.multiplier,
         minEvents  |-> IF c.minEvents <= 0 THEN SpikeDefaults.minEvents ELSE c.minEvents]

Config == WithDefaults(SpikeSettings)

\* A bug: the window ends now.
WindowEndsNow(now) == now

\* The window ends on a whole multiple of itself.
WindowEnd(now) == (now \div Config.window) * Config.window

Seen(g, from, to) ==
    SumFunction([i \in {j \in DOMAIN reports : reports[j].group = g /\ reports[j].at \in from .. to - 1}
                    |-> reports[i].sampled])

\* The rate before the window is scaled to the window's length.
QuerySpikes(now) ==
    LET end   == WindowEnd(now)
        start == end - Config.window
    IN  {g \in DOMAIN groups :
           LET n == Seen(g, start, end)
               b == Seen(g, start - Config.baseline, start)
           IN  /\ groups[g].status \notin {"ignored", "deleted"}
               /\ groups[g].first < start
               /\ n >= Config.minEvents
               /\ n * Config.baseline >= Config.multiplier * Max({b * Config.window, Config.baseline})}

EvaluateSpikes ==
    /\ pass.todo = {} /\ passes < MaxPasses
    /\ pass' = [at |-> instant, found |-> QuerySpikes(instant), todo |-> QuerySpikes(instant)]
    /\ passes' = passes + 1
    /\ UNCHANGED <<instant, limiter, tenants, post, reports, groups, paged, triaged>>

\* The issue is the copy the query returned.
IssueSpiked(g) ==
    /\ g \in pass.todo
    /\ pass' = [pass EXCEPT !.todo = pass.todo \ {g}]
    /\ paged' = paged \cup Fire(groups[g], g, "spiked")
    /\ UNCHANGED <<instant, limiter, tenants, post, reports, groups, passes, triaged>>
----------------------------------------------------------------------------
(* The dashboard, and what happens around a report. *)

\* UpdateIssue: closing an issue clears its flag.
Triage(g, status) ==
    /\ triaged < MaxTriage
    /\ groups[g].status \notin {"deleted", status}
    /\ groups' = [groups EXCEPT ![g].status = status,
                                ![g].regressed = groups[g].regressed /\ status # "resolved"]
    /\ triaged' = triaged + 1
    /\ UNCHANGED <<instant, limiter, tenants, post, reports, paged, pass, passes>>

Leave(u, o) == /\ <<u, o>> \in belongs
               /\ belongs' = belongs \ {<<u, o>>}
               /\ UNCHANGED <<instant, limiter, everBelonged, openSites, post, tables>>

\* Reports and issues go with the project.
CloseSite(s) ==
    /\ s \in openSites
    /\ openSites' = openSites \ {s}
    /\ groups'  = [g \in DOMAIN groups |->
                      IF groups[g].site = s THEN [groups[g] EXCEPT !.status = "deleted"] ELSE groups[g]]
    /\ reports' = [i \in DOMAIN reports |->
                      IF reports[i].site = s THEN [reports[i] EXCEPT !.group = -1] ELSE reports[i]]
    /\ UNCHANGED <<instant, limiter, belongs, everBelonged, post, paged, pass, passes, triaged>>

\* The issues an admin of the organization lists, of one project or of all.
QueryIssues(o, site) ==
    {g \in DOMAIN groups : /\ groups[g].status # "deleted"
                           /\ groups[g].org = o
                           /\ site # "none" => groups[g].site = site}

\* The spikes are found over all organizations, and the handler keeps the caller's.
ListSpikes(o, site) ==
    {g \in QuerySpikes(instant) : /\ groups[g].org = o
                                  /\ site # "none" => groups[g].site = site}

ClientIntakeNext ==
    \/ Elapse
    \/ \E p \in Posts :
         \/ \E a \in Addresses, u \in Members \cup {"none"}, b \in Reports : Receive(p, a, u, b)
         \/ Reporter(p)
         \/ ResolveProject(p)
         \/ StoreReports(p)
    \/ \E i \in DOMAIN reports : File(i)
    \/ EvaluateSpikes
    \/ \E g \in pass.todo : IssueSpiked(g)
    \/ \E g \in DOMAIN groups, status \in {"resolved", "ignored", "unresolved"} : Triage(g, status)
    \/ \E u \in Members, o \in Companies : Leave(u, o)
    \/ \E s \in Sites : CloseSite(s)

ClientIntakeSpec == ClientIntakeInit /\ [][ClientIntakeNext]_intakeVars
----------------------------------------------------------------------------
(* Properties. *)

\* A refused address that comes back when it was told to, asking for no more, is served
\* (Retry-After of the intake endpoint): neither the rounding of the wait nor the sweep of
\* idle buckets makes it wait again.
AskedWaitSuffices ==
    \A a \in Addresses :
        (asked[a] # NotAsked /\ instant >= asked[a].from)
            => Refilled(Swept(ipBuckets)[a]) >= asked[a].n

\* A crash is filed, paged and listed only for a team its reporter belonged to, however the
\* hints of a batch disagree with its token or with each other, and whoever leaves and
\* whatever is deleted between the checks and the insert.
ReportsStayInTeam ==
    /\ \A i \in DOMAIN reports :
         LET r == reports[i] IN
         /\ r.org # "none" => r.user \in Supers \/ <<r.user, r.org>> \in everBelonged
         /\ r.site # "none" => CompanyOf[r.site] = r.org
         /\ r.group > 0 => groups[r.group].org = r.org /\ groups[r.group].site = r.site
    /\ \A a \in paged : \A i \in DOMAIN reports :
         reports[i].group = a.group => reports[i].site = a.site
    /\ \A o \in Companies, s \in Sites \cup {"none"} :
         \A g \in QueryIssues(o, s) \cup ListSpikes(o, s) : \A i \in DOMAIN reports :
             reports[i].group = g => reports[i].org = o

\* Two reports of one scope fall under one issue exactly when they are of the same crash,
\* whatever varies between sightings: numbers in the message, columns, vendor and deep
\* frames, an api client's own stack.
SameCrashSameIssue ==
    \A i, j \in DOMAIN reports :
        (/\ reports[i].group > 0 /\ reports[j].group > 0
         /\ reports[i].org = reports[j].org /\ reports[i].site = reports[j].site)
            => (reports[i].sight.crash = reports[j].sight.crash <=> reports[i].group = reports[j].group)

\* How many reports of the issue fall in the k-th whole window
InWindow(g, k) ==
    SumFunction([i \in {j \in DOMAIN reports : reports[j].group = g /\ reports[j].at \div Config.window = k}
                    |-> reports[i].sampled])

\* An issue stands out in the last whole window
StandsOut(g, now) ==
    LET last    == (now \div Config.window) - 1
        periods == Config.baseline \div Config.window
        before  == SumFunction([k \in last - periods .. last - 1 |-> InWindow(g, k)])
    IN  /\ groups[g].status \notin {"ignored", "deleted"}
        /\ \E i \in DOMAIN reports : reports[i].group = g /\ reports[i].at \div Config.window < last
        /\ InWindow(g, last) >= Config.minEvents
        /\ InWindow(g, last) * periods >= Config.multiplier * before
        /\ InWindow(g, last) >= Config.multiplier

\* A pass finds the issues whose last whole window stands out against the windows before
\* it, so that passes within one window agree ("otherwise a spike drifts in and out of
\* detection as the clock moves").
SpikesStandOut ==
    [][passes' # passes => pass'.found = {g \in DOMAIN groups : StandsOut(g, instant)}]_intakeVars
----------------------------------------------------------------------------
(* A statement of the code that it does not meet. *)

\* "a new issue already alerts as new, and a spike alert for it would be the same news
\* twice" (clienterrordb.go:749): a browser whose clock is behind, or a report held back by
\* one that was offline, makes an issue opened in the window look older than it.
SpikesAreOldNews ==
    \A a \in paged :
        a.kind = "spiked" => groups[a.group].opened < WindowEnd(a.at) - Config.window
=============================================================================

----------------------------- MODULE AppIngest -----------------------------
(***************************************************************************)
(* The application-log door (logapp.ingest and recordAppUsage of           *)
(* app/domain/logapp, the app_usage half of business/domain/usagebus):     *)
(* POST /v1/ingest with entries for any number of projects.                *)
(*                                                                         *)
(* The handler looks every project up, then authorizes each, then checks   *)
(* the daily quota of each organization, in a statement apiece, and writes *)
(* the whole batch in one transaction.  A goroutine that outlives the      *)
(* request adds the counters project by project.  Meanwhile access comes   *)
(* and goes, projects are deleted, and the day ends.                       *)
(*                                                                         *)
(* Of a batch the number of entries per project is kept.  The order of     *)
(* entries is free, and so is that of a Go map, hence any order of lookups *)
(* and checks.  Streaming the batch to the live tail is module LiveTail.   *)
(***************************************************************************)
EXTENDS Integers, FiniteSets, FiniteSetsExt, Functions

CONSTANTS
    Calls,          \* requests with their goroutine, at most so many at a time
    Callers,
    SuperAdmins,    \* the callers with the platform role
    Projects,
    Owner,          \* the organization of each project
    AppQuota,       \* app_daily_event_quota, -1 for none
    Breaks,         \* whether statements may fail
    MaxEntries,     \* bound on the entries of one project in a batch
    MaxDay,         \* bound on the days
    MaxCalls        \* bound on the requests

ASSUME AppIngestAssumption ==
    /\ IsFiniteSet(Calls) /\ SuperAdmins \subseteq Callers /\ Projects = DOMAIN Owner
    /\ AppQuota \in Int /\ Breaks \in BOOLEAN
    /\ {MaxEntries, MaxDay, MaxCalls} \subseteq Nat

DaysOfUse == 0 .. MaxDay
NoEntries == [p \in {} |-> 0]

\* A decoded body: at least one entry, all of them valid
Bodies == UNION {[named -> 1 .. MaxEntries] : named \in SUBSET Projects \ {{}}}

OwnersOf(named) == {Owner[p] : p \in named}

VARIABLES
    today,
    suspended,  \* organizations that are not enabled (no request changes that)
    alive,      \* the rows of projects
    access,     \* <<caller, project>> for which HasAccess holds (never asked of SuperAdmins)
    call,       \* per request: [stage, by, entries, todo, day]; todo is what the stage has left
    rows,       \* entries stored per project
    metered,    \* app_usage.event_count by project and day
    calls,      \* requests so far
    entitled,   \* history: what the caller could reach since the request arrived
    unmetered   \* history: entries of a project whose counters were lost

appVars == <<today, suspended, alive, access, call, rows, metered, calls, entitled, unmetered>>

NoCall == [stage |-> "idle", by |-> "none", entries |-> NoEntries, todo |-> {}, day |-> 0]

AppInit ==
    /\ today = 0 /\ calls = 0
    /\ alive = Projects /\ suspended \in SUBSET OwnersOf(Projects)
    /\ access \in SUBSET ((Callers \ SuperAdmins) \X Projects)
    /\ call = [c \in Calls |-> NoCall]
    /\ rows = [p \in Projects |-> 0] /\ unmetered = rows
    /\ metered = [p \in Projects |-> [d \in DaysOfUse |-> 0]]
    /\ entitled = [c \in Calls |-> {}]

HasAccess(u, p) == p \in alive /\ <<u, p>> \in access
----------------------------------------------------------------------------
(* The request. *)

\* The next stage of call c, with what it has to go through
Enter(c, stage, todo) ==
    call' = [call EXCEPT ![c] = [call[c] EXCEPT !.stage = stage, !.todo = todo]]

\* One of todo is done; after the last one the request enters the next stage.
Proceed(c, x, stage, todo) ==
    IF call[c].todo = {x} THEN Enter(c, stage, todo)
    ELSE Enter(c, call[c].stage, call[c].todo \ {x})

Named(c) == DOMAIN call[c].entries

\* The request is answered with an error: nothing has been written.
TurnAway(c) ==
    /\ call' = [call EXCEPT ![c] = NoCall]
    /\ entitled' = [entitled EXCEPT ![c] = {}]

Ingest(c, u, body) ==
    /\ call[c].stage = "idle" /\ calls < MaxCalls
    /\ calls' = calls + 1
    /\ call' = [call EXCEPT ![c] = [stage |-> "lookup", by |-> u, entries |-> body,
                                    todo |-> DOMAIN body, day |-> 0]]
    /\ entitled' = [entitled EXCEPT ![c] = {p \in Projects : HasAccess(u, p)}]
    /\ UNCHANGED <<today, suspended, alive, access, rows, metered, unmetered>>

\* A bug: authorization stops at the first project of the batch.
FirstOnly(c) == {CHOOSE p \in Named(c) : TRUE}

\* The projects whose access is checked: each one of the batch
ToAuthorize(c) == Named(c)

\* projectBus.QueryByID and OrgEnabled.  A platform administrator needs no access.
LookUp(c, p) ==
    /\ call[c].stage = "lookup" /\ p \in call[c].todo
    /\ IF p \in alive /\ Owner[p] \notin suspended
       THEN /\ IF call[c].by \in SuperAdmins
               THEN Proceed(c, p, "quota", OwnersOf(Named(c)))
               ELSE Proceed(c, p, "access", ToAuthorize(c))
            /\ UNCHANGED entitled
       ELSE TurnAway(c)
    /\ UNCHANGED <<today, suspended, alive, access, rows, metered, calls, unmetered>>

\* projectBus.HasAccess
Authorize(c, p) ==
    /\ call[c].stage = "access" /\ p \in call[c].todo
    /\ IF HasAccess(call[c].by, p)
       THEN Proceed(c, p, "quota", OwnersOf(Named(c))) /\ UNCHANGED entitled
       ELSE TurnAway(c)
    /\ UNCHANGED <<today, suspended, alive, access, rows, metered, calls, unmetered>>

\* Either read fails: an internal error, unlike a quota that cannot be read.
CheckFails(c) ==
    /\ Breaks /\ call[c].stage \in {"lookup", "access"}
    /\ TurnAway(c)
    /\ UNCHANGED <<today, suspended, alive, access, rows, metered, calls, unmetered>>

AppUsedToday(o) == MapThenSumSet(LAMBDA p : metered[p][today], {p \in Projects : Owner[p] = o})

\* CheckAppQuota; a quota that cannot be read lets the batch through.
CheckAppQuota(c, o) ==
    /\ call[c].stage = "quota" /\ o \in call[c].todo
    /\ \/ /\ Breaks \/ AppQuota < 0 \/ AppUsedToday(o) < AppQuota
          /\ Proceed(c, o, "insert", {}) /\ UNCHANGED entitled
       \/ /\ AppQuota >= 0 /\ AppUsedToday(o) >= AppQuota
          /\ TurnAway(c)
    /\ UNCHANGED <<today, suspended, alive, access, rows, metered, calls, unmetered>>

\* logBus.BulkCreate: all of the batch, or nothing when a project is gone.  The day
\* the counters are for is read afterwards.
BulkCreate(c) ==
    /\ call[c].stage = "insert" /\ Named(c) \subseteq alive
    /\ rows' = [p \in Projects |-> rows[p] + IF p \in Named(c) THEN call[c].entries[p] ELSE 0]
    /\ call' = [call EXCEPT ![c] =
                  [call[c] EXCEPT !.stage = "counting", !.todo = Named(c), !.day = today]]
    /\ UNCHANGED <<today, suspended, alive, access, metered, calls, entitled, unmetered>>

BulkCreateFails(c) ==
    /\ call[c].stage = "insert" /\ (Breaks \/ ~ Named(c) \subseteq alive)
    /\ TurnAway(c)
    /\ UNCHANGED <<today, suspended, alive, access, rows, metered, calls, unmetered>>
----------------------------------------------------------------------------
(* The goroutine of recordAppUsage: a statement per project. *)

\* A bug: each project is charged the whole batch.
TallyOfBatch(c, p) == MapThenSumSet(LAMBDA n : call[c].entries[n], Named(c))

Tally(c, p) == call[c].entries[p]

\* The statement for p has run; the last one ends the goroutine.
Counted(c, p) ==
    IF call[c].todo = {p} THEN TurnAway(c)
    ELSE Enter(c, "counting", call[c].todo \ {p}) /\ UNCHANGED entitled

\* usagedb.RecordApp; the row must reference a project.
RecordApp(c, p) ==
    /\ call[c].stage = "counting" /\ p \in call[c].todo /\ p \in alive
    /\ metered' = [metered EXCEPT ![p][call[c].day] = metered[p][call[c].day] + Tally(c, p)]
    /\ Counted(c, p)
    /\ UNCHANGED <<today, suspended, alive, access, rows, calls, unmetered>>

\* It fails or times out, and the goroutine goes on with the next project.
AppUsageLost(c, p) ==
    /\ call[c].stage = "counting" /\ p \in call[c].todo /\ (Breaks \/ p \notin alive)
    /\ unmetered' = IF p \in alive THEN [unmetered EXCEPT ![p] = unmetered[p] + call[c].entries[p]]
                    ELSE unmetered
    /\ Counted(c, p)
    /\ UNCHANGED <<today, suspended, alive, access, rows, metered, calls>>
----------------------------------------------------------------------------
(* What goes on around it. *)

\* Access is what the predicates of Tenancy say: a grant or a membership brings it, the
\* end of the membership takes it.
GrantAccess(u, p) ==
    /\ p \in alive /\ access' = access \cup {<<u, p>>}
    /\ entitled' = [c \in Calls |-> IF call[c].stage # "idle" /\ call[c].by = u
                                   THEN entitled[c] \cup {p} ELSE entitled[c]]
    /\ UNCHANGED <<today, suspended, alive, call, rows, metered, calls, unmetered>>

RevokeAccess(u, p) ==
    /\ access' = access \ {<<u, p>>}
    /\ UNCHANGED <<today, suspended, alive, call, rows, metered, calls, entitled, unmetered>>

\* Its logs and its counters go with the project (ON DELETE CASCADE).
DropProject(p) ==
    /\ p \in alive /\ alive' = alive \ {p}
    /\ access' = {a \in access : a[2] # p}
    /\ rows' = [rows EXCEPT ![p] = 0] /\ unmetered' = [unmetered EXCEPT ![p] = 0]
    /\ metered' = [metered EXCEPT ![p] = [d \in DaysOfUse |-> 0]]
    /\ UNCHANGED <<today, suspended, call, calls, entitled>>

Midnight ==
    /\ today < MaxDay /\ today' = today + 1
    /\ UNCHANGED <<suspended, alive, access, call, rows, metered, calls, entitled, unmetered>>

AppNext ==
    \/ \E c \in Calls :
         \/ \E u \in Callers, body \in Bodies : Ingest(c, u, body)
         \/ \E p \in Projects :
              LookUp(c, p) \/ Authorize(c, p) \/ RecordApp(c, p) \/ AppUsageLost(c, p)
         \/ CheckFails(c)
         \/ \E o \in OwnersOf(Projects) : CheckAppQuota(c, o)
         \/ BulkCreate(c) \/ BulkCreateFails(c)
    \/ \E u \in Callers \ SuperAdmins, p \in Projects : GrantAccess(u, p) \/ RevokeAccess(u, p)
    \/ \E p \in Projects : DropProject(p)
    \/ Midnight

AppSpec == AppInit /\ [][AppNext]_appVars
----------------------------------------------------------------------------
(* Properties. *)

\* "Enforce project-level access unless the caller is a SUPER ADMIN" and "A suspended
\* organization accepts no new logs": entries reach a project only in a request whose
\* caller could reach that project at some time since the request arrived, whatever
\* else the batch names and whatever is revoked or deleted meanwhile.
WrittenWhereAllowed == [][
    \A p \in Projects : rows'[p] > rows[p] =>
        \E c \in Calls : /\ call[c].stage = "insert" /\ p \in Named(c)
                         /\ call[c].by \in SuperAdmins \/ p \in entitled[c]
                         /\ p \in alive /\ Owner[p] \notin suspended
    ]_appVars

\* recordAppUsage: "losing a counter update is preferable to failing an ingest that has
\* already been persisted", and nothing else separates the two: what a project stores is
\* what the days of its counters add up to, what goroutines have yet to add, and what
\* was lost.
AppUsageAgrees ==
    \A p \in alive :
        LET counting == {c \in Calls : call[c].stage = "counting" /\ p \in call[c].todo}
        IN  rows[p] = SumFunction(metered[p]) + unmetered[p]
                        + SumFunction([c \in counting |-> call[c].entries[p]])
=============================================================================

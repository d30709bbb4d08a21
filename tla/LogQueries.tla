----------------------------- MODULE LogQueries -----------------------------
(***************************************************************************)
(* Reading stored logs: the paged lists of a project, of an organization   *)
(* and of an API key (logapp.go, orglogs.go, publicquery.go), the          *)
(* streaming exports (export.go), over a table that ingestion and          *)
(* retention change between two statements.                                *)
(*                                                                         *)
(* A reader follows one query page by page. An export resolves its         *)
(* projects once and pages inside one request; a list is one request per   *)
(* page, so the caller's projects are resolved again for each. The tag     *)
(* filter is the one that bounds the window; the other predicates only     *)
(* thin out the rows and are left out.                                     *)
(***************************************************************************)
EXTENDS Integers, Sequences, FiniteSets

CONSTANTS
    LogIds,        \* ids, in the order of their text; random, so unrelated to time
    LogProjects,   \* the projects of one organization
    KeyPin,        \* the project a pinned API key reads
    LastTime,      \* bound on the clock and on timestamps
    RawWindow,     \* MaxRawWindow
    PageSizes,     \* page sizes a list may ask for
    ExportPage,    \* exportPageSize
    RowCaps,       \* maxRows of an export
    MaxFanOut      \* MaxOrgLogProjects

ASSUME LogQueriesAssumption ==
    /\ LogIds \subseteq Nat /\ IsFiniteSet(LogIds) /\ KeyPin \in LogProjects
    /\ LastTime \in Nat /\ RawWindow \in Nat /\ MaxFanOut \in Nat
    /\ ExportPage \in Nat \ {0}
    /\ PageSizes \subseteq Nat \ {0} /\ RowCaps \subseteq Nat \ {0}

VARIABLES
    now,
    logs,     \* rows of the logs table; a deleted row is kept as history
    sight,    \* the projects the member may read
    scan      \* the query being followed

logQueryVars == <<now, logs, sight, scan>>

Times == 0 .. LastTime
None  == -1   \* a filter bound that is not given, a first page's cursor

Unborn   == [state |-> "unborn", ts |-> 0, project |-> KeyPin]
Stored   == {id \in LogIds : logs[id].state = "stored"}
NoCursor == None

\* No scan: pc is idle, paging, done (the last page had no cursor), capped (maxRows
\* reached) or cut (refused, failed, or left by the client).
IdleScan ==
    [pc |-> "idle", reader |-> "member", mode |-> "list", asked |-> {}, scope |-> {}, tags |-> FALSE,
     from |-> None, to |-> None, cap |-> 0, cursor |-> NoCursor, out |-> <<>>, kept |-> {}, begun |-> {}]

LogQueriesInit ==
    /\ now \in Times
    /\ logs = [id \in LogIds |-> Unborn]
    /\ sight \in SUBSET LogProjects
    /\ scan = IdleScan
-----------------------------------------------------------------------------
(* The order of a page: ts DESC, id DESC, and the keyset condition on it. *)

Newer(a, b) == logs[a].ts > logs[b].ts \/ (logs[a].ts = logs[b].ts /\ a > b)

Sorted(ids) ==
    CHOOSE s \in [1 .. Cardinality(ids) -> ids] : \A i, j \in DOMAIN s : i < j => Newer(s[i], s[j])

Newest(ids, n) == {a \in ids : Cardinality({b \in ids : Newer(b, a)}) < n}

\* A bug: the cursor compares the timestamp alone.
AfterTsOnly(ids, cursor) == {a \in ids : cursor # NoCursor => logs[a].ts < logs[cursor].ts}

After(ids, cursor) == {a \in ids : cursor # NoCursor => Newer(cursor, a)}

\* applyScanWindow: with a tag filter and no lower bound, the window ends now (or at
\* `to`) and slides from page to page.
To(s)   == IF s.to = None THEN now ELSE s.to
From(s) == IF s.tags /\ s.from = None THEN To(s) - RawWindow ELSE s.from
TooWide(s) == s.tags /\ s.from # None /\ To(s) - s.from > RawWindow

Matching(s, projects) ==
    {id \in Stored : /\ logs[id].project \in projects
                     /\ logs[id].ts >= From(s)
                     /\ s.to # None => logs[id].ts <= s.to}

\* One project is one index scan; several are one bounded scan each, merged.
Page(s, projects, n) ==
    LET newest(p) == Newest(After(Matching(s, {p}), s.cursor), n)
    IN  Newest(UNION {newest(p) : p \in projects}, n)
-----------------------------------------------------------------------------
(* The projects a request may read. *)

\* visibleProjects, and keyScope for the two kinds of API key
VisibleTo(reader) ==
    CASE reader = "member" -> sight
      [] reader = "pinned key" -> {KeyPin}
      [] reader = "org key" -> LogProjects
KeyScope(pinned) == IF pinned THEN "pinned key" ELSE "org key"

\* selectProjects answers an error (no set) when too many or unseen ones are asked.
SelectProjects(asked, visible) ==
    IF asked = {} THEN {visible} \cap {v \in SUBSET LogProjects : Cardinality(v) <= MaxFanOut}
    ELSE {asked} \cap {v \in SUBSET visible : Cardinality(v) <= MaxFanOut}

\* The filter of a new request.
ParseLogQuery(s) == [s EXCEPT !.pc = "paging"]

Filter(tags, from, to) == [IdleScan EXCEPT !.tags = tags, !.from = from, !.to = to]
Filters == {Filter(tags, from, to) : tags \in BOOLEAN, from \in {None, 0}, to \in {None, 0}}
-----------------------------------------------------------------------------
(* Lists: one request per page. *)

Begin(f) ==
    /\ scan' = ParseLogQuery(f)
    /\ UNCHANGED <<now, logs, sight>>

\* GET /projects/{project_id}/logs: the route checks access to the project.
Query(p) == \E f \in Filters : Begin([f EXCEPT !.asked = {p}])

\* GET /orgs/{org_id}/logs
QueryOrg == \E f \in Filters, asked \in SUBSET LogProjects : Begin([f EXCEPT !.asked = asked])

\* GET /query/logs
QueryAPILogs ==
    \E f \in Filters, pinned \in BOOLEAN, asked \in SUBSET LogProjects :
        Begin([f EXCEPT !.reader = KeyScope(pinned), !.asked = asked])

\* What the query returned is added to what the reader holds; kept is history: what
\* has matched at every page so far.
Turn(s, projects, n, page) ==
    LET ids  == Sorted(page)
        held == Matching(s, projects)
    IN  [s EXCEPT !.out    = s.out \o ids,
                  !.cursor = IF ids = <<>> THEN s.cursor ELSE ids[Len(ids)],
                  !.kept   = IF s.cursor = NoCursor THEN held ELSE s.kept \cap held,
                  !.begun  = IF s.cursor = NoCursor THEN held ELSE s.begun,
                  !.pc     = IF Len(ids) = n THEN "paging" ELSE "done"]

Cut ==
    /\ scan.pc = "paging"
    /\ scan' = [IdleScan EXCEPT !.pc = "cut"]
    /\ UNCHANGED <<now, logs, sight>>

\* Query returns a next cursor exactly when the page is full.
RunLogQuery(n) ==
    /\ scan.pc = "paging" /\ scan.mode = "list" /\ ~TooWide(scan)
    /\ \E projects \in SelectProjects(scan.asked, VisibleTo(scan.reader)) :
          scan' = Turn(scan, projects, n, Page(scan, projects, n))
    /\ UNCHANGED <<now, logs, sight>>

\* The member's projects, or the window, no longer allow the next page.
Refused ==
    /\ scan.mode = "list"
    /\ TooWide(scan) \/ SelectProjects(scan.asked, VisibleTo(scan.reader)) = {}
    /\ Cut
-----------------------------------------------------------------------------
(* Exports: one request for all the pages. *)

StreamExport(f, reader, asked) ==
    \E projects \in SelectProjects(asked, VisibleTo(reader)), cap \in RowCaps :
        Begin([f EXCEPT !.reader = reader, !.mode = "export", !.scope = projects, !.cap = cap])

ExportProject(p) == \E f \in Filters : StreamExport(f, "member", {p})
ExportOrg        == \E f \in Filters, asked \in SUBSET LogProjects : StreamExport(f, "member", asked)
ExportAPILogs ==
    \E f \in Filters, pinned \in BOOLEAN, asked \in SUBSET LogProjects :
        StreamExport(f, KeyScope(pinned), asked)

\* The rows of a page are written up to the cap.
Capped(s) ==
    IF Len(s.out) > s.cap
    THEN [s EXCEPT !.out = SubSeq(s.out, 1, s.cap), !.cursor = s.out[s.cap], !.pc = "capped"]
    ELSE s

WriteExport ==
    /\ scan.pc = "paging" /\ scan.mode = "export" /\ ~TooWide(scan)
    /\ scan' = Capped(Turn(scan, scan.scope, ExportPage, Page(scan, scan.scope, ExportPage)))
    /\ UNCHANGED <<now, logs, sight>>

\* A later page fails, the client goes away, or the first page's window is too wide:
\* the body ends where it is.
StopEarly == scan.mode = "export" /\ Cut
-----------------------------------------------------------------------------
(* Everything else. *)

\* Rows arrive with the client's timestamps, old ones included.
Ingest(id, ts, p) ==
    /\ logs[id].state = "unborn"
    /\ logs' = [logs EXCEPT ![id] = [state |-> "stored", ts |-> ts, project |-> p]]
    /\ UNCHANGED <<now, sight, scan>>

\* Retention deletes what is older than the cutoff.
Purge(cutoff) ==
    LET old == {id \in Stored : logs[id].ts < cutoff}
    IN  /\ old # {}
        /\ logs' = [id \in LogIds |-> IF id \in old THEN [logs[id] EXCEPT !.state = "deleted"] ELSE logs[id]]
        /\ scan' = [scan EXCEPT !.kept = scan.kept \ old, !.begun = scan.begun \ old]
        /\ UNCHANGED <<now, sight>>

ChangeSight(p) ==
    /\ sight' = IF p \in sight THEN sight \ {p} ELSE sight \cup {p}
    /\ UNCHANGED <<now, logs, scan>>

Pass ==
    /\ now < LastTime
    /\ now' = now + 1
    /\ UNCHANGED <<logs, sight, scan>>

Start ==
    /\ scan.pc = "idle"
    /\ \/ \E p \in LogProjects : Query(p) \/ ExportProject(p)
       \/ QueryOrg \/ QueryAPILogs \/ ExportOrg \/ ExportAPILogs

ReadPages ==
    \/ Start
    \/ \E n \in PageSizes : RunLogQuery(n)
    \/ Refused \/ WriteExport \/ StopEarly

ChangeTable ==
    \/ \E id \in LogIds, ts \in Times, p \in LogProjects : Ingest(id, ts, p)
    \/ \E t \in Times : Purge(t)
    \/ \E p \in LogProjects : ChangeSight(p)
    \/ Pass

LogQueriesNext == ReadPages \/ ChangeTable

LogQueriesSpec == LogQueriesInit /\ [][LogQueriesNext]_logQueryVars
-----------------------------------------------------------------------------
(* Properties. *)

Returned == {scan.out[i] : i \in DOMAIN scan.out}

\* Paging by keyset over a table that changes: what the reader holds is strictly
\* newest first, so nothing comes twice; it reaches down to the cursor without a gap,
\* except for rows that were deleted or stopped matching on the way; and when the last
\* page had no next cursor, nothing that matched all along is missing.
PagesAreComplete ==
    /\ \A i, j \in DOMAIN scan.out : i < j => Newer(scan.out[i], scan.out[j])
    /\ \A id \in scan.kept : id \in Returned \/ (scan.cursor # NoCursor /\ Newer(scan.cursor, id))
    /\ scan.pc = "done" => scan.kept \subseteq Returned

\* Not met. An export holds every row that matched when it began and was not deleted
\* since: with a tag filter and no `from`, a later page's window starts later.
ExportKeepsItsWindow == scan.pc = "done" => scan.begun \subseteq Returned
=============================================================================

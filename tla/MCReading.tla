----------------------------- MODULE MCReading -----------------------------
(* How stored things are read, one family in each behaviour: opening a live    *)
(* tail, the records a team keeps (one kind of them: their tables are          *)
(* separate), paging through logs, and the figures computed from them.         *)
EXTENDS StreamTickets, SavedRecords, LogQueries, LogAnalytics

CONSTANT issuer   \* a request

VARIABLE scene

mcVars == <<vars, savedVars, logQueryVars, analyticsVars, scene>>

MCInit ==
    /\ Init /\ SavedRecordsInit /\ LogQueriesInit /\ LogAnalyticsInit
    /\ scene \in Kinds \cup {"tail", "paging", "charts"}
    /\ scene # "tail" => access = {}
    /\ scene \notin Kinds => orgAdmins = {} /\ readers = {}
    /\ sight = LogProjects
    /\ now = 1

\* There is one ticket: a single request asks for it, and the others open streams.
Tailing ==
    /\ Next
    /\ \A r \in Requests :
         req'[r].pc \notin (IF r = issuer THEN {"redeeming", "authenticated"} ELSE {"authorized"})

\* The window slides only under a tag filter, the caller's projects only matter to
\* a member's list, and a query that has ended is not followed further.
Paging ==
    /\ scan.pc \in {"idle", "paging"} /\ (ReadPages \/ ChangeTable)
    /\ \A id \in LogIds : logs'[id].ts < LastTime - 1
    /\ scan'.from < LastTime /\ scan'.to < LastTime /\ now' < LastTime
    /\ sight' # sight => scan.pc = "paging" /\ scan.reader = "member"
    /\ now' # now => scan.pc = "paging" /\ scan.tags
    /\ scan'.from # None => scan'.tags
    /\ scan'.to # None => ~scan'.tags

\* One figure in a behaviour, at its end; ids carry no meaning, so rows get the first
\* by age; one row is enough for a second project.
Charting ==
    /\ chart = NoFigure /\ LogAnalyticsNext
    /\ \A i, j \in DOMAIN table' : i < j => table'[i].ts <= table'[j].ts
    /\ DOMAIN table' = 1 .. Cardinality(DOMAIN table')
    /\ Cardinality({i \in DOMAIN table' : table'[i].project # KeyPin}) <= 1

Saving ==
    /\ SavedRecordsNext
    /\ \A v \in Visits : visit'[v].pc = "idle" \/ visit'[v].kind = scene

MCNext ==
    /\ \/ scene = "tail" /\ Tailing /\ UNCHANGED <<savedVars, logQueryVars, analyticsVars>>
       \/ scene \in Kinds /\ Saving /\ UNCHANGED <<vars, logQueryVars, analyticsVars>>
       \/ scene = "paging" /\ Paging /\ UNCHANGED <<vars, savedVars, analyticsVars>>
       \/ scene = "charts" /\ Charting /\ UNCHANGED <<vars, savedVars, logQueryVars>>
    /\ UNCHANGED scene

MCSpec == MCInit /\ [][MCNext]_mcVars
=============================================================================

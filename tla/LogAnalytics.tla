---------------------------- MODULE LogAnalytics ----------------------------
(***************************************************************************)
(* The figures computed from stored logs: the time series, the top groups  *)
(* of a dimension, the counts per level, the total beside a page, and one  *)
(* log by its id (analytics.go and logapp.go of app/domain/logapp,         *)
(* publicquery.go, analytics.go of logbus and logdb).                      *)
(*                                                                         *)
(* Each is one statement over a table that ingestion and retention change; *)
(* `chart` is the last answer.  Figures of an hour's grain or more come    *)
(* from the hourly rollup, which counts a row under the hour it is in      *)
(* (that it does is the subject of LogRollup); the others scan the table.  *)
(* A row's field stands for the meta field that is grouped on; the         *)
(* source-type filter thins out the rows as the level filter does, and is  *)
(* left out.                                                               *)
(***************************************************************************)
EXTENDS Integers, Sequences, FiniteSets, FiniteSetsExt, Functions

CONSTANTS
    RowIds,          \* ids of logs
    ChartProjects,
    ChartNow,        \* the time of the requests
    LastStamp,       \* bound on timestamps and on the bounds of a range
    Intervals,       \* bucket widths
    HourWidth,       \* the width of an hour
    RawSpan,         \* MaxRawWindow
    DefaultSpan,     \* DefaultWindow
    BucketCap,       \* MaxBuckets
    DefaultLimit,    \* of groups, when none is asked for
    LimitCap,        \* MaxAggregateLimit
    TotalCap         \* of a bounded total

ASSUME LogAnalyticsAssumption ==
    /\ IsFiniteSet(ChartProjects)
    /\ {ChartNow, LastStamp, RawSpan, DefaultSpan, BucketCap} \subseteq Nat
    /\ {HourWidth, DefaultLimit, LimitCap, TotalCap} \subseteq Nat \ {0}
    /\ Intervals \subseteq Nat \ {0}

VARIABLES
    table,   \* the rows of the logs table by id
    chart    \* the last answer, with what it was computed from

analyticsVars == <<table, chart>>

Stamps == 0 .. LastStamp
Unset  == -1   \* a bound or a filter that is not given

LevelNames == {"ERROR", "INFO"}
Missing    == "no such field"
Row == [project: ChartProjects, ts: Stamps, level: LevelNames, field: {Missing, ""}]

NoFigure == [kind |-> "none", read |-> {}]

LogAnalyticsInit ==
    /\ table = [id \in {} |-> 0]
    /\ chart = NoFigure

Show(figure) == chart' = figure /\ UNCHANGED table
-----------------------------------------------------------------------------
(* The range. *)

\* parseWindow leaves out what is not given; applyWindowDefaults fills it in.
WindowOf(from, to) ==
    LET end == IF to = Unset THEN ChartNow ELSE to
    IN  [from |-> IF from = Unset THEN end - DefaultSpan ELSE from, to |-> end]

Span(w) == w.to - w.from

Windows == {WindowOf(from, to) : from, to \in Stamps \cup {Unset}}

Floor(t, step) == (t \div step) * step

\* The time a row is selected by: the rollup has its hour, the table its timestamp.
StampOf(id, rolled) == IF rolled THEN Floor(table[id].ts, HourWidth) ELSE table[id].ts

RowsIn(p, w, level, rolled) ==
    {id \in DOMAIN table : /\ table[id].project = p
                           /\ StampOf(id, rolled) >= w.from /\ StampOf(id, rolled) < w.to
                           /\ level \in {"any", table[id].level}}
-----------------------------------------------------------------------------
(* GET /projects/{project_id}/logs/timeseries *)

FromRollup(step) == step >= HourWidth

\* TimeseriesRequest.validate
ValidSeries(w, step) ==
    /\ w.from < w.to
    /\ Span(w) \div step <= BucketCap
    /\ FromRollup(step) \/ Span(w) <= RawSpan

\* A bug: the series starts at `from` and not at the bucket that holds it.
UnalignedBuckets(w, step) == {t \in w.from .. (w.to - 1) : (t - w.from) % step = 0}

\* Every bucket of the range, aligned as the query's floor aligns
Buckets(w, step) == {t \in Floor(w.from, step) .. (w.to - 1) : t % step = 0}

\* Every bucket carries every level; a count whose bucket was not generated is dropped.
SeriesOf(ids, rolled, w, step) ==
    [b \in Buckets(w, step) \X LevelNames |->
        Cardinality({id \in ids : Floor(StampOf(id, rolled), step) = b[1] /\ table[id].level = b[2]})]

Timeseries(p, w, step, level) ==
    LET ids == RowsIn(p, w, level, FromRollup(step))
    IN  /\ ValidSeries(w, step)
        /\ Show([kind |-> "series", read |-> ids, wanted |-> RowsIn(p, w, level, FALSE), range |-> w,
                 counts |-> SeriesOf(ids, FromRollup(step), w, step)])
-----------------------------------------------------------------------------
(* GET /projects/{project_id}/logs/aggregate *)

\* A column of the rollup, or a meta field, which only the table has
GroupBys == {"level", "meta"}
InRollup(by) == by = "level"

\* AggregateRequest.validate
ValidGroups(w, by) == w.from < w.to /\ (InRollup(by) \/ Span(w) <= RawSpan)
ClampLimit(n) == IF n = Unset THEN DefaultLimit ELSE Min({n, LimitCap})

KeyOf(id, by) == IF by = "level" THEN table[id].level ELSE table[id].field

\* ORDER BY count DESC, key ASC, where NULL comes last
KeyOrder == <<"", "ERROR", "INFO", Missing>>
Before(g, h) ==
    \/ g.count > h.count
    \/ g.count = h.count /\ \E i, j \in DOMAIN KeyOrder : i < j /\ KeyOrder[i] = g.key /\ KeyOrder[j] = h.key

GroupsOf(ids, by) ==
    {[key |-> k, count |-> Cardinality({id \in ids : KeyOf(id, by) = k})] : k \in {KeyOf(id, by) : id \in ids}}

Ordered(groups) ==
    CHOOSE s \in [1 .. Cardinality(groups) -> groups] : \A i, j \in DOMAIN s : i < j => Before(s[i], s[j])

\* The rows are answered in order; a missing field reads as an empty one.
ShownGroups(groups, n) ==
    LET all == Ordered(groups)
    IN  [i \in 1 .. Min({n, Len(all)}) |-> [all[i] EXCEPT !.key = IF @ = Missing THEN "" ELSE @]]

Aggregate(p, w, by, n, level) ==
    LET ids == RowsIn(p, w, level, InRollup(by))
    IN  /\ ValidGroups(w, by)
        /\ Show([kind |-> "groups", read |-> ids, wanted |-> RowsIn(p, w, level, FALSE), range |-> w,
                 by |-> by, limit |-> ClampLimit(n), groups |-> ShownGroups(GroupsOf(ids, by), ClampLimit(n))])
-----------------------------------------------------------------------------
(* GET /projects/{project_id}/logs/stats, and /query/stats for an API key,     *)
(* which must select one project of its scope.                                 *)

RowsOf(p) == {id \in DOMAIN table : table[id].project = p}

\* From the rollup, with a zero for a level without rows
CountLevels(ids) == [l \in LevelNames |-> Cardinality({id \in ids : table[id].level = l})]

Stats(p) == Show([kind |-> "stats", read |-> RowsOf(p), counts |-> CountLevels(RowsOf(p))])

QueryAPIStats(scope, asked) ==
    LET selected == IF asked = {} THEN scope ELSE asked
    IN  selected \subseteq scope /\ \E p \in selected : selected = {p} /\ Stats(p)
-----------------------------------------------------------------------------
(* The total beside a page: the filters of the list, without the cursor. *)

TotalModes == {"bounded", "exact"}   \* TotalNone counts nothing

IsExact(mode, total) == mode = "exact" \/ total < TotalCap

\* Several projects are capped one by one and again together.
CountRows(mode, projects) ==
    LET capped(n) == IF mode = "exact" THEN n ELSE Min({n, TotalCap})
    IN  capped(SumFunction([p \in projects |-> capped(Cardinality(RowsOf(p)))]))

Total(projects, mode) ==
    Show([kind |-> "total", read |-> UNION {RowsOf(p) : p \in projects},
          total |-> CountRows(mode, projects), exact |-> IsExact(mode, CountRows(mode, projects))])
-----------------------------------------------------------------------------
(* One log by its id: a member's path names the project, a key has its scope;  *)
(* what is outside of it is not found.                                         *)

Find(id) == DOMAIN table \cap {id}

ShowLog(scope, id) == Show([kind |-> "log", read |-> {i \in Find(id) : table[i].project \in scope}])

QueryByID(p, id)           == ShowLog({p}, id)
QueryAPILogByID(scope, id) == ShowLog(scope, id)
-----------------------------------------------------------------------------
InsertRow(id, row) ==
    /\ id \notin DOMAIN table
    /\ table' = [i \in DOMAIN table \cup {id} |-> IF i = id THEN row ELSE table[i]]
    /\ chart' = NoFigure

\* Retention
Expire(cutoff) ==
    /\ table' = RestrictValues(table, LAMBDA row : row.ts >= cutoff)
    /\ table' # table
    /\ chart' = NoFigure

LogAnalyticsNext ==
    \/ \E p \in ChartProjects :
         \/ \E w \in Windows, level \in LevelNames \cup {"any"} :
              \/ \E step \in Intervals : Timeseries(p, w, step, level)
              \/ \E by \in GroupBys, n \in {Unset} \cup 1 .. LimitCap + 1 : Aggregate(p, w, by, n, level)
         \/ Stats(p)
         \/ \E id \in RowIds : QueryByID(p, id)
    \/ \E scope \in SUBSET ChartProjects :
         \/ \E asked \in SUBSET ChartProjects : QueryAPIStats(scope, asked)
         \/ \E mode \in TotalModes : Total(scope, mode)
         \/ \E id \in RowIds : QueryAPILogByID(scope, id)
    \/ \E id \in RowIds, row \in Row : InsertRow(id, row)
    \/ \E cutoff \in Stamps : Expire(cutoff)

LogAnalyticsSpec == LogAnalyticsInit /\ [][LogAnalyticsNext]_analyticsVars
-----------------------------------------------------------------------------
(* Properties. *)

Aligned(w) == w.from % HourWidth = 0 /\ w.to % HourWidth = 0

\* The figures account for every row they were computed from, whatever the range:
\* each row is in one bucket of the series, in one group unless groups were left out
\* (and those are no larger than the ones shown), and under one level; a total that
\* claims to be exact is, and one that does not has reached the cap, also when
\* several projects are capped one by one.  Over whole hours the rollup and the
\* table select the same rows.
ChartsAddUp ==
    CASE chart.kind = "series" ->
           /\ SumFunction(chart.counts) = Cardinality(chart.read)
           /\ Aligned(chart.range) => chart.read = chart.wanted
      [] chart.kind = "groups" ->
           LET counts == [i \in DOMAIN chart.groups |-> chart.groups[i].count]
               among(n) == {i \in DOMAIN counts : counts[i] >= n}
           IN  /\ Len(counts) < chart.limit => SumFunction(counts) = Cardinality(chart.read)
               /\ \A i \in DOMAIN counts : \A g \in GroupsOf(chart.read, chart.by) :
                    g.count > counts[i] => \E j \in among(g.count) : counts[j] = g.count
               /\ Aligned(chart.range) => chart.read = chart.wanted
      [] chart.kind = "stats" -> SumFunction(chart.counts) = Cardinality(chart.read)
      [] chart.kind = "total" ->
           IF chart.exact THEN chart.total = Cardinality(chart.read)
           ELSE chart.total = TotalCap /\ Cardinality(chart.read) >= TotalCap
      [] OTHER -> TRUE
-----------------------------------------------------------------------------
(* What a comment says and the code does not do (README, section 4). *)

\* "Timeseries returns level counts bucketed by interval over the requested range":
\* every row of the range is counted and no other.  From the rollup, the hour that
\* `from` is in is left out, and the one that `to` is in is counted whole.
SeriesIsOfItsRange == chart.kind = "series" => chart.read = chart.wanted
=============================================================================

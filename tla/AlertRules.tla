----------------------------- MODULE AlertRules ----------------------------
(***************************************************************************)
(* How alerting is configured (app/domain/integrationapp, the connections  *)
(* and rules of business/domain/integrationbus, condition.go, business/    *)
(* sdk/alerting) and what a configuration makes fire.  AlertEvents has     *)
(* what happens to a firing.                                               *)
(*                                                                         *)
(* A request loads a connection or a rule, changes its copy and writes the *)
(* whole row back; others run in between.  A connection is never deleted,  *)
(* and its project and a rule's never change.                              *)
(*                                                                         *)
(* Of a log only what a predicate can see is kept: its level, whether its  *)
(* message has the word or a blank the predicate looks for, and how its    *)
(* source is spelled.                                                      *)
(***************************************************************************)
EXTENDS Integers, Sequences, FiniteSets, FiniteSetsExt

CONSTANTS
    Teams,          \* projects of one organization
    ConnIds,        \* ids of integrations rows
    RuleIds,        \* ids of alert_rules rows
    Editors,        \* requests that change the configuration
    UsedLevels,     \* severities rules and logs use
    MaxCount,       \* MaxThresholdCount of condition.go
    CountCap,       \* MaxThresholdCount of alerting.go
    MaxWindow,      \* MaxThresholdWindow
    MaxLogs,        \* bound on the logs
    LastTick,       \* bound on the clock
    MaxWrites       \* bound on the configuration changes

ASSUME AlertRulesAssumption ==
    /\ UsedLevels \subseteq {"DEBUG", "INFO", "WARN", "ERROR"}
    /\ MaxCount \in Nat \ {0} /\ CountCap \in Nat \ {0} /\ MaxWindow \in Nat \ {0}
    /\ MaxLogs \in Nat /\ LastTick \in Nat /\ MaxWrites \in Nat

VARIABLES
    tick,      \* the clock
    conn,      \* integrations
    rule,      \* alert_rules
    edit,      \* what each request has loaded
    logTable,  \* logs, in order of arrival
    dispatch,  \* FireAlerts: the rules it read that matched and are not yet sent
    verdict,   \* the last threshold evaluated
    sent,      \* the last delivery: its project, its connection, whether that one is off
    off,       \* history: connections disconnected since somebody enabled them
    writes     \* history: number of changes

ruleVars == <<tick, conn, rule, edit, logTable, dispatch, verdict, sent, off, writes>>

AnyTeam  == CHOOSE p \in Teams : TRUE
AnyConn  == CHOOSE c \in ConnIds : TRUE

NoConn  == [live |-> FALSE, project |-> AnyTeam, name |-> 0, enabled |-> FALSE]
NoRule  == [live |-> FALSE, project |-> AnyTeam, conn |-> AnyConn, level |-> "ERROR",
            cond |-> [type |-> "level", level |-> "ERROR"], active |-> FALSE]
Removed == [NoRule EXCEPT !.level = "removed"]
NoEdit  == [doing |-> "none"]
NoBatch == [project |-> AnyTeam, todo |-> {}, rows |-> <<>>]
NoVerdict == [judged |-> FALSE]
NotSent   == [project |-> AnyTeam, conn |-> AnyConn, done |-> FALSE, off |-> FALSE]

AlertRulesInit ==
    /\ tick = 1
    /\ conn = [c \in ConnIds |-> NoConn] /\ rule = [r \in RuleIds |-> NoRule]
    /\ edit = [e \in Editors |-> NoEdit]
    /\ logTable = <<>>
    /\ dispatch = NoBatch /\ verdict = NoVerdict /\ sent = NotSent
    /\ off = {} /\ writes = 0
-----------------------------------------------------------------------------
(* Conditions. *)

\* Unknown levels rank below DEBUG.
SeverityRank(level) ==
    CASE level = "DEBUG" -> 0 [] level = "INFO" -> 1 [] level = "WARN" -> 2
      [] level = "ERROR" -> 3 [] OTHER -> -1

LevelCondition(level) == [type |-> "level", level |-> level]

\* A text that is not given, only blanks, or a word; a source that is not given, or
\* one name in either case or padded with blanks.
Predicates == [levels: SUBSET UsedLevels, contains: {"none", "blank", "word"},
               source: {"none", "lower", "upper", "padded"}]

Logs == [project: Teams, ts: 0 .. LastTick, level: UsedLevels, word: BOOLEAN, blank: BOOLEAN,
         source: {"lower", "upper", "other"}]

Omitted == [type |-> "omitted"]

Conditions ==
    {Omitted} \cup {LevelCondition(l) : l \in UsedLevels \cup {"NOTICE"}}
    \cup [type: {"match"}, query: Predicates]
    \cup [type: {"threshold"}, query: Predicates, window: 0 .. MaxWindow, count: 0 .. MaxCount, comparator: {"gte", "gt"}]

\* Query.IsZero, on the trimmed texts
IsZero(q) == q.levels = {} /\ q.contains # "word" /\ q.source = "none"

\* Query.Matches: trimmed, ignoring case.
QueryMatches(q, log) ==
    /\ ~IsZero(q)
    /\ q.levels # {} => log.level \in q.levels
    /\ q.contains = "word" => log.word
    /\ q.source # "none" => log.source # "other"

\* Condition.Validate
Validate(c) ==
    CASE c.type = "level"     -> SeverityRank(c.level) >= 0
      [] c.type = "match"     -> ~IsZero(c.query) /\ \A l \in c.query.levels : SeverityRank(l) >= 0
      [] c.type = "threshold" ->
            /\ ~IsZero(c.query) /\ \A l \in c.query.levels : SeverityRank(l) >= 0
            /\ c.window \in 1 .. MaxWindow
            /\ c.count \in 1 .. MaxCount
            /\ c.comparator \in {"gte", "gt"}
      [] OTHER -> FALSE

\* Condition.MatchesLog
MatchesLog(c, log) ==
    IF c.type = "level"
    THEN SeverityRank(log.level) >= 0 /\ SeverityRank(log.level) >= SeverityRank(c.level)
    ELSE QueryMatches(c.query, log)

\* Condition.Satisfied
Satisfied(c, matched) == IF c.comparator = "gt" THEN matched > c.count ELSE matched >= c.count

\* The rows CountMatching's statement selects: texts as they are given, the source by
\* equality.
SqlMatches(q, log) ==
    /\ q.levels # {} => log.level \in q.levels
    /\ q.contains = "word" => log.word
    /\ q.contains = "blank" => log.blank
    /\ q.source # "none" => log.source = q.source

InWindow(log, p, from, to) == log.project = p /\ log.ts >= from /\ log.ts < to

\* Counter.CountMatching: the newest CountCap rows are counted.
CountMatching(p, q, from, to) ==
    LET rows == {i \in DOMAIN logTable : InWindow(logTable[i], p, from, to) /\ SqlMatches(q, logTable[i])}
    IN  Min({CountCap, Cardinality(rows)})
-----------------------------------------------------------------------------
(* Connections. *)

Free(e) == edit[e].doing = "none"
Writes  == writes < MaxWrites /\ writes' = writes + 1

NewIntegration(p, name) == [live |-> TRUE, project |-> p, name |-> name, enabled |-> TRUE]

\* The insert's unique key: a project uses a name once for a provider.
NameFree(p, name) == \A c \in ConnIds : ~(conn[c].live /\ conn[c].project = p /\ conn[c].name = name)

\* create, of a provider the server knows.
CreateIntegration(e, p, c, name) ==
    /\ Free(e) /\ ~conn[c].live /\ NameFree(p, name)
    /\ conn' = [conn EXCEPT ![c] = NewIntegration(p, name)]
    /\ Writes
    /\ UNCHANGED <<tick, rule, edit, logTable, dispatch, verdict, sent, off>>

\* projectConnection: the connection must be of the project on the path.
ProjectConnection(e, p, c, doing) ==
    /\ Free(e) /\ conn[c].live /\ conn[c].project = p
    /\ edit' = [edit EXCEPT ![e] = [doing |-> doing, id |-> c, row |-> conn[c]]]
    /\ UNCHANGED <<tick, conn, rule, logTable, dispatch, verdict, sent, off, writes>>

\* The row is written whole, by id.
WriteConn(c, row) == conn' = [conn EXCEPT ![c] = row]

\* update: the fields that were sent are changed in the copy, which is written whole.
\* Of the fields only `enabled` is told apart; the name and the credentials go the
\* same way.
SaveIntegration(e, enabled) ==
    /\ edit[e].doing = "update"
    /\ LET c == edit[e].id
       IN  /\ WriteConn(c, [edit[e].row EXCEPT !.enabled = enabled])
           /\ off' = IF enabled /\ ~edit[e].row.enabled THEN off \ {c} ELSE off
    /\ edit' = [edit EXCEPT ![e] = NoEdit]
    /\ Writes
    /\ UNCHANGED <<tick, rule, logTable, dispatch, verdict, sent>>

\* delete, first statement: the copy is written back switched off.
Disable(e) ==
    /\ edit[e].doing = "disable"
    /\ WriteConn(edit[e].id, [edit[e].row EXCEPT !.enabled = FALSE])
    /\ edit' = [edit EXCEPT ![e].doing = "suspend"]
    /\ off' = off \cup {edit[e].id}
    /\ Writes
    /\ UNCHANGED <<tick, rule, logTable, dispatch, verdict, sent>>

\* delete, second statement: its rules are suspended.
SuspendRules(e) ==
    /\ edit[e].doing = "suspend"
    /\ rule' = [r \in RuleIds |-> IF rule[r].live /\ rule[r].conn = edit[e].id
                                  THEN [rule[r] EXCEPT !.active = FALSE] ELSE rule[r]]
    /\ edit' = [edit EXCEPT ![e] = NoEdit]
    /\ UNCHANGED <<tick, conn, logTable, dispatch, verdict, sent, off, writes>>

\* test: delivered with the copy's credentials, switched on or not.
TestIntegration(e) ==
    /\ edit[e].doing = "test"
    /\ edit' = [edit EXCEPT ![e] = NoEdit]
    /\ UNCHANGED <<tick, conn, rule, logTable, dispatch, verdict, sent, off, writes>>

\* A statement fails or the client goes away between two of them.
GiveUpEdit(e) ==
    /\ ~Free(e)
    /\ edit' = [edit EXCEPT ![e] = NoEdit]
    /\ UNCHANGED <<tick, conn, rule, logTable, dispatch, verdict, sent, off, writes>>
-----------------------------------------------------------------------------
(* Rules. *)

\* A bug: any connection will do.
RoutableAnywhere(c, p) == conn[c].live

\* A rule may only route to a connection in its own project.
Routable(c, p) == conn[c].live /\ conn[c].project = p

\* An omitted condition fires at or above the level.
Asked(level, cond) == IF cond.type = "omitted" THEN LevelCondition(level) ELSE cond

NewRule(p, c, level, cond, active) ==
    [live |-> TRUE, project |-> p, conn |-> c, level |-> level, cond |-> cond, active |-> active]

\* createRule
CreateRule(e, p, r, c, level, cond, active) ==
    /\ Free(e) /\ rule[r] = NoRule
    /\ SeverityRank(level) >= 0 /\ Validate(Asked(level, cond))
    /\ Routable(c, p)
    /\ rule' = [rule EXCEPT ![r] = NewRule(p, c, level, Asked(level, cond), active)]
    /\ Writes
    /\ UNCHANGED <<tick, conn, edit, logTable, dispatch, verdict, sent, off>>

\* projectRule: the rule must be of the project on the path.
ProjectRule(e, p, r, doing) ==
    /\ Free(e) /\ rule[r].live /\ rule[r].project = p
    /\ edit' = [edit EXCEPT ![e] = [doing |-> doing, id |-> r, row |-> rule[r]]]
    /\ UNCHANGED <<tick, conn, rule, logTable, dispatch, verdict, sent, off, writes>>

\* The whole row is written, by id; a deleted one is not there any more.
SaveRule(e, row) ==
    /\ rule' = IF rule[edit[e].id].live THEN [rule EXCEPT ![edit[e].id] = row] ELSE rule
    /\ edit' = [edit EXCEPT ![e] = NoEdit]
    /\ Writes
    /\ UNCHANGED <<tick, conn, logTable, dispatch, verdict, sent, off>>

\* updateRule: another connection, or
RerouteRule(e, c) ==
    /\ edit[e].doing = "rule"
    /\ Routable(c, edit[e].row.project)
    /\ SaveRule(e, [edit[e].row EXCEPT !.conn = c])

\* what the request says of the level and the condition: a level condition follows
\* the level unless a condition comes with it.
Revised(row, level, cond) ==
    [row EXCEPT !.level = level,
                !.cond = IF cond.type # "omitted" THEN cond
                         ELSE IF row.cond.type = "level" THEN LevelCondition(level) ELSE row.cond]

ChangeRule(e, level, cond) ==
    /\ edit[e].doing = "rule"
    /\ SeverityRank(level) >= 0 /\ (cond.type = "omitted" \/ Validate(cond))
    /\ SaveRule(e, Revised(edit[e].row, level, cond))

ToggleRule(e, active) ==
    /\ edit[e].doing = "toggle"
    /\ SaveRule(e, [edit[e].row EXCEPT !.active = active])

RemoveRule(e) ==
    /\ edit[e].doing = "remove"
    /\ rule' = [rule EXCEPT ![edit[e].id] = Removed]
    /\ edit' = [edit EXCEPT ![e] = NoEdit]
    /\ Writes
    /\ UNCHANGED <<tick, conn, logTable, dispatch, verdict, sent, off>>
-----------------------------------------------------------------------------
(* What fires. *)

LogArrives(log) ==
    /\ Len(logTable) < MaxLogs
    /\ logTable' = Append(logTable, log)
    /\ UNCHANGED <<tick, conn, rule, edit, dispatch, verdict, sent, off, writes>>

\* FireAlerts on one stored log: the project's active rules that match it, in the
\* state they are read in.  A threshold is not decided here.
FireAlerts(i) ==
    LET log == logTable[i]
        hit == {r \in RuleIds : /\ rule[r].live /\ rule[r].active /\ rule[r].project = log.project
                                /\ rule[r].cond.type # "threshold" /\ MatchesLog(rule[r].cond, log)}
    IN  /\ dispatch = NoBatch /\ hit # {}
        /\ dispatch' = [project |-> log.project, todo |-> hit, rows |-> rule]
        /\ sent' = NotSent
        /\ UNCHANGED <<tick, conn, rule, edit, logTable, verdict, off, writes>>

\* SendAlert for one of them: nothing goes out over a connection that is off.
DeliverAlert(r) ==
    LET c == dispatch.rows[r].conn
        left == dispatch.todo \ {r}
    IN  /\ r \in dispatch.todo
        /\ sent' = IF conn[c].enabled THEN [project |-> dispatch.project, conn |-> c, done |-> TRUE, off |-> c \in off]
                 ELSE NotSent
        /\ dispatch' = IF left = {} THEN NoBatch ELSE [dispatch EXCEPT !.todo = left]
        /\ UNCHANGED <<tick, conn, rule, edit, logTable, verdict, off, writes>>

\* A bug: the window reaches one instant further back.
WindowStartEarly(c) == tick - c.window - 1

WindowStart(c) == tick - c.window

\* History: the logs of the window the condition matches, taken one by one.
Meant(row) ==
    Cardinality({i \in DOMAIN logTable :
        /\ logTable[i].project = row.project /\ MatchesLog(row.cond, logTable[i])
        /\ logTable[i].ts < tick /\ tick - logTable[i].ts <= row.cond.window})

\* EvaluateThresholds, one rule of it.
EvaluateThreshold(r) ==
    LET c == rule[r].cond
    IN  /\ rule[r].live /\ rule[r].active /\ c.type = "threshold"
        /\ verdict' = [judged |-> TRUE, cond |-> c, meant |-> Meant(rule[r]),
                       fires |-> Satisfied(c, CountMatching(rule[r].project, c.query, WindowStart(c), tick))]
        /\ UNCHANGED <<tick, conn, rule, edit, logTable, dispatch, sent, off, writes>>

PassTick ==
    /\ tick < LastTick
    /\ tick' = tick + 1
    /\ verdict' = NoVerdict
    /\ UNCHANGED <<conn, rule, edit, logTable, dispatch, sent, off, writes>>
-----------------------------------------------------------------------------
Configure(e) ==
    \/ \E p \in Teams, c \in ConnIds :
         \/ \E name \in 1 .. 2 : CreateIntegration(e, p, c, name)
         \/ \E doing \in {"update", "disable", "test"} : ProjectConnection(e, p, c, doing)
    \/ \E on \in BOOLEAN : SaveIntegration(e, on)
    \/ Disable(e) \/ SuspendRules(e) \/ TestIntegration(e) \/ GiveUpEdit(e)
    \/ \E p \in Teams, r \in RuleIds, doing \in {"rule", "toggle", "remove"} : ProjectRule(e, p, r, doing)
    \/ \E c \in ConnIds : RerouteRule(e, c)
    \/ \E active \in BOOLEAN : ToggleRule(e, active)
    \/ RemoveRule(e)

\* The requests that bring a level and a condition
Describe(e, level, cond) ==
    \/ \E p \in Teams, r \in RuleIds, c \in ConnIds, active \in BOOLEAN :
         CreateRule(e, p, r, c, level, cond, active)
    \/ ChangeRule(e, level, cond)

Fire ==
    \/ \E i \in DOMAIN logTable : FireAlerts(i)
    \/ \E r \in RuleIds : DeliverAlert(r) \/ EvaluateThreshold(r)
    \/ PassTick

AlertRulesNext ==
    \/ \E e \in Editors : Configure(e) \/ \E level \in UsedLevels, cond \in Conditions : Describe(e, level, cond)
    \/ \E log \in Logs : LogArrives(log)
    \/ Fire

AlertRulesSpec == AlertRulesInit /\ [][AlertRulesNext]_ruleVars
-----------------------------------------------------------------------------
(* Properties. *)

\* "A rule may only route to a connection in its own project": whatever requests
\* create, reroute and reload, an alert goes out over a connection of the project
\* whose log fired it.
AlertsStayInProject == sent.done => conn[sent.conn].project = sent.project

\* The predicates Matches and the statement read the same way
Plain(q) == q.contains # "blank" /\ q.source = "none"

Reached(v) == IF v.cond.comparator = "gt" THEN v.meant > v.cond.count ELSE v.meant >= v.cond.count

\* "threshold fires when the predicate matches often enough inside a window": counting
\* in SQL, up to a cap, decides as matching the logs one by one would, for every
\* threshold the cap exceeds.
ThresholdsFire ==
    (verdict.judged /\ Plain(verdict.cond.query) /\ verdict.cond.count < CountCap)
        => verdict.fires = Reached(verdict)

\* Not met.  The same without the condition on the cap: condition.go accepts four
\* times what alerting.go counts up to.
AcceptedThresholdsFire ==
    (verdict.judged /\ Plain(verdict.cond.query)) => verdict.fires = Reached(verdict)

\* Not met.  "Query is the predicate shared by match and threshold conditions": blanks,
\* padding and the case of a source are read in two ways.
PredicateShared ==
    (verdict.judged /\ verdict.cond.count < CountCap) => verdict.fires = Reached(verdict)

\* Not met.  A disconnected connection sends nothing until it is enabled again: an
\* update that loaded it before writes it back switched on.
DisconnectedStaysOff == ~sent.off

\* Not met.  "soft-disable and suspend the rules bound to it": a rule is created on,
\* moved to, or switched on over a connection that is off.
SuspendedWithConnection ==
    \A r \in RuleIds : rule[r].live /\ rule[r].active /\ rule[r].conn \in off
                          => \E e \in Editors : edit[e].doing = "suspend"
=============================================================================

------------------------------ MODULE MCAlerts ------------------------------
(* Alerting on small instances, one question in each behaviour: two           *)
(* dispatchers race over one rule; a dispatcher, the evaluator and operators  *)
(* share two rules; requests race over the configuration; thresholds count.   *)
EXTENDS AlertEvents, AlertRules

CONSTANTS r1, d2, e1   \* a rule, a dispatcher and the evaluator

VARIABLE scene

mcVars == <<vars, ruleVars, scene>>

OneProject == [r \in Rules |-> CHOOSE p \in Projects : TRUE]

MCInit ==
    /\ Init /\ AlertRulesInit
    /\ scene \in {"races", "operators", "configuration", "thresholds"}
    /\ rules[r1].kind = "level"
    /\ scene # "operators" => \A r \in Rules \ {r1} : rules[r].kind = "threshold"

\* No configuration changes, no evaluator.
Races ==
    \/ \E w \in Dispatchers : WorkerStep(w) \/ WorkerFault(w)
    \/ \E e \in DOMAIN events : AcknowledgeEvent(e) \/ ResolveEvent(e)
    \/ Tick

Operators ==
    /\ Next
    /\ pc'[d2] = "idle" /\ Len(events') <= 1 /\ Len(pages') <= 1
    /\ \A r \in Rules, k \in Keys : fired'[r][k] <= 2

AnError(p, ts) == [project |-> p, ts |-> ts, level |-> "ERROR", word |-> FALSE, blank |-> FALSE, source |-> "other"]

\* Level rules, a connection for each project, and one error of either.
Configuration ==
    \/ \E e \in Editors : (Configure(e) /\ \A c \in ConnIds : conn'[c].name <= 1) \/ \E l \in UsedLevels : Describe(e, l, Omitted)
    \/ \E p \in Teams : logTable = <<>> /\ LogArrives(AnError(p, 0))
    \/ Fire /\ tick' = tick

\* One rule, never changed, and the predicates that only look at levels and words.
Thresholds ==
    \/ \E e \in Editors :
         \/ CreateIntegration(e, AnyTeam, AnyConn, 1)
         \/ \E cond \in Conditions :
               /\ cond.type = "threshold" /\ Plain(cond.query)
               /\ \E r \in RuleIds : CreateRule(e, AnyTeam, r, AnyConn, "ERROR", cond, TRUE)
    \/ \E log \in Logs :
         /\ log = [AnError(AnyTeam, log.ts) EXCEPT !.level = log.level, !.word = log.word]
         /\ LogArrives(log)
    \/ Fire /\ dispatch' = dispatch

MCNext ==
    /\ \/ scene = "races" /\ Races /\ UNCHANGED ruleVars
       \/ scene = "operators" /\ Operators /\ UNCHANGED ruleVars
       \/ scene = "configuration" /\ Configuration /\ UNCHANGED vars
       \/ scene = "thresholds" /\ Thresholds /\ UNCHANGED vars
    /\ UNCHANGED scene

MCSpec == MCInit /\ [][MCNext]_mcVars
=============================================================================

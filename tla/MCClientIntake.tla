-------------------------- MODULE MCClientIntake --------------------------
(* Client errors on small instances: two workers race over the issues; or one *)
(* question of the intake is asked: how long a refused address waits, whose   *)
(* dashboard a report lands on, what makes two reports one crash, and which   *)
(* issues spike.                                                              *)
EXTENDS MCClientErrors, ClientIntake

CONSTANTS u1, root, co1, co2, s1, s2, a1, p1, p2

VARIABLE scene

mcVars == <<vars, intakeVars, scene>>

MCCompanyOf == [s \in Sites |-> IF s = s1 THEN co1 ELSE co2]

\* Settings that need the defaults, except for the window.
MCSettings == [window |-> 2, baseline |-> 1, multiplier |-> 1, minEvents |-> 0]
MCDefaults == [window |-> 4, baseline |-> 4, multiplier |-> 2, minEvents |-> 2]

Frame(place, column, vendor) == [place |-> place, column |-> column, vendor |-> vendor]

\* What browsers make of a crash: one of ours, one inside a library, a failing endpoint.
Sight(crash, n) ==
    CASE crash = "outage"  -> [crash |-> crash, kind |-> "api", endpoint |-> "logs",
                               message |-> [template |-> IF n = 0 THEN "failed" ELSE "retried", noise |-> n],
                               frames |-> <<Frame("fetch", n, FALSE)>>]
      [] crash = "library" -> [crash |-> crash, kind |-> "react", endpoint |-> "none",
                               message |-> [template |-> "minified", noise |-> n],
                               frames |-> <<Frame("react-dom", 0, TRUE)>>]
      [] OTHER             -> [crash |-> crash, kind |-> "react", endpoint |-> "none",
                               message |-> [template |-> "minified", noise |-> n],
                               frames |-> <<Frame(IF n = 0 THEN "react-dom" ELSE "scheduler", 0, TRUE),
                                            Frame(crash, n, FALSE),
                                            Frame(IF n = 0 THEN "dispatch" ELSE "render", 0, FALSE)>>]

Crash(org, site, sight, at, sampled) ==
    [org |-> org, site |-> site, sight |-> sight, at |-> at, sampled |-> sampled]

Plain == Crash("none", "none", Sight("typo", 0), NoTime, 1)

Bursts    == {<<Plain>>, <<Plain, Plain>>, <<Plain, Plain, Plain>>}
Claims    == {<<Crash(o, s, Sight("typo", 0), NoTime, 1), Crash(co2, s1, Sight("typo", 1), NoTime, 1)>> :
                 o \in {co1, "none"}, s \in {s2, s1, "none"}}
Sightings == {<<Crash("none", "none", Sight(c, n), NoTime, 1)>> :
                 c \in {"typo", "race", "library", "outage"}, n \in {0, 1}}
Repeats   == {<<Crash(co1, s1, Sight("typo", 0), at, n)>> : at \in {NoTime, 0}, n \in {0, 2}} \cup
             {<<Crash(co1, s1, Sight("typo", 0), LastInstant, 2)>>}
MCReports == Bursts \cup Claims \cup Sightings \cup Repeats

MCInit ==
    /\ Init /\ ClientIntakeInit
    /\ scene \in {"races", "limits", "teams", "sightings", "spikes"}
    /\ belongs \subseteq {u1} \X Companies
    /\ scene # "teams" => belongs = {}

Arrive(p) == Reporter(p) \/ ResolveProject(p) \/ StoreReports(p)

\* Reports of no user, one request at a time
Anonymous(batches) ==
    \/ \E b \in batches : (\A p \in Posts : post[p] = NoPost) /\ Receive(p1, a1, "none", b)
    \/ Arrive(p1)

Limits == Anonymous(Bursts) \/ Elapse

Teams ==
    \/ \E p \in Posts, u \in Members, b \in Claims : (p = p2 => post[p1] # NoPost) /\ Receive(p, a1, u, b)
    \/ \E p \in Posts : Arrive(p)
    \/ \E i \in DOMAIN reports : File(i)
    \/ \E o \in Companies : Leave(u1, o)
    \/ \E s \in Sites : CloseSite(s)

ManySightings ==
    \/ Anonymous(Sightings)
    \/ \E i \in DOMAIN reports : File(i)

\* One pass; reports are filed before time goes on, except the last.
Spikes ==
    \/ /\ passes = 0 /\ \A p \in Posts : post[p] = NoPost
       /\ \/ \E b \in Repeats : Receive(p1, a1, root, b) /\ post'[p1] # NoPost
          \/ (\A i \in DOMAIN reports : reports[i].group = 0 => i = MaxReports) /\ Elapse
          \/ groups # <<>> /\ EvaluateSpikes
          \/ \E i \in DOMAIN reports : File(i)
          \/ \E g \in DOMAIN groups, status \in {"ignored", "resolved"} : Triage(g, status)
    \/ Arrive(p1) /\ (post'[p1].who.site # "none" \/ post'[p1].step \in {"project", "idle"})
    \/ \E g \in pass.todo : IssueSpiked(g)

MCNext ==
    /\ \/ scene = "races" /\ Next /\ UNCHANGED intakeVars
       \/ scene = "limits" /\ Limits /\ UNCHANGED vars
       \/ scene = "teams" /\ Teams /\ UNCHANGED vars
       \/ scene = "sightings" /\ ManySightings /\ UNCHANGED vars
       \/ scene = "spikes" /\ Spikes /\ UNCHANGED vars
    /\ UNCHANGED scene

MCSpec == MCInit /\ [][MCNext]_mcVars
=============================================================================

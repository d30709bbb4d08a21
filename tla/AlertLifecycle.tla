--------------------------- MODULE AlertLifecycle ---------------------------
(***************************************************************************)
(* What the alerting domain promises: for each rule and dedup key there is *)
(* one alert.  A firing opens it or folds into it, keeping whoever owns it *)
(* ("repeated firings ... update this row instead of creating another");   *)
(* it is acknowledged only while nobody owns it; closing it frees the key; *)
(* deleting the rule takes its alerts along.                               *)
(***************************************************************************)
EXTENDS Naturals

CONSTANTS Rules, Keys, MaxMatch

VARIABLE alert    \* alert[rule][key]

Clear == [state |-> "clear", count |-> 0]

Init == alert = [r \in Rules |-> [k \in Keys |-> Clear]]

Fire(r, k, n) ==
    alert' = [alert EXCEPT ![r][k] =
                [state |-> IF @.state = "clear" THEN "firing" ELSE @.state,
                 count |-> @.count + n]]

Acknowledge(r, k) ==
    /\ alert[r][k].state = "firing"
    /\ alert' = [alert EXCEPT ![r][k].state = "acknowledged"]

Close(r, k) ==
    /\ alert[r][k].state # "clear"
    /\ alert' = [alert EXCEPT ![r][k] = Clear]

DropRule(r) == alert' = [alert EXCEPT ![r] = [k \in Keys |-> Clear]]

Next ==
    \E r \in Rules :
        \/ \E k \in Keys : \/ \E n \in 1 .. MaxMatch : Fire(r, k, n)
                           \/ Acknowledge(r, k)
                           \/ Close(r, k)
        \/ DropRule(r)

Spec == Init /\ [][Next]_alert
=============================================================================

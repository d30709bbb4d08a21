---------------------------- MODULE MCLogRollup ----------------------------
(* Small instances of LogRollup: a project's application and infra rows. *)
EXTENDS LogRollup

CONSTANTS App, Infra, InfraDays

BothPasses == <<App, Infra>>
BothDays   == [s \in Series |-> IF s = App THEN 1 ELSE InfraDays]
============================================================================

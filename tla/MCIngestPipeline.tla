-------------------------- MODULE MCIngestPipeline --------------------------
(* The two doors logs come in by: IngestPipeline with a lone error, and with   *)
(* an ordinary record and a refused one; AppIngest with two organizations.     *)
(* The doors share no counter, so a behaviour has one of them.                 *)
EXTENDS IngestPipeline, AppIngest, TLC

CONSTANTS p1, p2, o1, o2

VARIABLE scene  \* the door

mcVars == <<vars, appVars, scene>>

MCBatches == {[errors |-> 1, others |-> 0, rejects |-> 0],
              [errors |-> 0, others |-> 1, rejects |-> 1]}
MCOwner == p1 :> o1 @@ p2 :> o2

MCInit ==
    /\ Init /\ AppInit /\ scene \in {"infra", "app"}
    /\ suspended \in {{}, {o2}}
    /\ scene = "infra" => access = {} /\ suspended = {}

\* The last request is the lone error, after the first tick: it finds what the others left.
LastOneLater == arrivals' = MaxArrivals /\ arrivals < MaxArrivals =>
    clock' > 0 /\ \A q \in Slots : pc[q] = "idle" /\ pc'[q] = "arrived" => batch'[q].rejects = 0

MCNext ==
    /\ \/ scene = "infra" /\ Next /\ LastOneLater /\ UNCHANGED appVars
       \/ scene = "app" /\ AppNext /\ UNCHANGED vars
    /\ UNCHANGED scene

MCSpec == MCInit /\ [][MCNext]_mcVars

SlotSymmetry == Permutations(Slots)
=============================================================================

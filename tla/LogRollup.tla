----------------------------- MODULE LogRollup -----------------------------
(***************************************************************************)
(* The logs table, its hourly rollup and the retention run                 *)
(* (business/domain/logbus/stores/logdb, business/sdk/retention).          *)
(*                                                                         *)
(* BulkInsert writes rows and rollup deltas in one transaction.  The       *)
(* retention run deletes expired rows oldest first, in batches, within a   *)
(* row and time budget, and only then realigns the rollup: it reads the    *)
(* oldest surviving row and, in a second transaction, drops and rebuilds.  *)
(* Ingest runs all the time, and the run may be cancelled anywhere.        *)
(*                                                                         *)
(* A series is one project's rows of one source type.  Rows of a series    *)
(* have distinct instants; the source and level columns of the rollup are  *)
(* summed up.                                                              *)
(***************************************************************************)
EXTENDS Integers, Sequences, FiniteSets, FiniteSetsExt

CONSTANTS
    Passes,      \* the series in the order Run visits them, a sequence
    Days,        \* a series' resolved retention, -1 to keep forever
    HourLen,     \* instants in an hour
    BatchSize,
    MaxRows,     \* Config.MaxRows: rows one run may delete, 0 for no limit
    MaxStops,    \* bound on deadlines, failing statements and cancellations
    MaxLag,      \* how old a row may be when it is ingested
    MaxClock,    \* bound on the clock
    MaxBatch     \* bound on the rows of one BulkInsert

Series == {Passes[i] : i \in DOMAIN Passes}

ASSUME ConstantsAssumption ==
    /\ Passes \in Seq(Series) /\ Len(Passes) >= 1 /\ Cardinality(Series) = Len(Passes)
    /\ Days \in [Series -> Int]
    /\ HourLen \in Nat \ {0} /\ BatchSize \in Nat \ {0} /\ MaxBatch \in Nat \ {0}
    /\ MaxRows \in Nat /\ MaxClock \in Nat /\ MaxLag \in Nat /\ MaxStops \in Nat

Time  == 0 .. MaxClock
Hours == 0 .. (MaxClock \div HourLen)
KeepForever == -1
None  == -1

VARIABLES
    clock,
    logs,      \* per series, the instants of the rows in logs
    rollup,    \* per series, log_stats_hourly
    pc,        \* where the retention run is
    pass,      \* the index of the series it is at
    spent,     \* rows deleted in earlier passes of the run
    deleted,   \* rows deleted in this pass
    cutoff,
    oldest,    \* the watermark repairRollup has read
    incomplete,\* deleteExpired stopped on the budget
    raced,     \* history: <<series, hour>> inserted between watermark and repair
    torn,      \* history: series whose purge ended without its repair
    stops      \* history: deadlines, failures and cancellations so far

vars == <<clock, logs, rollup, pc, pass, spent, deleted, cutoff, oldest, incomplete, raced, torn, stops>>
run  == <<pass, spent, deleted, cutoff, oldest, incomplete>>

\* UTCHour and boundaryHour
Hour(t) == t \div HourLen
RowsIn(s, h) == Cardinality({t \in logs[s] : Hour(t) = h})

Init ==
    /\ clock = 0
    /\ logs = [s \in Series |-> {}]
    /\ rollup = [s \in Series |-> [h \in Hours |-> 0]]
    /\ pc = "idle"
    /\ pass = 1 /\ spent = 0 /\ deleted = 0 /\ cutoff = 0 /\ oldest = None
    /\ incomplete = FALSE
    /\ raced = {}
    /\ torn = {}
    /\ stops = 0
----------------------------------------------------------------------------
\* rollupDeltas: the rows of the batch, by hour
RollupDeltas(batch) ==
    [h \in Hours |-> Cardinality({t \in batch : Hour(t) = h})]

\* One transaction.  The instants are the client's: BulkInsert takes any.
BulkInsert(s, batch) ==
    /\ batch # {} /\ \A t \in batch : clock - t <= MaxLag
    /\ Cardinality(batch) <= MaxBatch /\ batch \cap logs[s] = {}
    /\ logs' = [logs EXCEPT ![s] = @ \cup batch]
    /\ LET delta == RollupDeltas(batch)
       IN  rollup' = [rollup EXCEPT ![s] = [h \in Hours |-> @[h] + delta[h]]]
    /\ raced' = IF pc = "repair" /\ s = Passes[pass]
                THEN raced \cup {<<s, Hour(t)>> : t \in batch} ELSE raced
    /\ UNCHANGED <<clock, pc, run, torn, stops>>

Tick ==
    /\ clock < MaxClock
    /\ clock' = clock + 1
    /\ UNCHANGED <<logs, rollup, pc, run, raced, torn, stops>>
----------------------------------------------------------------------------
(* The retention run. *)

Expires(s) == Days[s] > KeepForever

\* The passes left of the run start at i; those that never expire are skipped.
EnterPass(i, used) ==
    LET left == {k \in i .. Len(Passes) : Expires(Passes[k])}
    IN  IF left = {}
        THEN /\ pc' = "idle"
             /\ pass' = 1 /\ spent' = 0 /\ deleted' = 0 /\ cutoff' = 0
        ELSE /\ pc' = "delete"
             /\ pass' = Min(left) /\ spent' = used /\ deleted' = 0
             /\ cutoff' = clock - Days[Passes[Min(left)]]

\* Run, up to its first pass.
StartRun ==
    /\ pc = "idle"
    /\ EnterPass(1, 0)
    /\ UNCHANGED <<clock, logs, rollup, oldest, incomplete, raced, torn, stops>>

\* A bug: the oldest instant that has just expired is kept.
ExpiredLate == {t \in logs[Passes[pass]] : t < cutoff - 1}

\* The rows of the current series that are past the cutoff
Expired == {t \in logs[Passes[pass]] : t < cutoff}

\* nextBatch; 0 stands for ok = false
NextBatch ==
    LET remaining == MaxRows - (spent + deleted)
    IN  IF MaxRows = 0 \/ remaining >= BatchSize THEN BatchSize
        ELSE IF remaining > 0 THEN remaining ELSE 0

\* ORDER BY ts LIMIT n
IsOldest(D, n) ==
    /\ D \subseteq Expired
    /\ Cardinality(D) = Min({n, Cardinality(Expired)})
    /\ \A d \in D, t \in Expired \ D : d < t

\* deleteExpired is over; purge repairs if anything was deleted.
StopDeleting(stopped, n) ==
    /\ deleted' = n
    /\ incomplete' = stopped
    /\ pc' = IF n > 0 THEN "watermark" ELSE "next"
    /\ UNCHANGED <<pass, spent, cutoff>>

DeleteBatch ==
    /\ pc = "delete" /\ NextBatch > 0
    /\ \E D \in SUBSET Expired :
         /\ IsOldest(D, NextBatch)
         /\ logs' = [logs EXCEPT ![Passes[pass]] = @ \ D]
         /\ IF Cardinality(D) < NextBatch
            THEN StopDeleting(FALSE, deleted + Cardinality(D))
            ELSE /\ deleted' = deleted + Cardinality(D)
                 /\ UNCHANGED <<pc, pass, spent, cutoff, incomplete>>
    /\ UNCHANGED <<clock, rollup, oldest, raced, torn, stops>>

\* A bug, once real: the budget's stop returns without the repair.
BudgetStopNoRepair ==
    /\ pc = "delete" /\ NextBatch = 0
    /\ pc' = "next" /\ incomplete' = TRUE
    /\ UNCHANGED <<clock, logs, rollup, pass, spent, deleted, cutoff, oldest, raced, torn, stops>>

\* The row budget is spent, checked between batches.
BudgetStop ==
    /\ pc = "delete" /\ NextBatch = 0
    /\ StopDeleting(TRUE, deleted)
    /\ UNCHANGED <<clock, logs, rollup, oldest, raced, torn, stops>>

\* MaxRuntime has passed between two batches, or a delete fails: what the earlier
\* batches deleted is repaired before the run ends.
StopEarly ==
    /\ pc = "delete" /\ stops < MaxStops
    /\ StopDeleting(TRUE, deleted)
    /\ stops' = stops + 1
    /\ UNCHANGED <<clock, logs, rollup, oldest, raced, torn>>

\* A bug, once real: the repair is keyed off the cutoff.
WatermarkCutoff(s) == cutoff

\* SELECT min(ts)
Watermark(s) == IF logs[s] = {} THEN None ELSE Min(logs[s])

\* repairRollup's read, outside the transaction
ReadOldest ==
    /\ pc = "watermark"
    /\ oldest' = Watermark(Passes[pass])
    /\ pc' = "repair"
    /\ UNCHANGED <<clock, logs, rollup, pass, spent, deleted, cutoff, incomplete, raced, torn, stops>>

\* repairRollup's transaction: drop everything, or drop through the boundary hour
\* and rebuild that hour from the rows.
RepairRollup ==
    LET s == Passes[pass]
        repaired == [h \in Hours |->
            CASE oldest = None        -> 0
              [] h < Hour(oldest)     -> 0
              [] h = Hour(oldest)     -> RowsIn(s, h)
              [] OTHER                -> rollup[s][h]]
    IN  /\ pc = "repair"
        /\ rollup' = [rollup EXCEPT ![s] = repaired]
        /\ pc' = "next"
        /\ oldest' = None
        /\ torn' = torn \ {s}
        /\ UNCHANGED <<clock, logs, pass, spent, deleted, cutoff, incomplete, raced, stops>>

\* purge returned: an incomplete pass ends the run, otherwise on to the next.
NextPass ==
    /\ pc = "next"
    /\ EnterPass(IF incomplete THEN Len(Passes) + 1 ELSE pass + 1, spent + deleted)
    /\ incomplete' = FALSE
    /\ UNCHANGED <<clock, logs, rollup, oldest, raced, torn, stops>>

\* Rows of the series are gone and the rollup does not know yet.
Unrepaired(s) == s = Passes[pass] /\ pc \in {"delete", "watermark", "repair"} /\ deleted > 0

\* The context is cancelled, or a statement of the repair fails: the run ends where
\* it is, for a repair on a cancelled context fails too.
Cancel ==
    /\ pc # "idle" /\ stops < MaxStops
    /\ pc' = "idle"
    /\ pass' = 1 /\ spent' = 0 /\ deleted' = 0 /\ cutoff' = 0 /\ oldest' = None
    /\ incomplete' = FALSE
    /\ torn' = torn \cup {s \in Series : Unrepaired(s)}
    /\ stops' = stops + 1
    /\ UNCHANGED <<clock, logs, rollup, raced>>
----------------------------------------------------------------------------
RunStep == StartRun \/ DeleteBatch \/ BudgetStop \/ ReadOldest \/ RepairRollup \/ NextPass

Next ==
    \/ \E s \in Series, batch \in SUBSET (0 .. clock) : BulkInsert(s, batch)
    \/ Tick
    \/ RunStep
    \/ StopEarly
    \/ Cancel

Spec == Init /\ [][Next]_vars

\* runRetention's ticker starts run after run, and a run that has begun goes on.
FairSpec == Spec /\ WF_vars(RunStep)
----------------------------------------------------------------------------
(* Properties. *)

\* Every variable has its type.
TypeOK ==
    /\ clock \in Time
    /\ logs \in [Series -> SUBSET Time]
    /\ rollup \in [Series -> [Hours -> Nat]]
    /\ pc \in {"idle", "delete", "watermark", "repair", "next"}
    /\ pass \in 1 .. Len(Passes)
    /\ spent \in Nat /\ deleted \in Nat
    /\ cutoff \in Int
    /\ oldest \in Time \cup {None}
    /\ incomplete \in BOOLEAN
    /\ raced \subseteq (Series \X Hours)
    /\ torn \subseteq Series
    /\ stops \in 0 .. MaxStops

\* The repair leaves nothing "counting rows that no longer existed": outside the
\* purge of a series its rollup never reports more than the rows, whatever
\* budget, deadline or failing delete ended the purge and whatever was ingested
\* meanwhile (as long as that is not itself past its retention, MaxLag <= Days).
\* A purge cut off before its repair is made good by the next repair.
NeverOverReports ==
    \A s \in Series, h \in Hours :
        (~Unrepaired(s) /\ s \notin torn) => rollup[s][h] <= RowsIn(s, h)

\* "The three regions are exact": a partial drain never costs an hour its count,
\* so an hour is under-reported only if a row was inserted into it between the
\* watermark read and the repair.
NeverUnderReports ==
    \A s \in Series, h \in Hours :
        <<s, h>> \notin raced => rollup[s][h] >= RowsIn(s, h)

\* A row past its retention is deleted in the end, however small the budget.
ExpiredDeleted ==
    \A s \in Series, t \in Time :
        (Expires(s) /\ t \in logs[s] /\ t < clock - Days[s]) ~> (t \notin logs[s])
----------------------------------------------------------------------------
(* What comments and documents say and the code does not do (README, section 4). *)

\* "the rollup that backs /logs/stats can never drift from the rows it counts":
\* with no purge of the series in progress the two agree.
RollupExact ==
    \A s \in Series, h \in Hours : ~Unrepaired(s) => rollup[s][h] = RowsIn(s, h)
============================================================================

-------------------------- MODULE LogRollupProofs --------------------------
(***************************************************************************)
(* The hourly rollup after the retention's repair, for any series, rows,   *)
(* batch size and budget, and however ingest, deadlines and cancellations  *)
(* interleave with the run: it reports no row that is gone, and drops no   *)
(* count but of an hour that was inserted into behind the watermark.       *)
(***************************************************************************)
EXTENDS LogRollup, FiniteSetTheorems, TLAPS

RollupTypes ==
    /\ clock \in Nat
    /\ logs \in [Series -> SUBSET (0 .. clock)]
    /\ rollup \in [Series -> [Hours -> Nat]]
    /\ pc \in {"idle", "delete", "watermark", "repair", "next"}
    /\ pass \in 1 .. Len(Passes)
    /\ deleted \in Nat

\* What the run knows of the series it is at: it expires by the cutoff, and whatever
\* is older than the watermark came in after it was read.
RunKnows ==
    LET s == Passes[pass]
    IN  /\ pc \in {"delete", "watermark", "repair"} => Expires(s)
        /\ pc = "delete" => cutoff \in Int /\ cutoff <= clock - Days[s]
        /\ pc = "repair" =>
             /\ oldest = None \/ oldest \in logs[s]
             /\ \A t \in logs[s] : (oldest = None \/ t < oldest) => <<s, Hour(t)>> \in raced

RunInv == RollupTypes /\ RunKnows

\* The hour of an expired row that is gone, and no row of the series is as old.
LostHour(s, h) ==
    /\ Expires(s)
    /\ \E d \in Nat : Hour(d) = h /\ d < clock - Days[s] /\ \A t \in logs[s] : d < t

\* A repair is under way, or the next one makes it good.
RepairDue(s) == Unrepaired(s) \/ s \in torn

\* An hour is reported too high only where the oldest rows were, and a repair is due.
OverOK == \A s \in Series, h \in Hours : rollup[s][h] > RowsIn(s, h) => RepairDue(s) /\ LostHour(s, h)

\* What is ingested is not itself past its retention.
LagWithinRetention == \A s \in Series : Expires(s) => MaxLag <= Days[s]
----------------------------------------------------------------------------
(* Numbers, hours and rows. *)

LEMMA LeastNatural ==
  ASSUME NEW S, S \subseteq Nat, S # {}
  PROVE  \E m \in S : \A k \in S : m <= k
  <1>1. PICK R : R = {ss \in Nat \X Nat : ss[1] < ss[2]}
    OBVIOUS
  <1>2. IsWellFoundedOn(R, Nat)
    BY <1>1, NatLessThanWellFounded DEF OpToRel
  <1>3. PICK m \in S : \A k \in S : <<k, m>> \notin R
    BY <1>2, WFMin
  <1>4. ASSUME NEW k \in S, k < m PROVE FALSE
    <2>1. PICK ss : ss = <<k, m>>
      OBVIOUS
    <2>2. ss \in Nat \X Nat /\ ss[1] = k /\ ss[2] = m
      BY <2>1
    <2>3. ss \in R
      BY <1>1, <1>4, <2>2
    <2>4. QED
      BY <1>3, <2>1, <2>3
  <1>5. QED
    BY <1>4

LEMMA MinOfNaturals ==
  ASSUME NEW S, S \subseteq Nat, S # {}
  PROVE  Min(S) \in S /\ \A k \in S : Min(S) <= k
  <1>1. PICK m \in S : \A k \in S : m <= k
    BY LeastNatural
  <1>2. QED
    BY <1>1 DEF Min

LEMMA HourMonotone ==
  ASSUME NEW t \in Int, NEW u \in Int, t <= u
  PROVE  Hour(t) \in Int /\ Hour(u) \in Int /\ Hour(t) <= Hour(u)
  BY ConstantsAssumption DEF Hour

\* The rows of an hour among the rows R.
RowsOf(R, h) == Cardinality({t \in R : Hour(t) = h})

LEMMA RowsAreCounted ==
  ASSUME NEW n \in Nat, NEW R \in SUBSET (0 .. n), NEW h
  PROVE  /\ IsFiniteSet({t \in R : Hour(t) = h}) /\ RowsOf(R, h) \in Nat
         /\ RowsOf(R, h) > 0 => \E t \in R : Hour(t) = h
  <1>1. IsFiniteSet(0 .. n)
    BY FS_Interval
  <1>2. {t \in R : Hour(t) = h} \in SUBSET (0 .. n)
    OBVIOUS
  <1>3. IsFiniteSet({t \in R : Hour(t) = h})
    BY <1>1, <1>2, FS_Subset
  <1>4. RowsOf(R, h) \in Nat
    BY <1>3, FS_CardinalityType DEF RowsOf
  <1>5. ASSUME RowsOf(R, h) > 0 PROVE {t \in R : Hour(t) = h} # {}
    BY <1>5, FS_EmptySet DEF RowsOf
  <1>6. QED
    BY <1>3, <1>4, <1>5

LEMMA MoreRows ==
  ASSUME NEW n \in Nat, NEW R \in SUBSET (0 .. n), NEW B \in SUBSET (0 .. n), R \cap B = {}, NEW h
  PROVE  RowsOf(R \cup B, h) = RowsOf(R, h) + RowsOf(B, h)
  <1>1. PICK r, b : r = {t \in R : Hour(t) = h} /\ b = {t \in B : Hour(t) = h}
    OBVIOUS
  <1>2. IsFiniteSet(r) /\ IsFiniteSet(b) /\ Cardinality(r) \in Nat /\ Cardinality(b) \in Nat
    BY <1>1, RowsAreCounted, FS_CardinalityType
  <1>3. {t \in R \cup B : Hour(t) = h} = r \cup b /\ r \cap b = {}
    BY <1>1
  <1>4. Cardinality(r \cup b) = Cardinality(r) + Cardinality(b) - 0
    BY <1>2, <1>3, FS_Union, FS_EmptySet
  <1>5. RowsOf(R \cup B, h) = Cardinality(r \cup b) /\ RowsOf(R, h) = Cardinality(r) /\ RowsOf(B, h) = Cardinality(b)
    BY <1>1, <1>3 DEF RowsOf
  <1>6. QED
    BY <1>2, <1>4, <1>5

LEMMA FewerRows ==
  ASSUME NEW n \in Nat, NEW R \in SUBSET (0 .. n), NEW D \in SUBSET R, NEW h
  PROVE  /\ RowsOf(R \ D, h) <= RowsOf(R, h)
         /\ (\A d \in D : Hour(d) # h) => RowsOf(R \ D, h) = RowsOf(R, h)
  <1>1. PICK r, l : r = {t \in R : Hour(t) = h} /\ l = {t \in R \ D : Hour(t) = h}
    OBVIOUS
  <1>2. IsFiniteSet(r) /\ l \in SUBSET r
    BY <1>1, RowsAreCounted
  <1>3. Cardinality(l) <= Cardinality(r)
    BY <1>2, FS_Subset
  <1>4. ASSUME \A d \in D : Hour(d) # h PROVE l = r
    BY <1>1, <1>4
  <1>5. QED
    BY <1>1, <1>3, <1>4 DEF RowsOf

LEMMA PassesAreSeries ==
  ASSUME NEW i \in 1 .. Len(Passes)
  PROVE  Passes[i] \in Series /\ Days[Passes[i]] \in Int
  BY ConstantsAssumption DEF Series

----------------------------------------------------------------------------
(* The run. *)

LEMMA EnterPassOK ==
  ASSUME NEW i \in Nat, i >= 1, NEW used, EnterPass(i, used)
  PROVE  /\ pc' \in {"idle", "delete"} /\ pass' \in 1 .. Len(Passes) /\ deleted' = 0
         /\ pc' = "delete" => Expires(Passes[pass']) /\ cutoff' = clock - Days[Passes[pass']]
  <1>1. PICK left : left = {k \in i .. Len(Passes) : Expires(Passes[k])}
    OBVIOUS
  <1>2. CASE left = {}
    BY <1>1, <1>2, ConstantsAssumption DEF EnterPass
  <1>3. CASE left # {}
    <2>1. left \subseteq Nat
      BY <1>1
    <2>2. Min(left) \in left
      BY <1>3, <2>1, MinOfNaturals
    <2>3. pc' = "delete" /\ pass' = Min(left) /\ deleted' = 0 /\ cutoff' = clock - Days[Passes[Min(left)]]
      BY <1>1, <1>3 DEF EnterPass
    <2>4. QED
      BY <1>1, <2>2, <2>3
  <1>4. QED
    BY <1>2, <1>3

\* A step of the run that leaves the clock, the rows and the rollup alone.
LEMMA RunMoves ==
  ASSUME RunInv, UNCHANGED <<clock, logs, rollup, raced>>, pass' \in 1 .. Len(Passes), deleted' \in Nat,
         \/ pc' \in {"idle", "next"}
         \/ pc' = "delete" /\ Expires(Passes[pass']) /\ cutoff' \in Int /\ cutoff' <= clock - Days[Passes[pass']]
         \/ pc' = "watermark" /\ Expires(Passes[pass'])
  PROVE  RunInv'
  BY DEF RunInv, RollupTypes, RunKnows

LEMMA InsertRunOK ==
  ASSUME RunInv, NEW s \in Series, NEW batch \in SUBSET (0 .. clock), BulkInsert(s, batch)
  PROVE  /\ RunInv'
         /\ \A r \in Series, h \in Hours :
              /\ r # s => RowsIn(r, h)' = RowsIn(r, h) /\ rollup'[r] = rollup[r]
              /\ rollup'[s][h] - rollup[s][h] = RowsIn(s, h)' - RowsIn(s, h)
  <1>1. PICK delta : delta = RollupDeltas(batch)
    OBVIOUS
  <1>2. PICK rows : rows = logs[s] \cup batch
    OBVIOUS
  <1>3. PICK hours : hours = [h \in Hours |-> rollup[s][h] + delta[h]]
    OBVIOUS
  <1>4. logs' = [logs EXCEPT ![s] = rows] /\ rollup' = [rollup EXCEPT ![s] = hours]
        /\ UNCHANGED <<clock, pc, run>> /\ logs[s] \cap batch = {}
    BY <1>1, <1>2, <1>3 DEF BulkInsert
  <1>5. logs[s] \in SUBSET (0 .. clock) /\ clock \in Nat /\ rows \in SUBSET (0 .. clock)
    BY <1>2 DEF RunInv, RollupTypes
  <1>6. \A h \in Hours : delta[h] = RowsOf(batch, h)
    BY <1>1 DEF RollupDeltas, RowsOf
  <1>7. ASSUME NEW h \in Hours
        PROVE  delta[h] \in Nat /\ RowsOf(rows, h) = RowsOf(logs[s], h) + delta[h] /\ RowsOf(logs[s], h) \in Nat
    <2>1. RowsOf(batch, h) \in Nat /\ RowsOf(logs[s], h) \in Nat
      BY <1>5, RowsAreCounted
    <2>2. RowsOf(logs[s] \cup batch, h) = RowsOf(logs[s], h) + RowsOf(batch, h)
      BY <1>4, <1>5, MoreRows
    <2>3. QED
      BY <1>2, <1>6, <2>1, <2>2
  <1>8. hours \in [Hours -> Nat]
    BY <1>3, <1>7 DEF RunInv, RollupTypes
  <1>9. RollupTypes'
    BY <1>4, <1>5, <1>8 DEF RunInv, RollupTypes, run
  <1>10. \A r \in Series : logs'[r] = IF r = s THEN rows ELSE logs[r]
    BY <1>4 DEF RunInv, RollupTypes
  <1>11. \A r \in Series : rollup'[r] = IF r = s THEN hours ELSE rollup[r]
    BY <1>4 DEF RunInv, RollupTypes
  <1>12. RunKnows'
    <2>1. PICK q \in Series : q = Passes[pass] /\ Days[q] \in Int
      BY PassesAreSeries DEF RunInv, RollupTypes
    <2>2. UNCHANGED <<pc, pass, cutoff, oldest, clock>> /\ raced \subseteq raced'
      BY <1>4 DEF BulkInsert, run
    <2>3. CASE pc # "repair"
      BY <1>4, <2>2, <2>3 DEF RunInv, RunKnows
    <2>4. CASE pc = "repair"
      <3>1. Expires(q) /\ (oldest = None \/ oldest \in logs[q])
            /\ \A t \in logs[q] : (oldest = None \/ t < oldest) => <<q, Hour(t)>> \in raced
        BY <2>1, <2>4 DEF RunInv, RunKnows
      <3>2. \A t \in logs'[q] : t \in logs[q] \/ <<q, Hour(t)>> \in raced'
        <4>1. CASE q = s
          <5>1. raced' = raced \cup {<<s, Hour(t)>> : t \in batch}
            BY <2>1, <2>4, <4>1 DEF BulkInsert
          <5>2. QED
            BY <1>2, <1>10, <4>1, <5>1
        <4>2. QED
          BY <1>10, <4>1
      <3>3. logs[q] \subseteq logs'[q]
        BY <1>2, <1>10
      <3>4. /\ oldest' = None \/ oldest' \in logs'[q]
            /\ \A t \in logs'[q] : (oldest' = None \/ t < oldest') => <<q, Hour(t)>> \in raced'
        BY <2>2, <3>1, <3>2, <3>3
      <3>5. q = Passes[pass]' /\ pc' = "repair"
        BY <2>1, <2>2, <2>4
      <3>6. QED
        BY <3>1, <3>4, <3>5 DEF RunKnows
    <2>5. QED
      BY <2>3, <2>4
  <1>13. ASSUME NEW r \in Series, NEW h \in Hours
         PROVE  /\ r # s => RowsIn(r, h)' = RowsIn(r, h) /\ rollup'[r] = rollup[r]
                /\ rollup'[s][h] - rollup[s][h] = RowsIn(s, h)' - RowsIn(s, h)
    <2>1. RowsIn(r, h) = RowsOf(logs[r], h) /\ RowsIn(s, h) = RowsOf(logs[s], h)
      BY DEF RowsIn, RowsOf
    <2>2. RowsIn(r, h)' = RowsOf(logs'[r], h) /\ RowsIn(s, h)' = RowsOf(logs'[s], h)
      BY DEF RowsIn, RowsOf
    <2>3. rollup'[s][h] = rollup[s][h] + delta[h] /\ rollup[s][h] \in Nat
      BY <1>3, <1>11 DEF RunInv, RollupTypes
    <2>4. QED
      BY <1>7, <1>10, <1>11, <2>1, <2>2, <2>3
  <1>14. QED
    BY <1>9, <1>12, <1>13 DEF RunInv

LEMMA DeleteRunOK ==
  ASSUME RunInv, NEW s \in Series, s = Passes[pass], NEW D \in SUBSET Expired, IsOldest(D, NextBatch),
         logs' = [logs EXCEPT ![s] = logs[s] \ D], UNCHANGED <<clock, rollup, raced, torn>>, pc = "delete",
         UNCHANGED <<pass, cutoff>>, deleted' = deleted + Cardinality(D),
         pc' = "delete" \/ pc' = IF deleted + Cardinality(D) > 0 THEN "watermark" ELSE "next"
  PROVE  /\ RunInv'
         /\ \A r \in Series : logs'[r] = IF r = s THEN logs[s] \ D ELSE logs[r]
         /\ D \in SUBSET logs[s] /\ Expires(s)
         /\ \A d \in D : d \in Nat /\ d < clock - Days[s] /\ \A t \in logs'[s] : d < t
         /\ \A r \in Series : Unrepaired(r) => Unrepaired(r)'
         /\ D # {} => Unrepaired(s)'
  <1>1. logs[s] \in SUBSET (0 .. clock) /\ clock \in Nat /\ D \in SUBSET logs[s] /\ deleted \in Nat
    BY DEF RunInv, RollupTypes, Expired
  <1>2. IsFiniteSet(0 .. clock) /\ D \in SUBSET (0 .. clock)
    BY <1>1, FS_Interval
  <1>3. IsFiniteSet(D)
    BY <1>2, FS_Subset
  <1>4. Cardinality(D) \in Nat /\ (D # {} => Cardinality(D) > 0)
    BY <1>3, FS_CardinalityType, FS_EmptySet
  <1>5. Expires(s) /\ cutoff \in Int /\ cutoff <= clock - Days[s] /\ Days[s] \in Int
    BY PassesAreSeries DEF RunInv, RunKnows, RollupTypes
  <1>6. \A r \in Series : logs'[r] = IF r = s THEN logs[s] \ D ELSE logs[r]
    BY DEF RunInv, RollupTypes
  <1>7. logs' \in [Series -> SUBSET (0 .. clock)]
    BY <1>1 DEF RunInv, RollupTypes
  <1>8. RunInv'
    BY <1>1, <1>4, <1>5, <1>7 DEF RunInv, RunKnows, RollupTypes
  <1>9. ASSUME NEW d \in D PROVE d \in Nat /\ d < clock - Days[s] /\ \A t \in logs'[s] : d < t
    <2>1. d \in Nat /\ d < cutoff
      BY <1>1 DEF Expired
    <2>2. ASSUME NEW t \in logs'[s] PROVE d < t
      <3>1. t \in logs[s] \ D /\ t \in Nat
        BY <1>1, <1>6
      <3>2. CASE t < cutoff
        BY <3>1, <3>2 DEF IsOldest, Expired
      <3>3. QED
        BY <1>5, <2>1, <3>1, <3>2
    <2>3. QED
      BY <1>1, <1>5, <2>1, <2>2
  <1>10. \A r \in Series : Unrepaired(r) => Unrepaired(r)'
    BY <1>1, <1>4 DEF Unrepaired
  <1>11. D # {} => Unrepaired(s)'
    BY <1>1, <1>4 DEF Unrepaired
  <1>12. QED
    BY <1>1, <1>5, <1>6, <1>8, <1>9, <1>10, <1>11

\* What a batch deletes, whether it is the last of the pass or not.
LEMMA DeleteBatchIs ==
  ASSUME RunInv, DeleteBatch
  PROVE  \E D \in SUBSET Expired :
           /\ IsOldest(D, NextBatch) /\ logs' = [logs EXCEPT ![Passes[pass]] = logs[Passes[pass]] \ D]
           /\ deleted' = deleted + Cardinality(D)
           /\ UNCHANGED <<clock, rollup, raced, torn, pass, cutoff>> /\ pc = "delete"
           /\ pc' = "delete" \/ pc' = IF deleted + Cardinality(D) > 0 THEN "watermark" ELSE "next"
  BY DEF DeleteBatch, StopDeleting

LEMMA ReadOldestRunOK ==
  ASSUME RunInv, ReadOldest
  PROVE  RunInv'
  <1>1. PICK s \in Series : s = Passes[pass]
    BY PassesAreSeries DEF RunInv, RollupTypes
  <1>2. logs[s] \subseteq Nat
    BY DEF RunInv, RollupTypes
  <1>3. PICK o : o = Watermark(s)
    OBVIOUS
  <1>4. (o = None /\ logs[s] = {}) \/ (o \in logs[s] /\ \A t \in logs[s] : o <= t)
    BY <1>2, <1>3, MinOfNaturals DEF Watermark
  <1>5. oldest' = o /\ pc' = "repair" /\ UNCHANGED <<clock, logs, rollup, pass, deleted, raced>> /\ pc = "watermark"
    BY <1>1, <1>3 DEF ReadOldest
  <1>6. oldest' = None \/ oldest' \in logs'[s]
    BY <1>4, <1>5
  <1>7. ASSUME NEW t \in logs'[s], oldest' = None \/ t < oldest' PROVE FALSE
    BY <1>2, <1>4, <1>5, <1>7 DEF None
  <1>8. s = Passes[pass]' /\ Expires(s)
    BY <1>1, <1>5 DEF RunInv, RunKnows
  <1>9. RollupTypes'
    BY <1>5 DEF RunInv, RollupTypes
  <1>10. QED
    BY <1>5, <1>6, <1>7, <1>8, <1>9 DEF RunInv, RunKnows

\* The three regions of the repair.
Repaired(s) ==
    [h \in Hours |->
        CASE oldest = None    -> 0
          [] h < Hour(oldest) -> 0
          [] h = Hour(oldest) -> RowsIn(s, h)
          [] OTHER            -> rollup[s][h]]

LEMMA RepairRunOK ==
  ASSUME RunInv, NEW s \in Series, s = Passes[pass], RepairRollup
  PROVE  /\ RunInv'
         /\ \A r \in Series : rollup'[r] = IF r = s THEN Repaired(s) ELSE rollup[r]
         /\ \A h \in Hours :
              \/ oldest = None /\ Repaired(s)[h] = 0
              \/ oldest \in logs[s] /\ h < Hour(oldest) /\ Repaired(s)[h] = 0
              \/ oldest \in logs[s] /\ h = Hour(oldest) /\ Repaired(s)[h] = RowsIn(s, h)
              \/ oldest \in logs[s] /\ h > Hour(oldest) /\ Repaired(s)[h] = rollup[s][h]
         /\ logs' = logs /\ clock' = clock /\ pc = "repair" /\ pc' = "next" /\ torn' = torn \ {s} /\ raced' = raced
  <1>1. /\ rollup' = [rollup EXCEPT ![s] = Repaired(s)]
        /\ UNCHANGED <<logs, clock, raced, pass, deleted>> /\ pc = "repair" /\ pc' = "next" /\ torn' = torn \ {s}
    BY DEF RepairRollup, Repaired
  <1>2. oldest = None \/ (oldest # None /\ oldest \in logs[s] /\ oldest \in Nat /\ Hour(oldest) \in Int)
    <2>1. logs[s] \in SUBSET (0 .. clock) /\ clock \in Nat
      BY DEF RunInv, RollupTypes
    <2>2. oldest = None \/ oldest \in logs[s]
      BY <1>1 DEF RunInv, RunKnows
    <2>3. ASSUME oldest \in logs[s] PROVE oldest # None /\ oldest \in Nat /\ Hour(oldest) \in Int
      BY <2>1, <2>3, ConstantsAssumption DEF None, Hour
    <2>4. QED
      BY <2>2, <2>3
  <1>3. ASSUME NEW h \in Hours
        PROVE  /\ \/ oldest = None /\ Repaired(s)[h] = 0
                  \/ oldest \in logs[s] /\ h < Hour(oldest) /\ Repaired(s)[h] = 0
                  \/ oldest \in logs[s] /\ h = Hour(oldest) /\ Repaired(s)[h] = RowsIn(s, h)
                  \/ oldest \in logs[s] /\ h > Hour(oldest) /\ Repaired(s)[h] = rollup[s][h]
               /\ Repaired(s)[h] \in Nat
    <2>1. h \in Int
      BY DEF Hours
    <2>2. RowsIn(s, h) \in Nat
      <3>1. logs[s] \in SUBSET (0 .. clock) /\ clock \in Nat
        BY DEF RunInv, RollupTypes
      <3>2. RowsOf(logs[s], h) \in Nat
        BY <3>1, RowsAreCounted
      <3>3. QED
        BY <3>2 DEF RowsIn, RowsOf
    <2>3. rollup[s][h] \in Nat
      BY DEF RunInv, RollupTypes
    <2>4. CASE oldest = None
      <3>1. Hour(oldest) \in Int /\ Hour(oldest) < 0
        BY <2>4, ConstantsAssumption DEF Hour, None
      <3>2. h \in Int /\ h >= 0
        BY DEF Hours
      <3>3. ~(h < Hour(oldest)) /\ h # Hour(oldest)
        BY <3>1, <3>2
      <3>4. Repaired(s)[h] = 0
        BY <2>4, <3>3 DEF Repaired
      <3>5. QED
        BY <2>4, <3>4
    <2>5. CASE oldest # None
      BY <1>2, <2>1, <2>2, <2>3, <2>5 DEF Repaired
    <2>6. QED
      BY <2>4, <2>5
  <1>4. Repaired(s) \in [Hours -> Nat]
    BY <1>3 DEF Repaired
  <1>5. \A r \in Series : rollup'[r] = IF r = s THEN Repaired(s) ELSE rollup[r]
    BY <1>1 DEF RunInv, RollupTypes
  <1>6. RunInv'
    BY <1>1, <1>4 DEF RunInv, RunKnows, RollupTypes
  <1>7. QED
    BY <1>1, <1>3, <1>5, <1>6

\* Every other step leaves the rows and the rollup alone, and a repair that is due, due.
LEMMA OthersRunOK ==
  ASSUME RunInv, Tick \/ StartRun \/ BudgetStop \/ StopEarly \/ ReadOldest \/ NextPass \/ Cancel \/ UNCHANGED vars
  PROVE  /\ RunInv' /\ UNCHANGED <<logs, rollup, raced>> /\ clock' \in Nat /\ clock' >= clock
         /\ \A r \in Series : RepairDue(r) => RepairDue(r)'
  <1>1. clock \in Nat /\ pass \in 1 .. Len(Passes) /\ deleted \in Nat
    BY DEF RunInv, RollupTypes
  <1>2. CASE Tick
    <2>1. clock' = clock + 1 /\ UNCHANGED <<logs, rollup, pc, run, raced, torn>>
      BY <1>2 DEF Tick
    <2>2. Days[Passes[pass]] \in Int
      BY <1>1, PassesAreSeries
    <2>3. RunInv'
      <3>1. \A s \in Series : logs[s] \in SUBSET (0 .. clock + 1)
        BY <1>1 DEF RunInv, RollupTypes
      <3>2. RollupTypes'
        BY <1>1, <2>1, <3>1 DEF RunInv, RollupTypes, run
      <3>3. RunKnows'
        BY <1>1, <2>1, <2>2 DEF RunInv, RunKnows, run
      <3>4. QED
        BY <3>2, <3>3 DEF RunInv
    <2>4. QED
      BY <1>1, <2>1, <2>3 DEF RepairDue, Unrepaired, run
  <1>3. CASE StartRun \/ NextPass
    <2>1. PICK i \in Nat : i >= 1 /\ \E used : EnterPass(i, used)
      BY <1>1, <1>3, ConstantsAssumption DEF StartRun, NextPass
    <2>2. /\ pc' \in {"idle", "delete"} /\ pass' \in 1 .. Len(Passes) /\ deleted' = 0
          /\ pc' = "delete" => Expires(Passes[pass']) /\ cutoff' = clock - Days[Passes[pass']]
      BY <2>1, EnterPassOK
    <2>3. UNCHANGED <<clock, logs, rollup, raced, torn>> /\ pc \in {"idle", "next"}
      BY <1>3 DEF StartRun, NextPass
    <2>4. Days[Passes[pass']] \in Int
      BY <2>2, PassesAreSeries
    <2>5. RunInv'
      BY <1>1, <2>2, <2>3, <2>4, RunMoves
    <2>6. QED
      BY <1>1, <2>3, <2>5 DEF RepairDue, Unrepaired
  <1>4. CASE BudgetStop \/ StopEarly
    <2>1. /\ UNCHANGED <<clock, logs, rollup, raced, torn, pass, deleted>> /\ pc = "delete"
          /\ pc' = IF deleted > 0 THEN "watermark" ELSE "next"
      BY <1>4 DEF BudgetStop, StopEarly, StopDeleting
    <2>2. Expires(Passes[pass])
      BY <2>1 DEF RunInv, RunKnows
    <2>3. RunInv'
      BY <1>1, <2>1, <2>2, RunMoves
    <2>4. QED
      BY <1>1, <2>1, <2>3 DEF RepairDue, Unrepaired
  <1>5. CASE ReadOldest
    <2>1. RunInv'
      BY <1>5, ReadOldestRunOK
    <2>2. QED
      BY <1>1, <1>5, <2>1 DEF ReadOldest, RepairDue, Unrepaired
  <1>6. CASE Cancel
    <2>1. /\ UNCHANGED <<clock, logs, rollup, raced>> /\ pc' = "idle" /\ pass' = 1 /\ deleted' = 0
          /\ torn' = torn \cup {s \in Series : Unrepaired(s)}
      BY <1>6 DEF Cancel
    <2>2. RunInv'
      BY <1>1, <2>1, RunMoves
    <2>3. QED
      BY <1>1, <2>1, <2>2 DEF RepairDue
  <1>7. CASE UNCHANGED vars
    <2>1. UNCHANGED <<clock, logs, rollup, raced, torn, pc, pass, deleted, cutoff, oldest>>
      BY <1>7 DEF vars
    <2>2. RunInv'
      BY <2>1 DEF RunInv, RollupTypes, RunKnows
    <2>3. QED
      BY <1>1, <2>1, <2>2 DEF RepairDue, Unrepaired
  <1>8. QED
    BY <1>2, <1>3, <1>4, <1>5, <1>6, <1>7

LEMMA InitRollupOK == Init => RunInv /\ NeverUnderReports /\ OverOK
  <1>1. SUFFICES ASSUME Init PROVE RunInv /\ NeverUnderReports /\ OverOK
    OBVIOUS
  <1>2. RunInv
    BY <1>1, ConstantsAssumption DEF Init, RunInv, RollupTypes, RunKnows
  <1>3. ASSUME NEW s \in Series, NEW h \in Hours PROVE rollup[s][h] = 0 /\ RowsIn(s, h) = 0
    <2>1. {t \in logs[s] : Hour(t) = h} = {}
      BY <1>1 DEF Init
    <2>2. QED
      BY <1>1, <2>1, FS_EmptySet DEF Init, RowsIn
  <1>4. QED
    BY <1>2, <1>3 DEF NeverUnderReports, OverOK

LEMMA NumbersOK ==
  ASSUME RunInv, NEW s \in Series, NEW h \in Hours
  PROVE  RowsIn(s, h) = RowsOf(logs[s], h) /\ RowsIn(s, h) \in Nat /\ rollup[s][h] \in Nat /\ h \in Int
  <1>1. logs[s] \in SUBSET (0 .. clock) /\ clock \in Nat
    BY DEF RunInv, RollupTypes
  <1>2. RowsOf(logs[s], h) \in Nat
    BY <1>1, RowsAreCounted
  <1>3. RowsIn(s, h) = RowsOf(logs[s], h)
    BY DEF RowsIn, RowsOf
  <1>4. rollup[s][h] \in Nat
    BY DEF RunInv, RollupTypes
  <1>5. QED
    BY <1>2, <1>3, <1>4 DEF Hours


LEMMA NumbersOKNext ==
  ASSUME RunInv', NEW s \in Series, NEW h \in Hours
  PROVE  RowsIn(s, h)' = RowsOf(logs'[s], h) /\ RowsIn(s, h)' \in Nat /\ rollup'[s][h] \in Nat
  <1>1. logs'[s] \in SUBSET (0 .. clock') /\ clock' \in Nat
    BY DEF RunInv, RollupTypes
  <1>2. RowsOf(logs'[s], h) \in Nat
    BY <1>1, RowsAreCounted
  <1>3. RowsIn(s, h)' = RowsOf(logs'[s], h)
    BY DEF RowsIn, RowsOf
  <1>4. rollup'[s][h] \in Nat
    BY DEF RunInv, RollupTypes
  <1>5. QED
    BY <1>2, <1>3, <1>4
----------------------------------------------------------------------------
(* An hour is under-reported only if rows came in between the watermark and the repair. *)

LEMMA UnderOKNext == RunInv /\ NeverUnderReports /\ [Next]_vars => RunInv' /\ NeverUnderReports'
  <1>1. SUFFICES ASSUME RunInv, NeverUnderReports, [Next]_vars PROVE RunInv' /\ NeverUnderReports'
    OBVIOUS
  <1>2. ASSUME NEW s \in Series, NEW batch \in SUBSET (0 .. clock), BulkInsert(s, batch)
        PROVE  RunInv' /\ NeverUnderReports'
    <2>1. RunInv' /\ \A r \in Series, h \in Hours :
              /\ r # s => RowsIn(r, h)' = RowsIn(r, h) /\ rollup'[r] = rollup[r]
              /\ rollup'[s][h] - rollup[s][h] = RowsIn(s, h)' - RowsIn(s, h)
      BY <1>1, <1>2, InsertRunOK
    <2>2. raced \subseteq raced'
      BY <1>2 DEF BulkInsert
    <2>3. ASSUME NEW r \in Series, NEW h \in Hours, <<r, h>> \notin raced' PROVE rollup'[r][h] >= RowsIn(r, h)'
      <3>1. rollup[r][h] >= RowsIn(r, h)
        BY <1>1, <2>2, <2>3 DEF NeverUnderReports
      <3>2. rollup[r][h] \in Nat /\ RowsIn(r, h) \in Nat
        BY <1>1, NumbersOK
      <3>3. rollup'[r][h] \in Nat /\ RowsIn(r, h)' \in Nat
        BY <2>1, NumbersOKNext
      <3>4. QED
        BY <2>1, <3>1, <3>2, <3>3
    <2>4. QED
      BY <2>1, <2>3 DEF NeverUnderReports
  <1>3. CASE DeleteBatch
    <2>1. PICK s \in Series : s = Passes[pass]
      BY <1>1, PassesAreSeries DEF RunInv, RollupTypes
    <2>2. PICK D \in SUBSET Expired :
           /\ IsOldest(D, NextBatch) /\ logs' = [logs EXCEPT ![s] = logs[s] \ D]
           /\ deleted' = deleted + Cardinality(D)
           /\ UNCHANGED <<clock, rollup, raced, torn, pass, cutoff>> /\ pc = "delete"
           /\ pc' = "delete" \/ pc' = IF deleted + Cardinality(D) > 0 THEN "watermark" ELSE "next"
      BY <1>1, <1>3, <2>1, DeleteBatchIs
    <2>3. RunInv' /\ D \in SUBSET logs[s] /\ \A r \in Series : logs'[r] = IF r = s THEN logs[s] \ D ELSE logs[r]
      BY <1>1, <2>1, <2>2, DeleteRunOK
    <2>4. ASSUME NEW r \in Series, NEW h \in Hours, <<r, h>> \notin raced' PROVE rollup'[r][h] >= RowsIn(r, h)'
      <3>1. rollup[r][h] >= RowsIn(r, h) /\ rollup'[r][h] = rollup[r][h]
        BY <1>1, <2>2, <2>4 DEF NeverUnderReports
      <3>2. RowsIn(r, h)' = RowsOf(logs'[r], h) /\ RowsIn(r, h)' \in Nat
        BY <2>3, NumbersOKNext
      <3>3. RowsIn(r, h) = RowsOf(logs[r], h) /\ RowsIn(r, h) \in Nat /\ rollup[r][h] \in Nat
        BY <1>1, NumbersOK
      <3>4. logs[s] \in SUBSET (0 .. clock) /\ clock \in Nat
        BY <1>1 DEF RunInv, RollupTypes
      <3>5. RowsOf(logs[s] \ D, h) <= RowsOf(logs[s], h)
        BY <2>3, <3>4, FewerRows
      <3>6. QED
        BY <2>3, <3>1, <3>2, <3>3, <3>5
    <2>5. QED
      BY <2>3, <2>4 DEF NeverUnderReports
  <1>4. CASE RepairRollup
    <2>1. PICK s \in Series : s = Passes[pass]
      BY <1>1, PassesAreSeries DEF RunInv, RollupTypes
    <2>2. /\ RunInv'
          /\ \A r \in Series : rollup'[r] = IF r = s THEN Repaired(s) ELSE rollup[r]
          /\ \A h \in Hours :
              \/ oldest = None /\ Repaired(s)[h] = 0
              \/ oldest \in logs[s] /\ h < Hour(oldest) /\ Repaired(s)[h] = 0
              \/ oldest \in logs[s] /\ h = Hour(oldest) /\ Repaired(s)[h] = RowsIn(s, h)
              \/ oldest \in logs[s] /\ h > Hour(oldest) /\ Repaired(s)[h] = rollup[s][h]
          /\ logs' = logs /\ clock' = clock /\ pc = "repair" /\ pc' = "next" /\ torn' = torn \ {s} /\ raced' = raced
      BY <1>1, <1>4, <2>1, RepairRunOK
    <2>3. \A r \in Series, h \in Hours : RowsIn(r, h)' = RowsIn(r, h)
      BY <2>2 DEF RowsIn
    <2>4. ASSUME NEW r \in Series, NEW h \in Hours, <<r, h>> \notin raced' PROVE rollup'[r][h] >= RowsIn(r, h)
      <3>1. rollup[r][h] >= RowsIn(r, h) /\ RowsIn(r, h) \in Nat /\ rollup[r][h] \in Nat /\ h \in Int
        BY <1>1, <2>2, <2>4, NumbersOK DEF NeverUnderReports
      <3>2. CASE r # s
        BY <2>2, <3>1, <3>2
      <3>3. CASE r = s /\ RowsIn(s, h) > 0
        <4>1. logs[s] \in SUBSET (0 .. clock) /\ clock \in Nat /\ RowsIn(s, h) = RowsOf(logs[s], h)
          BY <1>1, NumbersOK DEF RunInv, RollupTypes
        <4>2. PICK t \in logs[s] : Hour(t) = h
          BY <3>3, <4>1, RowsAreCounted
        <4>3. ~(oldest = None \/ t < oldest)
          BY <1>1, <2>1, <2>2, <2>4, <3>3, <4>2 DEF RunInv, RunKnows
        <4>4. oldest \in logs[s] => Hour(oldest) \in Int /\ Hour(oldest) <= h
          BY <4>1, <4>2, <4>3, HourMonotone
        <4>5. QED
          BY <2>2, <3>1, <3>3, <4>3, <4>4
      <3>4. CASE r = s /\ RowsIn(s, h) = 0
        <4>1. rollup'[r][h] \in Nat
          BY <2>2, NumbersOKNext
        <4>2. QED
          BY <3>4, <4>1
      <3>5. QED
        BY <3>1, <3>2, <3>3, <3>4
    <2>5. QED
      BY <2>2, <2>3, <2>4 DEF NeverUnderReports
  <1>5. CASE Tick \/ StartRun \/ BudgetStop \/ StopEarly \/ ReadOldest \/ NextPass \/ Cancel \/ UNCHANGED vars
    <2>1. RunInv' /\ UNCHANGED <<logs, rollup, raced>>
      BY <1>1, <1>5, OthersRunOK
    <2>2. QED
      BY <1>1, <2>1 DEF NeverUnderReports, RowsIn
  <1>6. QED
    BY <1>1, <1>2, <1>3, <1>4, <1>5 DEF Next, RunStep

\* repairRollup's three regions are exact: whatever budget, deadline or failure ended the
\* purge, only an hour inserted into between the watermark read and the repair loses counts.
THEOREM RepairsKeepCounts == Spec => []NeverUnderReports
  <1>1. RunInv /\ NeverUnderReports /\ [Next]_vars => (RunInv /\ NeverUnderReports)'
    BY UnderOKNext
  <1>2. QED
    BY <1>1, InitRollupOK, PTL DEF Spec

----------------------------------------------------------------------------
(* The rollup reports no row that is gone, once the repair that is due is done. *)

\* Rows that have come in since, or have gone, leave a lost hour lost.
LEMMA LostStays ==
  ASSUME RunInv, RunInv', clock' >= clock, NEW s \in Series, NEW h, LostHour(s, h),
         \A t \in logs'[s] : t \in logs[s] \/ t >= clock - Days[s]
  PROVE  LostHour(s, h)'
  <1>1. clock \in Nat /\ clock' \in Nat /\ Days[s] \in Int /\ logs'[s] \in SUBSET (0 .. clock')
    BY ConstantsAssumption DEF RunInv, RollupTypes
  <1>2. PICK d \in Nat : Hour(d) = h /\ d < clock - Days[s] /\ \A t \in logs[s] : d < t
    BY DEF LostHour
  <1>3. \A t \in logs'[s] : d < t
    BY <1>1, <1>2
  <1>4. d < clock' - Days[s]
    BY <1>1, <1>2
  <1>5. QED
    BY <1>2, <1>3, <1>4 DEF LostHour, Expires

LEMMA OverInsertOK ==
  ASSUME LagWithinRetention, RunInv, OverOK, NEW s \in Series, NEW batch \in SUBSET (0 .. clock), BulkInsert(s, batch)
  PROVE  OverOK'
  <1>1. RunInv' /\ \A r \in Series, h \in Hours :
              /\ r # s => RowsIn(r, h)' = RowsIn(r, h) /\ rollup'[r] = rollup[r]
              /\ rollup'[s][h] - rollup[s][h] = RowsIn(s, h)' - RowsIn(s, h)
    BY InsertRunOK
  <1>2. UNCHANGED <<clock, torn, pc, pass, deleted>> /\ logs' = [logs EXCEPT ![s] = logs[s] \cup batch]
    BY DEF BulkInsert, run
  <1>3. \A t \in batch : clock - t <= MaxLag /\ t \in Nat
    BY DEF BulkInsert, RunInv, RollupTypes
  <1>4. ASSUME NEW r \in Series, NEW h \in Hours, rollup'[r][h] > RowsIn(r, h)' PROVE RepairDue(r)' /\ LostHour(r, h)'
    <2>1. rollup[r][h] \in Nat /\ RowsIn(r, h) \in Nat
      BY NumbersOK
    <2>2. rollup'[r][h] \in Nat /\ RowsIn(r, h)' \in Nat
      BY <1>1, NumbersOKNext
    <2>3. rollup[r][h] > RowsIn(r, h)
      BY <1>1, <1>4, <2>1, <2>2
    <2>4. RepairDue(r) /\ LostHour(r, h)
      BY <2>3 DEF OverOK
    <2>5. clock \in Nat /\ clock' >= clock /\ Days[r] \in Int /\ MaxLag <= Days[r] /\ MaxLag \in Nat
      <3>1. clock \in Nat
        BY DEF RunInv, RollupTypes
      <3>2. Days[r] \in Int /\ MaxLag \in Nat
        BY ConstantsAssumption
      <3>3. MaxLag <= Days[r]
        BY <2>4 DEF LagWithinRetention, LostHour
      <3>4. QED
        BY <1>2, <3>1, <3>2, <3>3
    <2>6. \A t \in logs'[r] : t \in logs[r] \/ t \in batch
      BY <1>2 DEF RunInv, RollupTypes
    <2>7. \A t \in logs'[r] : t \in logs[r] \/ t >= clock - Days[r]
      <3>1. ASSUME NEW t \in batch PROVE t >= clock - Days[r]
        <4>1. t \in Nat /\ clock - t <= MaxLag
          BY <1>3
        <4>2. QED
          BY <2>5, <4>1
      <3>2. QED
        BY <2>6, <3>1
    <2>8. LostHour(r, h)'
      BY <1>1, <2>4, <2>5, <2>7, LostStays
    <2>9. RepairDue(r)'
      BY <1>2, <2>4 DEF RepairDue, Unrepaired
    <2>10. QED
      BY <2>8, <2>9
  <1>5. QED
    BY <1>4 DEF OverOK

LEMMA OverDeleteOK ==
  ASSUME RunInv, OverOK, DeleteBatch
  PROVE  OverOK'
  <1>1. PICK s \in Series : s = Passes[pass]
    BY PassesAreSeries DEF RunInv, RollupTypes
  <1>2. PICK D \in SUBSET Expired :
         /\ IsOldest(D, NextBatch) /\ logs' = [logs EXCEPT ![s] = logs[s] \ D]
         /\ deleted' = deleted + Cardinality(D)
         /\ UNCHANGED <<clock, rollup, raced, torn, pass, cutoff>> /\ pc = "delete"
         /\ pc' = "delete" \/ pc' = IF deleted + Cardinality(D) > 0 THEN "watermark" ELSE "next"
    BY <1>1, DeleteBatchIs
  <1>3. /\ RunInv'
        /\ \A r \in Series : logs'[r] = IF r = s THEN logs[s] \ D ELSE logs[r]
        /\ D \in SUBSET logs[s] /\ Expires(s)
        /\ \A d \in D : d \in Nat /\ d < clock - Days[s] /\ \A t \in logs'[s] : d < t
        /\ \A r \in Series : Unrepaired(r) => Unrepaired(r)'
        /\ D # {} => Unrepaired(s)'
    BY <1>1, <1>2, DeleteRunOK
  <1>4. ASSUME NEW r \in Series, NEW h \in Hours, rollup'[r][h] > RowsIn(r, h)' PROVE RepairDue(r)' /\ LostHour(r, h)'
    <2>1. RowsIn(r, h) = RowsOf(logs[r], h) /\ RowsIn(r, h)' = RowsOf(logs'[r], h)
      BY <1>3, NumbersOK, NumbersOKNext
    <2>2. logs[s] \in SUBSET (0 .. clock) /\ clock \in Nat
      BY DEF RunInv, RollupTypes
    <2>3. CASE rollup[r][h] > RowsIn(r, h)
      <3>1. RepairDue(r) /\ LostHour(r, h)
        BY <2>3 DEF OverOK
      <3>2. RepairDue(r)'
        BY <1>2, <1>3, <3>1 DEF RepairDue
      <3>3. \A t \in logs'[r] : t \in logs[r]
        BY <1>3
      <3>4. LostHour(r, h)'
        BY <1>2, <1>3, <2>2, <3>1, <3>3, LostStays
      <3>5. QED
        BY <3>2, <3>4
    <2>4. CASE ~(rollup[r][h] > RowsIn(r, h))
      <3>1. RowsIn(r, h)' # RowsIn(r, h)
        BY <1>2, <1>4, <2>4
      <3>2. r = s
        BY <1>3, <2>1, <3>1
      <3>3. PICK d \in D : Hour(d) = h
        BY <1>3, <2>1, <2>2, <3>1, <3>2, FewerRows
      <3>4. RepairDue(s)'
        BY <1>3, <3>3 DEF RepairDue
      <3>5. LostHour(s, h)'
        BY <1>2, <1>3, <3>3 DEF LostHour, Expires
      <3>6. QED
        BY <3>2, <3>4, <3>5
    <2>5. QED
      BY <2>3, <2>4
  <1>5. QED
    BY <1>4 DEF OverOK

LEMMA OverRepairOK ==
  ASSUME RunInv, OverOK, RepairRollup
  PROVE  OverOK'
  <1>1. PICK s \in Series : s = Passes[pass]
    BY PassesAreSeries DEF RunInv, RollupTypes
  <1>2. /\ RunInv'
        /\ \A r \in Series : rollup'[r] = IF r = s THEN Repaired(s) ELSE rollup[r]
        /\ \A h \in Hours :
            \/ oldest = None /\ Repaired(s)[h] = 0
            \/ oldest \in logs[s] /\ h < Hour(oldest) /\ Repaired(s)[h] = 0
            \/ oldest \in logs[s] /\ h = Hour(oldest) /\ Repaired(s)[h] = RowsIn(s, h)
            \/ oldest \in logs[s] /\ h > Hour(oldest) /\ Repaired(s)[h] = rollup[s][h]
        /\ logs' = logs /\ clock' = clock /\ pc = "repair" /\ pc' = "next" /\ torn' = torn \ {s} /\ raced' = raced
    BY <1>1, RepairRunOK
  <1>3. \A r \in Series, h \in Hours : RowsIn(r, h)' = RowsIn(r, h)
    BY <1>2 DEF RowsIn
  <1>4. ASSUME NEW r \in Series, NEW h \in Hours, rollup'[r][h] > RowsIn(r, h)' PROVE RepairDue(r)' /\ LostHour(r, h)'
    <2>1. RowsIn(r, h) \in Nat /\ rollup[r][h] \in Nat /\ h \in Int
      BY NumbersOK
    <2>2. logs[s] \in SUBSET (0 .. clock) /\ clock \in Nat
      BY DEF RunInv, RollupTypes
    <2>3. CASE r = s
      <3>1. oldest \in logs[s] /\ h > Hour(oldest) /\ rollup[s][h] > RowsIn(s, h)
        BY <1>2, <1>3, <1>4, <2>1, <2>3
      <3>2. PICK d \in Nat : Hour(d) = h /\ \A t \in logs[s] : d < t
        BY <3>1 DEF OverOK, LostHour
      <3>3. d < oldest /\ oldest \in Nat
        BY <2>2, <3>1, <3>2
      <3>4. Hour(oldest) \in Int /\ h <= Hour(oldest)
        BY <3>2, <3>3, HourMonotone
      <3>5. QED
        BY <2>1, <3>1, <3>4
    <2>4. CASE r # s
      <3>1. RepairDue(r) /\ LostHour(r, h)
        BY <1>2, <1>3, <1>4, <2>4 DEF OverOK
      <3>2. RepairDue(r)'
        BY <1>1, <1>2, <2>4, <3>1 DEF RepairDue, Unrepaired
      <3>3. LostHour(r, h)'
        BY <1>2, <2>2, <3>1, LostStays
      <3>4. QED
        BY <3>2, <3>3
    <2>5. QED
      BY <2>3, <2>4
  <1>5. QED
    BY <1>4 DEF OverOK

LEMMA OverOKNext == LagWithinRetention /\ RunInv /\ OverOK /\ [Next]_vars => OverOK'
  <1>1. SUFFICES ASSUME LagWithinRetention, RunInv, OverOK, [Next]_vars PROVE OverOK'
    OBVIOUS
  <1>2. CASE Tick \/ StartRun \/ BudgetStop \/ StopEarly \/ ReadOldest \/ NextPass \/ Cancel \/ UNCHANGED vars
    <2>1. /\ RunInv' /\ UNCHANGED <<logs, rollup, raced>> /\ clock' \in Nat /\ clock' >= clock
          /\ \A r \in Series : RepairDue(r) => RepairDue(r)'
      BY <1>1, <1>2, OthersRunOK
    <2>2. ASSUME NEW r \in Series, NEW h \in Hours, rollup'[r][h] > RowsIn(r, h)' PROVE RepairDue(r)' /\ LostHour(r, h)'
      <3>1. RowsIn(r, h)' = RowsIn(r, h)
        BY <2>1 DEF RowsIn
      <3>2. RepairDue(r) /\ LostHour(r, h)
        BY <1>1, <2>1, <2>2, <3>1 DEF OverOK
      <3>3. LostHour(r, h)'
        BY <1>1, <2>1, <3>2, LostStays
      <3>4. QED
        BY <2>1, <3>2, <3>3
    <2>3. QED
      BY <2>2 DEF OverOK
  <1>3. QED
    BY <1>1, <1>2, OverInsertOK, OverDeleteOK, OverRepairOK DEF Next, RunStep

\* "counting rows that no longer existed" is over once a repair has run: whatever budget,
\* deadline, failure or cancellation ended a purge, as long as nothing is ingested that is
\* itself past its retention, the one thing besides the run that can undercut the watermark.
THEOREM RepairsForgetTheDeleted ==
  ASSUME LagWithinRetention
  PROVE  Spec => []NeverOverReports
  <1>1. RunInv /\ NeverUnderReports /\ OverOK /\ [Next]_vars => (RunInv /\ NeverUnderReports /\ OverOK)'
    BY UnderOKNext, OverOKNext
  <1>2. RunInv /\ OverOK => NeverOverReports
    <2>1. SUFFICES ASSUME RunInv, OverOK, NEW s \in Series, NEW h \in Hours, ~RepairDue(s)
                   PROVE  rollup[s][h] <= RowsIn(s, h)
      BY DEF NeverOverReports, RepairDue
    <2>2. ~(rollup[s][h] > RowsIn(s, h))
      BY <2>1 DEF OverOK
    <2>3. QED
      BY <2>1, <2>2, NumbersOK
  <1>3. QED
    BY <1>1, <1>2, InitRollupOK, PTL DEF Spec
============================================================================

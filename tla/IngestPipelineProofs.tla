----------------------- MODULE IngestPipelineProofs -----------------------
(***************************************************************************)
(* The two doors logs come in by. The per-source token bucket admits no    *)
(* more than its burst and what the rate brings, for any limits, any       *)
(* number of concurrent requests and any order in which they reach the     *)
(* limiter. What is persisted is counted, still to be counted or lost with *)
(* its counter, and so passes the daily quota by a bounded amount. App     *)
(* logs are written only where their caller was allowed to write, and      *)
(* counted in the same way, for any requests, callers and projects.        *)
(***************************************************************************)
EXTENDS IngestPipeline, AppIngest, SumLemmas, TLAPS

\* Types of what the limiter reads and writes.
LimiterTypes ==
    /\ clock \in Time
    /\ tokens \in [Sources -> 0 .. Burst]
    /\ last \in [Sources -> Time \cup {None}]
    /\ since \in [Sources -> [Time -> Nat]]
    /\ src \in [Slots -> Sources]
    /\ now \in [Slots -> Time]
    /\ batch \in [Slots -> Batch]

\* The tokens in the bucket are part of what the stretch a .. t may admit, and
\* nothing is admitted after t.
Within(s, tok, t) ==
    \A a \in Time :
        /\ a <= t => since[s][a] + tok <= Burst + Rate * (t - a)
        /\ a > t  => since[s][a] = 0

\* The inductive invariant: a bucket's tokens and its past share one budget.
IInv == LimiterTypes /\ \A s \in Sources : Within(s, tokens[s], last[s])
----------------------------------------------------------------------------
\* The smaller of two numbers.
LEMMA MinOfTwo ==
  ASSUME NEW a \in Int, NEW b \in Int
  PROVE  Min({a, b}) = IF a <= b THEN a ELSE b
<1> DEFINE m == IF a <= b THEN a ELSE b
<1>1. m \in {a, b} /\ \A y \in {a, b} : m <= y
  OBVIOUS
<1>2. ASSUME NEW x \in {a, b}, \A y \in {a, b} : x <= y PROVE x = m
  BY <1>2
<1> HIDE DEF m
<1>3. Min({a, b}) = m
  BY <1>1, <1>2 DEF Min
<1> QED
  BY <1>3 DEF m

\* What the rate brings is additive and never negative.
LEMMA RateAdds ==
  ASSUME NEW x \in Int, NEW y \in Int, NEW z \in Int
  PROVE  Rate * (x - z) = Rate * (x - y) + Rate * (y - z)
BY ConstantsAssumption

\* What the rate brings in a time that is not negative.
LEMMA RateNat == ASSUME NEW x \in Nat PROVE Rate * x \in Nat
BY ConstantsAssumption

\* allow's refill keeps the budget: it adds at most what the rate brought since
\* the last call, never more than the burst, and nothing when time went back.
LEMMA RefillWithin ==
  ASSUME IInv, NEW s \in Sources, NEW x \in Time
  PROVE  /\ Refilled(s, x) \in 0 .. Burst
         /\ ClockAfter(s, x) \in Time
         /\ Within(s, Refilled(s, x), ClockAfter(s, x))
<1> USE ConstantsAssumption DEF Time, None
<1> DEFINE l == last[s]
           tok == tokens[s]
<1>1. /\ l \in Time \cup {None} /\ tok \in 0 .. Burst /\ since[s] \in [Time -> Nat]
      /\ Within(s, tok, l)
  BY DEF IInv, LimiterTypes
<1>2. CASE l = None
  <2>1. Refilled(s, x) = Burst /\ ClockAfter(s, x) = x
    BY <1>2 DEF Refilled, ClockAfter
  <2>2. \A a \in Time : since[s][a] = 0
    BY <1>1, <1>2 DEF Within
  <2>3. \A a \in Time : a <= x => Rate * (x - a) \in Nat
    BY RateNat
  <2> QED
    BY <2>1, <2>2, <2>3 DEF Within
<1>3. CASE l # None /\ x > l
  <2> DEFINE g == Rate * (x - l)
  <2>1. g \in Nat
    BY <1>1, <1>3, RateNat
  <2>2. Refilled(s, x) = (IF Burst <= tok + g THEN Burst ELSE tok + g) /\ ClockAfter(s, x) = x
    <3>1. (x - l) * Rate = g
      BY <1>1, <1>3
    <3>2. Burst \in Int /\ tok + g \in Int
      <4> HIDE DEF g, tok
      <4> QED
        BY <1>1, <2>1
    <3>3. Min({Burst, tok + g}) = (IF Burst <= tok + g THEN Burst ELSE tok + g)
      <4> HIDE DEF g, tok
      <4> QED
        BY <3>2, MinOfTwo
    <3> QED
      BY <1>3, <3>1, <3>3 DEF Refilled, ClockAfter
  <2> DEFINE R == Refilled(s, x)
  <2> HIDE DEF g
  <2>3. R \in 0 .. Burst /\ R <= tok + g
    BY <1>1, <2>1, <2>2
  <2>4. ASSUME NEW a \in Time, a <= l PROVE since[s][a] + R <= Burst + Rate * (x - a)
    <3>1. since[s][a] + tok <= Burst + Rate * (l - a) /\ since[s][a] \in Nat
      BY <1>1, <2>4 DEF Within
    <3>2. x \in Int /\ l \in Int /\ a \in Int /\ l - a \in Nat
      BY <1>1, <2>4
    <3>3. Rate * (x - a) = Rate * (x - l) + Rate * (l - a)
      <4> HIDE DEF l
      <4> QED
        BY <3>2, RateAdds
    <3>4. Rate * (l - a) \in Nat
      <4> HIDE DEF l
      <4> QED
        BY <3>2, RateNat
    <3> DEFINE h == Rate * (l - a)
               w == Rate * (x - a)
    <3>5. w = g + h /\ h \in Nat /\ since[s][a] + tok <= Burst + h
      BY <3>1, <3>3, <3>4 DEF g
    <3> HIDE DEF R, h, w, tok, l
    <3>6. since[s][a] + R <= Burst + w
      BY <1>1, <2>1, <2>3, <3>1, <3>5
    <3> QED
      BY <3>6 DEF w
  <2>5. ASSUME NEW a \in Time, a > l PROVE since[s][a] = 0
    BY <1>1, <2>5 DEF Within
  <2>6. \A a \in Time : a <= x => Rate * (x - a) \in Nat
    BY RateNat
  <2>7. \A a \in Time : a <= x => since[s][a] + R <= Burst + Rate * (x - a)
    <3> SUFFICES ASSUME NEW a \in Time, a <= x PROVE since[s][a] + R <= Burst + Rate * (x - a)
      OBVIOUS
    <3>1. CASE a <= l
      BY <3>1, <2>4
    <3>2. CASE a > l
      BY <3>2, <2>3, <2>5, <2>6
    <3> QED
      BY <1>1, <1>3, <3>1, <3>2
  <2>8. \A a \in Time : a > x => since[s][a] = 0
    BY <1>1, <1>3, <2>5
  <2> QED
    BY <2>2, <2>3, <2>7, <2>8 DEF Within
<1>4. CASE l # None /\ ~(x > l)
  <2>1. Refilled(s, x) = tok /\ ClockAfter(s, x) = l
    BY <1>4 DEF Refilled, ClockAfter
  <2> QED
    BY <1>1, <1>4, <2>1
<1> QED
  BY <1>2, <1>3, <1>4
----------------------------------------------------------------------------
\* No bucket has been used.
LEMMA InitIInv == Init => IInv
<1> SUFFICES ASSUME Init PROVE IInv
  OBVIOUS
<1> USE ConstantsAssumption DEF Time, None
<1>1. LimiterTypes
  BY DEF Init, LimiterTypes, Batch, NoBatch
<1>2. \A s \in Sources : Within(s, tokens[s], last[s])
  BY DEF Init, Within
<1> QED
  BY <1>1, <1>2 DEF IInv

\* A batch that is let through moves its records from the tokens to the past.
LEMMA AdmitIInv == ASSUME IInv, NEW q \in Slots, Admit(q) PROVE IInv'
<1> USE ConstantsAssumption
<1> DEFINE s == src[q]
           n == Size(batch[q])
           x == now[q]
           t == ClockAfter(s, x)
           R == Refilled(s, x)
<1>1. s \in Sources /\ x \in Time /\ n \in Nat
  BY DEF IInv, LimiterTypes, Batch, Size
<1>2. R \in 0 .. Burst /\ t \in Time /\ Within(s, R, t)
  BY <1>1, RefillWithin
<1>3. UNCHANGED <<clock, src, now, batch>>
  BY DEF Admit, request
<1>4. CASE Unlimited
  BY <1>3, <1>4 DEF Admit, IInv, LimiterTypes, Within
<1>5. CASE ~Unlimited
  <2> DEFINE S == [a \in Time |-> IF a <= t THEN since[s][a] + n ELSE since[s][a]]
  <2>1. /\ tokens' = [tokens EXCEPT ![s] = R - n]
        /\ last' = [last EXCEPT ![s] = t]
        /\ since' = [since EXCEPT ![s] = S]
        /\ R >= n
    BY <1>5 DEF Admit
  <2>2. R - n \in 0 .. Burst
    BY <1>1, <1>2, <2>1
  <2>3. since[s] \in [Time -> Nat]
    BY <1>1 DEF IInv, LimiterTypes
  <2>4. S \in [Time -> Nat]
    BY <1>1, <2>3
  <2>5. LimiterTypes'
    <3> HIDE DEF S, R, t, n, x, s
    <3> QED
      BY <1>1, <1>2, <1>3, <2>1, <2>2, <2>4 DEF IInv, LimiterTypes
  <2>6. ASSUME NEW z \in Sources PROVE Within(z, tokens[z], last[z])'
    <3>1. CASE z # s
      <4>1. since'[z] = since[z] /\ tokens'[z] = tokens[z] /\ last'[z] = last[z]
        BY <2>1, <3>1 DEF IInv, LimiterTypes
      <4> QED
        BY <4>1 DEF IInv, Within
    <3>2. CASE z = s
      <4>1. since'[z] = S /\ tokens'[z] = R - n /\ last'[z] = t
        BY <1>1, <2>1, <3>2 DEF IInv, LimiterTypes
      <4>2. ASSUME NEW a \in Time, a <= t PROVE S[a] + (R - n) <= Burst + Rate * (t - a)
        <5>1. S[a] = since[s][a] + n
          BY <4>2
        <5>2. since[s][a] + R <= Burst + Rate * (t - a)
          BY <4>2, <1>2 DEF Within
        <5>3. S[a] + (R - n) = since[s][a] + R
          <6> HIDE DEF S, R, n
          <6> QED
            BY <5>1, <1>1, <1>2, <2>3
        <5> QED
          BY <5>2, <5>3
      <4>3. ASSUME NEW a \in Time, a > t PROVE S[a] = 0
        BY <4>3, <1>2 DEF Within, Time
      <4> HIDE DEF S, R, n, t, s, x
      <4> QED
        BY <4>1, <4>2, <4>3 DEF Within
    <3> QED
      BY <3>1, <3>2
  <2> HIDE DEF S, R, n, t, s, x
  <2> QED
    BY <2>5, <2>6 DEF IInv
<1> QED
  BY <1>4, <1>5

\* A refused batch leaves the refilled bucket behind and admits nothing.
LEMMA ThrottleIInv == ASSUME IInv, NEW q \in Slots, Throttle(q) PROVE IInv'
<1> USE ConstantsAssumption
<1> DEFINE s == src[q]
           x == now[q]
           t == ClockAfter(s, x)
           R == Refilled(s, x)
<1>1. s \in Sources /\ x \in Time
  BY DEF IInv, LimiterTypes
<1>2. R \in 0 .. Burst /\ t \in Time /\ Within(s, R, t)
  BY <1>1, RefillWithin
<1>3. /\ UNCHANGED <<clock, src, now, since>>
      /\ batch' = [batch EXCEPT ![q] = NoBatch]
      /\ tokens' = [tokens EXCEPT ![s] = R]
      /\ last' = [last EXCEPT ![s] = t]
  BY DEF Throttle, Respond
<1>4. NoBatch \in Batch
  BY DEF NoBatch, Batch
<1> HIDE DEF R, t, s, x
<1>5. LimiterTypes'
  BY <1>1, <1>2, <1>3, <1>4 DEF IInv, LimiterTypes
<1>6. ASSUME NEW z \in Sources PROVE Within(z, tokens[z], last[z])'
  <2>1. CASE z # s
    BY <1>3, <2>1 DEF IInv, LimiterTypes, Within
  <2>2. CASE z = s
    <3>1. tokens'[z] = R /\ last'[z] = t /\ since' = since
      BY <1>1, <1>3, <2>2 DEF IInv, LimiterTypes
    <3> QED
      BY <1>2, <2>2, <3>1 DEF Within
  <2> QED
    BY <2>1, <2>2
<1> QED
  BY <1>5, <1>6 DEF IInv

\* Every other step leaves the limiter alone.
LEMMA OtherIInv ==
  ASSUME IInv, UNCHANGED limiter, clock' \in Time, LimiterTypes'
  PROVE  IInv'
BY DEF IInv, Within, limiter

\* Every step preserves the invariant.
LEMMA NextIInv == IInv /\ [Next]_vars => IInv'
<1> SUFFICES ASSUME IInv, [Next]_vars PROVE IInv'
  OBVIOUS
<1> USE ConstantsAssumption
<1>1. LimiterTypes /\ NoBatch \in Batch
  BY DEF IInv, NoBatch, Batch
<1>2. ASSUME NEW q \in Slots, NEW s \in Sources, NEW b \in Batches, Arrive(q, s, b) PROVE IInv'
  BY <1>1, <1>2, OtherIInv DEF Arrive, LimiterTypes, limiter
<1>3. ASSUME NEW q \in Slots, UNCHANGED <<clock, limiter>>, Respond(q) PROVE IInv'
  BY <1>1, <1>3, OtherIInv DEF Respond, LimiterTypes, limiter
<1>4. ASSUME UNCHANGED <<clock, limiter, request>> PROVE IInv'
  BY <1>1, <1>4, OtherIInv DEF LimiterTypes, limiter, request
<1>5. CASE Tick
  BY <1>1, <1>5, OtherIInv DEF Tick, LimiterTypes, limiter, request, Time
<1>6. ASSUME NEW q \in Slots,
             CheckQuota(q) \/ Persist(q) \/ PersistFails(q) \/ RecordUsage(q) \/ UsageLost(q)
               \/ CountRejects(q) \/ StoreRejects(q) \/ TouchLastSeen(q) \/ RoutineFails(q) \/ Done(q)
      PROVE  IInv'
  <2>1. UNCHANGED <<clock, limiter>> /\ (UNCHANGED request \/ Respond(q))
    BY <1>6 DEF CheckQuota, Persist, PersistFails, RecordUsage, UsageLost, CountRejects,
       StoreRejects, TouchLastSeen, RoutineFails, Done
  <2> QED
    BY <2>1, <1>3, <1>4
<1>7. CASE UNCHANGED vars
  BY <1>4, <1>7 DEF vars
<1> QED
  BY <1>2, <1>5, <1>6, <1>7, AdmitIInv, ThrottleIInv DEF Next
----------------------------------------------------------------------------
\* "a source's configured limits are honored": whatever the rate, the burst, the
\* batches and the order in which concurrent requests reach allow, a stretch of
\* the limiter's time admits at most the burst plus the rate times its length.
THEOREM LimitHonored == Spec => []RateBound
<1>1. IInv => RateBound
  <2> SUFFICES ASSUME IInv, NEW s \in Sources, NEW a \in Time, a <= last[s]
               PROVE  since[s][a] <= Burst + Rate * (last[s] - a)
    BY DEF RateBound
  <2>1. tokens[s] \in Nat /\ since[s][a] \in Nat /\ last[s] \in Int
    BY ConstantsAssumption DEF IInv, LimiterTypes, Time, None
  <2>2. since[s][a] + tokens[s] <= Burst + Rate * (last[s] - a)
    BY DEF IInv, Within
  <2>3. Burst + Rate * (last[s] - a) \in Int
    BY <2>1, ConstantsAssumption DEF Time
  <2> QED
    BY <2>1, <2>2, <2>3
<1> QED
  BY InitIInv, NextIInv, <1>1, PTL DEF Spec

----------------------------------------------------------------------------
(* The counters and the quota, for any number of sources and requests and *)
(* any quota: no event is counted twice or forgotten without being lost,  *)
(* and the quota is overshot by no more than what is under way.           *)

UsageTypes ==
    /\ pc \in [Slots -> {"idle", "arrived", "limited", "checked", "spawned"}]
    /\ src \in [Slots -> Sources] /\ now \in [Slots -> Time] /\ batch \in [Slots -> Batch]
    /\ usage \in [Slots -> Counter] /\ clock \in Time
    /\ logs \in [Sources -> [Days -> Nat]] /\ daily \in [Sources -> [Days -> Nat]]
    /\ lost \in [Days -> Nat] /\ blind \in [Days -> Nat]

\* A request has at most maxRecords, and so has what its goroutine counts.
Fits ==
    \A q \in Slots :
        /\ pc[q] # "idle" => Size(batch[q]) <= MaxRecords
        /\ pc[q] = "spawned" => usage[q].events <= MaxRecords

\* What request q has yet to count of day d, and what it has passed the quota with
Pending(d) == [q \in Slots |-> IF pc[q] = "spawned" /\ Day(now[q]) = d THEN usage[q].events ELSE 0]
Passed(d)  == [q \in Slots |-> IF pc[q] = "checked" /\ Day(now[q]) = d THEN Size(batch[q]) ELSE 0]

Balanced ==
    \A d \in Days : Persisted(d) = UsedToday(d) + lost[d] + SumFunction(Pending(d))

\* What has passed the quota counts as persisted.
Bounded ==
    \A d \in Days : Quota > 0 =>
        Persisted(d) + SumFunction(Passed(d))
            <= Quota - 1 + Cardinality(Slots) * MaxRecords + lost[d] + blind[d]

\* The inductive invariant.
UsageInv == UsageTypes /\ Fits /\ Balanced /\ Bounded

\* A counter per source and day, summed over the sources
DaySum(table, d) == SumFunction([s \in Sources |-> table[s][d]])

LEMMA DayOf == ASSUME NEW t \in Time PROVE Day(t) \in Days
  <1>1. PICK L \in Nat \ {0} : L = DayLen
    BY ConstantsAssumption
  <1>2. PICK a, b : a = t \div L /\ b = MaxClock \div L
    OBVIOUS
  <1>3. t \in Nat /\ t <= MaxClock /\ MaxClock \in Nat
    BY ConstantsAssumption DEF Time
  <1>4. a \in Nat /\ b \in Nat /\ a <= b
    <2>1. /\ a \in Nat /\ L * a <= t
          /\ b \in Nat /\ MaxClock < L * b + L
      BY <1>1, <1>2, <1>3
    <2>2. ASSUME a > b PROVE FALSE
      <3>1. PICK k \in Nat : a = b + 1 + k
        BY <2>1, <2>2
      <3>2. L * a = L * b + L + L * k /\ L * k \in Nat /\ L * b \in Nat
        BY <2>1, <3>1
      <3>3. QED
        BY <1>3, <2>1, <3>2
    <2>3. QED
      BY <2>1, <2>2
  <1>5. QED
    BY <1>1, <1>2, <1>4 DEF Day, Days

Table(table) == table \in [Sources -> [Days -> Nat]]

\* One entry of such a table grows by n.
Grew(old, new, s, d, n) ==
    \A z \in Sources, x \in Days : new[z][x] = old[z][x] + (IF z = s /\ x = d THEN n ELSE 0)

LEMMA DaySumGrows ==
  ASSUME NEW old, NEW new, Table(old), Table(new), NEW s \in Sources, NEW d \in Days, NEW n \in Nat,
         Grew(old, new, s, d, n), NEW x \in Days
  PROVE  DaySum(old, x) \in Nat /\ DaySum(new, x) = DaySum(old, x) + (IF x = d THEN n ELSE 0)
  <1>1. PICK f : f = [z \in Sources |-> old[z][x]]
    OBVIOUS
  <1>2. PICK h : h = [z \in Sources |-> new[z][x]]
    OBVIOUS
  <1>3. f \in [Sources -> Nat]
    BY <1>1 DEF Table
  <1>4. f \in [Sources -> Int] /\ h \in [Sources -> Int]
    BY <1>1, <1>2 DEF Table
  <1>5. IsFiniteSet(Sources)
    BY ConstantsAssumption
  <1>6. \A z \in Sources : z # s => h[z] = f[z]
    BY <1>1, <1>2 DEF Grew, Table
  <1>7. h[s] - f[s] = (IF x = d THEN n ELSE 0) /\ f[s] \in Nat /\ h[s] \in Nat
    BY <1>1, <1>2 DEF Grew, Table
  <1>8. SumFunction(f) \in Nat
    BY <1>3, <1>5, SumNat
  <1>9. SumFunction(h) = SumFunction(f) + (h[s] - f[s])
    BY <1>4, <1>5, <1>6, SumChanges
  <1>10. QED
    BY <1>1, <1>2, <1>7, <1>8, <1>9 DEF DaySum

LEMMA DaySumNat ==
  ASSUME NEW table, Table(table), NEW d \in Days
  PROVE  DaySum(table, d) \in Nat
  <1>1. PICK f : f = [z \in Sources |-> table[z][d]]
    OBVIOUS
  <1>2. f \in [Sources -> Nat] /\ IsFiniteSet(Sources)
    BY <1>1, ConstantsAssumption DEF Table
  <1>3. QED
    BY <1>1, <1>2, SumNat DEF DaySum

\* A step of one request moves events from one account to another, and puts no more
\* into the logs than it had passed the quota with.
LEMMA AccountsStay ==
  ASSUME UsageInv, NEW q \in Slots, UsageTypes', Fits',
         \A r \in Slots : r # q => /\ pc'[r] = pc[r] /\ now'[r] = now[r]
                                   /\ batch'[r] = batch[r] /\ usage'[r] = usage[r],
         \A d \in Days :
             /\ DaySum(logs', d) - DaySum(logs, d)
                  = (DaySum(daily', d) - DaySum(daily, d)) + (lost'[d] - lost[d])
                      + (Pending(d)'[q] - Pending(d)[q])
             /\ DaySum(logs', d) - DaySum(logs, d) + (Passed(d)'[q] - Passed(d)[q])
                  <= (lost'[d] - lost[d]) + (blind'[d] - blind[d])
  PROVE  UsageInv'
  <1>1. SUFFICES ASSUME NEW d \in Days
                 PROVE  /\ Persisted(d)' = UsedToday(d)' + lost'[d] + SumFunction(Pending(d)')
                        /\ Quota > 0 => Persisted(d)' + SumFunction(Passed(d)')
                              <= Quota - 1 + Cardinality(Slots) * MaxRecords + lost'[d] + blind'[d]
    BY DEF UsageInv, Balanced, Bounded
  <1>2. PICK f, h : f = Pending(d) /\ h = Pending(d)'
    OBVIOUS
  <1>3. PICK a, b : a = Passed(d) /\ b = Passed(d)'
    OBVIOUS
  <1>4. f \in [Slots -> Int] /\ h \in [Slots -> Int] /\ \A r \in Slots : r # q => h[r] = f[r]
    BY <1>2 DEF UsageInv, UsageTypes, Pending, Counter
  <1>5. a \in [Slots -> Int] /\ b \in [Slots -> Int] /\ \A r \in Slots : r # q => b[r] = a[r]
    BY <1>3 DEF UsageInv, UsageTypes, Passed, Batch, Size
  <1>6. IsFiniteSet(Slots)
    BY ConstantsAssumption
  <1>7. SumFunction(f) \in Int /\ SumFunction(h) = SumFunction(f) + (h[q] - f[q])
    BY <1>4, <1>6, SumChanges
  <1>8. SumFunction(a) \in Int /\ SumFunction(b) = SumFunction(a) + (b[q] - a[q])
    BY <1>5, <1>6, SumChanges
  <1>9. /\ DaySum(logs, d) \in Nat /\ DaySum(logs', d) \in Nat
        /\ DaySum(daily, d) \in Nat /\ DaySum(daily', d) \in Nat
        /\ lost[d] \in Nat /\ lost'[d] \in Nat /\ blind[d] \in Nat /\ blind'[d] \in Nat
        /\ f[q] \in Int /\ h[q] \in Int /\ a[q] \in Int /\ b[q] \in Int
    BY <1>4, <1>5, DaySumNat DEF UsageInv, UsageTypes, Table
  <1>10. /\ Persisted(d) = DaySum(logs, d) /\ Persisted(d)' = DaySum(logs', d)
         /\ UsedToday(d) = DaySum(daily, d) /\ UsedToday(d)' = DaySum(daily', d)
    BY DEF Persisted, UsedToday, DaySum
  <1>11. PICK top \in Int : top = Quota - 1 + Cardinality(Slots) * MaxRecords
    BY <1>6, ConstantsAssumption, FS_CardinalityType
  <1>12. /\ DaySum(logs, d) = DaySum(daily, d) + lost[d] + SumFunction(f)
         /\ Quota > 0 => DaySum(logs, d) + SumFunction(a) <= top + lost[d] + blind[d]
    BY <1>2, <1>3, <1>10, <1>11 DEF UsageInv, Balanced, Bounded
  <1>13. /\ DaySum(logs', d) - DaySum(logs, d)
              = (DaySum(daily', d) - DaySum(daily, d)) + (lost'[d] - lost[d]) + (h[q] - f[q])
         /\ DaySum(logs', d) - DaySum(logs, d) + (b[q] - a[q])
              <= (lost'[d] - lost[d]) + (blind'[d] - blind[d])
    BY <1>2, <1>3
  <1>14. DaySum(logs', d) = DaySum(daily', d) + lost'[d] + SumFunction(h)
    BY <1>7, <1>9, <1>12, <1>13
  <1>15. Quota > 0 => DaySum(logs', d) + SumFunction(b) <= top + lost'[d] + blind'[d]
    BY <1>8, <1>9, <1>12, <1>13
  <1>16. QED
    BY <1>2, <1>3, <1>10, <1>11, <1>14, <1>15

\* A step of request q, which keeps types and sizes
StepOf(q) ==
    /\ UsageTypes' /\ Fits'
    /\ \A r \in Slots : r # q => /\ pc'[r] = pc[r] /\ now'[r] = now[r]
                                 /\ batch'[r] = batch[r] /\ usage'[r] = usage[r]

\* Of the steps that write no account, those that start or end a request, and the
\* goroutines of refused records and of last_seen_at.
LEMMA NoAccountWritten ==
  ASSUME UsageInv, NEW q \in Slots, StepOf(q), UNCHANGED <<logs, daily, lost, blind>>,
         pc'[q] # "checked",
         pc[q] = "spawned" \/ pc'[q] = "spawned" =>
             \/ usage[q].events = 0 /\ usage'[q].events = 0
             \/ pc'[q] = pc[q] /\ now'[q] = now[q] /\ usage'[q] = usage[q]
  PROVE  UsageInv'
  <1>1. ASSUME NEW d \in Days
        PROVE  /\ Pending(d)'[q] = Pending(d)[q] /\ Pending(d)[q] \in Nat
               /\ Passed(d)'[q] = 0 /\ Passed(d)[q] \in Nat
    <2>1. Pending(d)'[q] = Pending(d)[q]
      BY DEF Pending
    <2>2. Pending(d)[q] \in Nat /\ Passed(d)[q] \in Nat
      BY DEF UsageInv, UsageTypes, Pending, Passed, Counter, Batch, Size
    <2>3. Passed(d)'[q] = 0
      BY DEF Passed
    <2>4. QED
      BY <2>1, <2>2, <2>3
  <1>2. ASSUME NEW d \in Days
        PROVE  DaySum(logs, d) \in Nat /\ DaySum(daily, d) \in Nat /\ lost[d] \in Nat /\ blind[d] \in Nat
    BY DaySumNat DEF UsageInv, UsageTypes, Table
  <1>3. ASSUME NEW d \in Days
        PROVE  /\ DaySum(logs', d) - DaySum(logs, d)
                    = (DaySum(daily', d) - DaySum(daily, d)) + (lost'[d] - lost[d])
                        + (Pending(d)'[q] - Pending(d)[q])
               /\ DaySum(logs', d) - DaySum(logs, d) + (Passed(d)'[q] - Passed(d)[q])
                    <= (lost'[d] - lost[d]) + (blind'[d] - blind[d])
    BY <1>1, <1>2
  <1>4. QED
    BY <1>3, AccountsStay DEF StepOf

LEMMA ArriveBooks ==
  ASSUME UsageInv, NEW q \in Slots, NEW s \in Sources, NEW b \in Batches, Arrive(q, s, b)
  PROVE  UsageInv'
  <1> USE DEF Arrive, routines, database, limiter
  <1>1. b \in Batch /\ Size(b) <= MaxRecords
    BY ConstantsAssumption
  <1>2. UsageTypes'
    BY <1>1 DEF UsageInv, UsageTypes
  <1>3. /\ pc'[q] = "arrived" /\ pc[q] = "idle" /\ batch'[q] = b
        /\ \A r \in Slots : r # q => pc'[r] = pc[r] /\ now'[r] = now[r] /\ batch'[r] = batch[r]
    BY DEF UsageInv, UsageTypes
  <1>4. Fits'
    BY <1>1, <1>3 DEF UsageInv, Fits
  <1>5. StepOf(q)
    BY <1>2, <1>3, <1>4 DEF StepOf
  <1>6. UNCHANGED <<logs, daily, lost, blind>> /\ pc[q] # "spawned" /\ pc'[q] # "spawned" /\ pc'[q] # "checked"
    BY <1>3
  <1>7. QED
    BY <1>5, <1>6, NoAccountWritten

\* The request is answered, before anything was persisted or after everything is counted.
LEMMA RespondBooks ==
  ASSUME UsageInv, NEW q \in Slots, Respond(q), UNCHANGED <<clock, usage, logs, daily, lost, blind>>,
         pc[q] = "spawned" => usage[q] = Zero
  PROVE  UsageInv'
  <1>1. NoBatch \in Batch /\ Size(NoBatch) = 0
    BY ConstantsAssumption DEF NoBatch, Batch, Size
  <1>2. UsageTypes'
    BY <1>1 DEF UsageInv, UsageTypes, Respond
  <1>3. /\ pc'[q] = "idle"
        /\ \A r \in Slots : r # q => pc'[r] = pc[r] /\ now'[r] = now[r] /\ batch'[r] = batch[r]
    BY DEF UsageInv, UsageTypes, Respond
  <1>4. Fits'
    BY <1>1, <1>3 DEF UsageInv, Fits
  <1>5. StepOf(q)
    BY <1>2, <1>3, <1>4 DEF StepOf
  <1>6. pc[q] = "spawned" => usage[q].events = 0 /\ usage'[q].events = 0
    BY DEF Zero
  <1>7. QED
    BY <1>3, <1>5, <1>6, NoAccountWritten

LEMMA AdmitBooks ==
  ASSUME UsageInv, NEW q \in Slots, Admit(q)
  PROVE  UsageInv'
  <1>1. /\ pc[q] = "arrived" /\ pc' = [pc EXCEPT ![q] = "limited"]
        /\ UNCHANGED <<clock, src, now, batch, usage, logs, daily, lost, blind>>
    BY DEF Admit, request, routines, database
  <1>2. UsageTypes'
    BY <1>1 DEF UsageInv, UsageTypes
  <1>3. pc'[q] = "limited" /\ \A r \in Slots : r # q => pc'[r] = pc[r]
    BY <1>1 DEF UsageInv, UsageTypes
  <1>4. Fits'
    BY <1>1, <1>3 DEF UsageInv, Fits
  <1>5. StepOf(q)
    BY <1>1, <1>2, <1>3, <1>4 DEF StepOf
  <1>6. QED
    BY <1>1, <1>3, <1>5, NoAccountWritten

\* Refused records and last_seen_at: no account
LEMMA RoutineBooks ==
  ASSUME UsageInv, NEW q \in Slots,
         CountRejects(q) \/ StoreRejects(q) \/ TouchLastSeen(q) \/ RoutineFails(q)
  PROVE  UsageInv'
  <1>1. /\ pc[q] = "spawned"
        /\ UNCHANGED <<clock, pc, src, now, batch, usage, logs, daily, lost, blind>>
    BY DEF CountRejects, StoreRejects, TouchLastSeen, RoutineFails, request, database
  <1>2. UsageTypes' /\ Fits'
    BY <1>1 DEF UsageInv, UsageTypes, Fits
  <1>3. StepOf(q)
    BY <1>1, <1>2 DEF StepOf
  <1>4. QED
    BY <1>1, <1>3, NoAccountWritten

\* A batch passes the quota where the counters are below it, so that what is stored and
\* what has passed together stay within it and what is under way; or it passes unread.
LEMMA CheckQuotaBooks ==
  ASSUME UsageInv, NEW q \in Slots, CheckQuota(q)
  PROVE  UsageInv'
  <1>1. /\ pc[q] = "limited"
        /\ UNCHANGED <<clock, usage, logs, daily, lost>>
    BY DEF CheckQuota, routines, database
  <1>2. CASE Respond(q) /\ UNCHANGED blind
    BY <1>1, <1>2, RespondBooks
  <1>3. ASSUME pc' = [pc EXCEPT ![q] = "checked"], UNCHANGED request,
               blind' \in [Days -> Nat]
        PROVE  /\ StepOf(q)
               /\ pc'[q] = "checked" /\ \A r \in Slots : r # q => pc'[r] = pc[r]
    <2>1. UNCHANGED <<src, now, batch>>
      BY <1>3 DEF request
    <2>2. UsageTypes'
      BY <1>1, <1>3, <2>1 DEF UsageInv, UsageTypes
    <2>3. pc'[q] = "checked" /\ \A r \in Slots : r # q => pc'[r] = pc[r]
      BY <1>3 DEF UsageInv, UsageTypes
    <2>4. Fits'
      BY <1>1, <2>1, <2>3 DEF UsageInv, Fits
    <2>5. QED
      BY <1>1, <2>1, <2>2, <2>3, <2>4 DEF StepOf
  <1>4. PICK d : d = Day(now[q])
    OBVIOUS
  <1>5. d \in Days
    BY <1>4, DayOf DEF UsageInv, UsageTypes
  <1>6. Size(batch[q]) \in Nat /\ Size(batch[q]) <= MaxRecords
    BY <1>1 DEF UsageInv, UsageTypes, Fits, Batch, Size
  <1>7. CASE /\ pc' = [pc EXCEPT ![q] = "checked"] /\ UNCHANGED request
             /\ blind' = [blind EXCEPT ![d] = blind[d] + Size(batch[q])]
    <2>1. blind' \in [Days -> Nat]
      <3>1. PICK k \in Nat : k = blind[d] + Size(batch[q])
        BY <1>5, <1>6 DEF UsageInv, UsageTypes
      <3>2. blind' = [blind EXCEPT ![d] = k]
        BY <1>7, <3>1
      <3>3. QED
        BY <3>1, <3>2 DEF UsageInv, UsageTypes
    <2>2. StepOf(q) /\ pc'[q] = "checked"
      BY <1>3, <1>7, <2>1
    <2>3. UNCHANGED <<now, batch>>
      BY <1>7 DEF request
    <2>4. ASSUME NEW x \in Days
          PROVE  /\ Pending(x)'[q] = 0 /\ Pending(x)[q] = 0 /\ Passed(x)[q] = 0
                 /\ Passed(x)'[q] = blind'[x] - blind[x]
                 /\ blind'[x] \in Nat /\ blind[x] \in Nat
      <3>1. Pending(x)'[q] = 0 /\ Pending(x)[q] = 0 /\ Passed(x)[q] = 0
        BY <1>1, <2>2 DEF Pending, Passed
      <3>2. blind[x] \in Nat /\ blind'[x] = blind[x] + (IF x = d THEN Size(batch[q]) ELSE 0)
        BY <1>5, <1>6, <1>7 DEF UsageInv, UsageTypes
      <3>3. Passed(x)'[q] = IF x = d THEN Size(batch[q]) ELSE 0
        BY <1>4, <2>2, <2>3 DEF Passed
      <3>4. QED
        BY <1>6, <3>1, <3>2, <3>3
    <2>5. ASSUME NEW x \in Days
          PROVE  DaySum(logs, x) \in Nat /\ DaySum(daily, x) \in Nat /\ lost[x] \in Nat
      BY DaySumNat DEF UsageInv, UsageTypes, Table
    <2>6. ASSUME NEW x \in Days
          PROVE  /\ DaySum(logs', x) - DaySum(logs, x)
                      = (DaySum(daily', x) - DaySum(daily, x)) + (lost'[x] - lost[x])
                          + (Pending(x)'[q] - Pending(x)[q])
                 /\ DaySum(logs', x) - DaySum(logs, x) + (Passed(x)'[q] - Passed(x)[q])
                      <= (lost'[x] - lost[x]) + (blind'[x] - blind[x])
      BY <1>1, <2>4, <2>5
    <2>7. QED
      BY <2>2, <2>6, AccountsStay DEF StepOf
  <1>8. CASE /\ pc' = [pc EXCEPT ![q] = "checked"] /\ UNCHANGED <<request, blind>>
             /\ ~Exceeded(d)
    <2>1. UNCHANGED request /\ blind' \in [Days -> Nat]
      BY <1>8 DEF UsageInv, UsageTypes
    <2>2. StepOf(q) /\ pc'[q] = "checked" /\ \A r \in Slots : r # q => pc'[r] = pc[r]
      BY <1>3, <1>8, <2>1
    <2>3. UNCHANGED <<now, batch, blind>>
      BY <1>8 DEF request
    <2>4. ASSUME NEW x \in Days PROVE Pending(x)' = Pending(x) /\ (x # d => Passed(x)' = Passed(x))
      BY <1>1, <1>4, <2>2, <2>3 DEF Pending, Passed
    <2>5. Balanced'
      BY <1>1, <2>4 DEF UsageInv, Balanced, Persisted, UsedToday
    <2>6. ASSUME NEW x \in Days, x # d, Quota > 0
          PROVE  Persisted(x)' + SumFunction(Passed(x)')
                   <= Quota - 1 + Cardinality(Slots) * MaxRecords + lost'[x] + blind'[x]
      BY <1>1, <2>3, <2>4, <2>6 DEF UsageInv, Bounded, Persisted
    <2>7. ASSUME Quota > 0
          PROVE  Persisted(d)' + SumFunction(Passed(d)')
                   <= Quota - 1 + Cardinality(Slots) * MaxRecords + lost'[d] + blind'[d]
      <3>1. PICK f, h : f = Pending(d)' /\ h = Passed(d)'
        OBVIOUS
      <3>2. PICK k : k = [r \in Slots |-> f[r] + h[r]]
        OBVIOUS
      <3>3. ASSUME NEW r \in Slots PROVE f[r] \in Nat /\ h[r] \in Nat /\ k[r] \in 0 .. MaxRecords
        <4>1. UsageTypes' /\ Fits'
          BY <2>2 DEF StepOf
        <4>2. f[r] = IF pc'[r] = "spawned" /\ Day(now'[r]) = d THEN usage'[r].events ELSE 0
          BY <3>1 DEF Pending
        <4>3. h[r] = IF pc'[r] = "checked" /\ Day(now'[r]) = d THEN Size(batch'[r]) ELSE 0
          BY <3>1 DEF Passed
        <4>4. usage'[r].events \in Nat /\ Size(batch'[r]) \in Nat /\ MaxRecords \in Nat
          BY <4>1, ConstantsAssumption DEF UsageTypes, Counter, Batch, Size
        <4>5. /\ pc'[r] = "spawned" => usage'[r].events <= MaxRecords
              /\ pc'[r] = "checked" => Size(batch'[r]) <= MaxRecords
          BY <4>1 DEF Fits
        <4>6. k[r] = f[r] + h[r]
          BY <3>2
        <4>7. QED
          BY <4>2, <4>3, <4>4, <4>5, <4>6
      <3>4. f \in [Slots -> Int] /\ h \in [Slots -> Int] /\ k \in [Slots -> Int]
        BY <3>1, <3>2, <3>3 DEF Pending, Passed
      <3>5. IsFiniteSet(Slots) /\ MaxRecords \in Nat
        BY ConstantsAssumption
      <3>6. /\ SumFunction(f) \in Int /\ SumFunction(h) \in Int
            /\ SumFunction(k) = SumFunction(f) + SumFunction(h)
        BY <3>2, <3>4, <3>5, SumPlus
      <3>7. SumFunction(k) <= Cardinality(Slots) * MaxRecords
        BY <3>3, <3>4, <3>5, SumBounded
      <3>8. Persisted(d)' = UsedToday(d) + lost[d] + SumFunction(f)
        BY <1>1, <1>5, <2>4, <3>1 DEF UsageInv, Balanced, Persisted
      <3>9. UsedToday(d) \in Nat /\ lost[d] \in Nat /\ blind[d] \in Nat
        BY <1>5, DaySumNat DEF UsageInv, UsageTypes, Table, UsedToday, DaySum
      <3>10. UsedToday(d) <= Quota - 1
        BY <1>8, <2>7, <3>9, ConstantsAssumption DEF Exceeded
      <3>11. PICK top \in Int : top = Cardinality(Slots) * MaxRecords
        BY <3>5, FS_CardinalityType
      <3>12. Persisted(d)' + SumFunction(h) <= Quota - 1 + top + lost[d] + blind[d]
        BY <3>6, <3>7, <3>8, <3>9, <3>10, <3>11, ConstantsAssumption
      <3>13. QED
        BY <1>1, <2>3, <3>1, <3>11, <3>12
    <2>8. Bounded'
      BY <2>6, <2>7 DEF Bounded
    <2>9. QED
      BY <2>2, <2>5, <2>8 DEF UsageInv, StepOf
  <1>9. QED
    BY <1>2, <1>4, <1>7, <1>8 DEF CheckQuota

\* What is persisted goes from the quota into the logs and is about to be counted.
LEMMA PersistBooks ==
  ASSUME UsageInv, NEW q \in Slots, Persist(q)
  PROVE  UsageInv'
  <1>1. PICK s, b, d : s = src[q] /\ b = batch[q] /\ d = Day(now[q])
    OBVIOUS
  <1>2. PICK dropped \in 0 .. b.others :
          /\ logs' = [logs EXCEPT ![s][d] = logs[s][d] + (Size(b) - dropped)]
          /\ usage' = [usage EXCEPT ![q] = Delta(b, dropped)]
    BY <1>1 DEF Persist
  <1>3. /\ pc[q] = "checked" /\ pc' = [pc EXCEPT ![q] = "spawned"]
        /\ UNCHANGED <<clock, src, now, batch, daily, lost, blind>>
    BY DEF Persist, request
  <1>4. s \in Sources /\ b \in Batch /\ d \in Days
    BY <1>1, DayOf DEF UsageInv, UsageTypes
  <1>5. b.errors \in Nat /\ b.others \in Nat /\ b.rejects \in Nat /\ dropped \in Nat /\ dropped <= b.others
    BY <1>4 DEF Batch
  <1>6. PICK n \in Nat : n = Size(b) - dropped
    BY <1>5 DEF Size
  <1>7. n <= Size(b) /\ Size(b) \in Nat /\ Size(b) <= MaxRecords
    BY <1>1, <1>3, <1>5, <1>6 DEF UsageInv, Fits, Size
  <1>8. Delta(b, dropped) \in Counter /\ Delta(b, dropped).events = n
    BY <1>5, <1>6 DEF Delta, Counter
  <1>9. logs' = [logs EXCEPT ![s][d] = logs[s][d] + n]
    BY <1>2, <1>6
  <1>10. Table(logs) /\ Table(logs') /\ Grew(logs, logs', s, d, n)
    BY <1>4, <1>9 DEF UsageInv, UsageTypes, Table, Grew
  <1>11. UsageTypes'
    BY <1>2, <1>3, <1>8, <1>10 DEF UsageInv, UsageTypes, Table
  <1>12. /\ pc'[q] = "spawned" /\ usage'[q].events = n
         /\ \A r \in Slots : r # q => pc'[r] = pc[r] /\ usage'[r] = usage[r]
    BY <1>2, <1>3, <1>8 DEF UsageInv, UsageTypes
  <1>13. Fits'
    BY <1>3, <1>7, <1>12, ConstantsAssumption, <1>1 DEF UsageInv, Fits
  <1>14. StepOf(q)
    BY <1>3, <1>11, <1>12, <1>13 DEF StepOf
  <1>15. ASSUME NEW x \in Days
         PROVE  /\ Pending(x)[q] = 0 /\ Pending(x)'[q] = (IF x = d THEN n ELSE 0)
                /\ Passed(x)[q] = (IF x = d THEN Size(b) ELSE 0) /\ Passed(x)'[q] = 0
    BY <1>1, <1>3, <1>12 DEF Pending, Passed
  <1>16. ASSUME NEW x \in Days
         PROVE  /\ DaySum(logs, x) \in Nat /\ DaySum(daily, x) \in Nat /\ lost[x] \in Nat /\ blind[x] \in Nat
                /\ DaySum(logs', x) = DaySum(logs, x) + (IF x = d THEN n ELSE 0)
    <2>1. DaySum(logs', x) = DaySum(logs, x) + (IF x = d THEN n ELSE 0)
      BY <1>4, <1>10, DaySumGrows
    <2>2. Table(daily) /\ lost[x] \in Nat /\ blind[x] \in Nat
      BY DEF UsageInv, UsageTypes, Table
    <2>3. QED
      BY <1>10, <2>1, <2>2, DaySumNat
  <1>17. ASSUME NEW x \in Days
         PROVE  /\ DaySum(logs', x) - DaySum(logs, x)
                     = (DaySum(daily', x) - DaySum(daily, x)) + (lost'[x] - lost[x])
                         + (Pending(x)'[q] - Pending(x)[q])
                /\ DaySum(logs', x) - DaySum(logs, x) + (Passed(x)'[q] - Passed(x)[q])
                     <= (lost'[x] - lost[x]) + (blind'[x] - blind[x])
    BY <1>3, <1>7, <1>15, <1>16
  <1>18. QED
    BY <1>14, <1>17, AccountsStay DEF StepOf

\* What is pending is counted, or lost.
LEMMA CountedBooks ==
  ASSUME UsageInv, NEW q \in Slots, RecordUsage(q) \/ UsageLost(q)
  PROVE  UsageInv'
  <1>1. PICK s, d, n : s = src[q] /\ d = Day(now[q]) /\ n = usage[q].events
    OBVIOUS
  <1>2. /\ pc[q] = "spawned" /\ usage' = [usage EXCEPT ![q] = Zero]
        /\ UNCHANGED <<clock, pc, src, now, batch, logs, blind>>
    BY DEF RecordUsage, UsageLost, request, database
  <1>3. s \in Sources /\ d \in Days /\ n \in Nat
    BY <1>1, DayOf DEF UsageInv, UsageTypes, Counter
  <1>4. Zero \in Counter /\ Zero.events = 0
    BY DEF Zero, Counter
  <1>5. usage'[q].events = 0 /\ \A r \in Slots : r # q => usage'[r] = usage[r]
    BY <1>2, <1>4 DEF UsageInv, UsageTypes
  <1>6. Fits'
    BY <1>2, <1>5, ConstantsAssumption DEF UsageInv, Fits
  <1>7. ASSUME NEW x \in Days
        PROVE  /\ Pending(x)[q] = (IF x = d THEN n ELSE 0) /\ Pending(x)'[q] = 0
               /\ Passed(x)[q] = 0 /\ Passed(x)'[q] = 0
    BY <1>1, <1>2, <1>5 DEF Pending, Passed
  <1>8. ASSUME NEW x \in Days
        PROVE  /\ DaySum(logs, x) \in Nat /\ DaySum(daily, x) \in Nat /\ lost[x] \in Nat /\ blind[x] \in Nat
               /\ DaySum(logs', x) = DaySum(logs, x)
    BY <1>2, DaySumNat DEF UsageInv, UsageTypes, Table
  <1>9. CASE RecordUsage(q)
    <2>1. daily' = [daily EXCEPT ![s][d] = daily[s][d] + n] /\ UNCHANGED lost
      BY <1>1, <1>9 DEF RecordUsage
    <2>2. Table(daily) /\ Table(daily') /\ Grew(daily, daily', s, d, n)
      BY <1>3, <2>1 DEF UsageInv, UsageTypes, Table, Grew
    <2>3. UsageTypes'
      BY <1>2, <1>4, <2>1, <2>2 DEF UsageInv, UsageTypes, Table
    <2>4. StepOf(q)
      BY <1>2, <1>5, <1>6, <2>3 DEF StepOf
    <2>5. ASSUME NEW x \in Days PROVE DaySum(daily', x) = DaySum(daily, x) + (IF x = d THEN n ELSE 0)
      BY <1>3, <2>2, DaySumGrows
    <2>6. ASSUME NEW x \in Days
          PROVE  /\ DaySum(logs', x) - DaySum(logs, x)
                      = (DaySum(daily', x) - DaySum(daily, x)) + (lost'[x] - lost[x])
                          + (Pending(x)'[q] - Pending(x)[q])
                 /\ DaySum(logs', x) - DaySum(logs, x) + (Passed(x)'[q] - Passed(x)[q])
                      <= (lost'[x] - lost[x]) + (blind'[x] - blind[x])
      <3>1. lost'[x] = lost[x] /\ blind'[x] = blind[x]
        BY <1>2, <2>1
      <3>2. QED
        BY <1>3, <1>7, <1>8, <2>5, <3>1
    <2>7. QED
      BY <2>4, <2>6, AccountsStay DEF StepOf
  <1>10. CASE UsageLost(q)
    <2>1. lost' = [lost EXCEPT ![d] = lost[d] + n] /\ UNCHANGED daily
      BY <1>1, <1>10 DEF UsageLost, database
    <2>2. \A x \in Days : lost'[x] = lost[x] + (IF x = d THEN n ELSE 0)
      BY <1>3, <2>1 DEF UsageInv, UsageTypes
    <2>3. UsageTypes'
      BY <1>2, <1>3, <1>4, <2>1 DEF UsageInv, UsageTypes
    <2>4. StepOf(q)
      BY <1>2, <1>5, <1>6, <2>3 DEF StepOf
    <2>5. ASSUME NEW x \in Days
          PROVE  /\ DaySum(logs', x) - DaySum(logs, x)
                      = (DaySum(daily', x) - DaySum(daily, x)) + (lost'[x] - lost[x])
                          + (Pending(x)'[q] - Pending(x)[q])
                 /\ DaySum(logs', x) - DaySum(logs, x) + (Passed(x)'[q] - Passed(x)[q])
                      <= (lost'[x] - lost[x]) + (blind'[x] - blind[x])
      BY <1>2, <1>3, <1>7, <1>8, <2>1, <2>2
    <2>6. QED
      BY <2>4, <2>5, AccountsStay DEF StepOf
  <1>11. QED
    BY <1>9, <1>10

LEMMA InitBooks == Init => UsageInv
  <1>1. SUFFICES ASSUME Init PROVE UsageInv
    OBVIOUS
  <1>2. NoBatch \in Batch /\ Zero \in Counter /\ 0 \in Time
    BY ConstantsAssumption DEF NoBatch, Batch, Zero, Counter, Time
  <1>3. UsageTypes
    BY <1>1, <1>2 DEF Init, UsageTypes
  <1>4. Fits
    BY <1>1 DEF Init, Fits
  <1>5. IsFiniteSet(Sources) /\ IsFiniteSet(Slots)
    BY ConstantsAssumption
  <1>6. ASSUME NEW d \in Days
        PROVE  /\ Persisted(d) = 0 /\ UsedToday(d) = 0 /\ lost[d] = 0 /\ blind[d] = 0
               /\ SumFunction(Pending(d)) = 0 /\ SumFunction(Passed(d)) = 0
    <2>1. PICK z : z = [s \in Sources |-> 0]
      OBVIOUS
    <2>2. PICK y : y = [q \in Slots |-> 0]
      OBVIOUS
    <2>3. SumFunction(z) = 0
      BY <1>5, <2>1, SumZero
    <2>4. SumFunction(y) = 0
      BY <1>5, <2>2, SumZero
    <2>5. [s \in Sources |-> logs[s][d]] = z /\ [s \in Sources |-> daily[s][d]] = z
      BY <1>1, <2>1 DEF Init
    <2>6. Pending(d) = y /\ Passed(d) = y
      BY <1>1, <2>2 DEF Init, Pending, Passed
    <2>7. lost[d] = 0 /\ blind[d] = 0
      BY <1>1 DEF Init
    <2>8. QED
      BY <2>3, <2>4, <2>5, <2>6, <2>7 DEF Persisted, UsedToday
  <1>7. Balanced
    BY <1>6 DEF Balanced
  <1>8. Bounded
    <2>1. SUFFICES ASSUME NEW d \in Days, Quota > 0
                   PROVE  0 + 0 <= Quota - 1 + Cardinality(Slots) * MaxRecords + 0 + 0
      BY <1>6 DEF Bounded
    <2>2. Cardinality(Slots) \in Nat /\ MaxRecords \in Nat /\ Quota \in Int
      BY <1>5, ConstantsAssumption, FS_CardinalityType
    <2>3. Cardinality(Slots) * MaxRecords \in Nat
      BY <2>2
    <2>4. QED
      BY <2>1, <2>2, <2>3
  <1>9. QED
    BY <1>3, <1>4, <1>7, <1>8 DEF UsageInv

LEMMA NextBooks == UsageInv /\ [Next]_vars => UsageInv'
  <1>1. SUFFICES ASSUME UsageInv, [Next]_vars PROVE UsageInv'
    OBVIOUS
  <1>2. ASSUME UNCHANGED <<pc, request, usage, logs, daily, lost, blind>>, clock' \in Time
        PROVE  UsageInv'
    <2>1. UNCHANGED <<pc, src, now, batch, usage, logs, daily, lost, blind>>
      BY <1>2 DEF request
    <2>2. UsageTypes' /\ Fits'
      BY <1>1, <1>2, <2>1 DEF UsageInv, UsageTypes, Fits
    <2>3. Balanced'
      BY <1>1, <2>1 DEF UsageInv, Balanced, Persisted, UsedToday, Pending
    <2>4. Bounded'
      BY <1>1, <2>1 DEF UsageInv, Bounded, Persisted, Passed
    <2>5. QED
      BY <2>2, <2>3, <2>4 DEF UsageInv
  <1>3. CASE UNCHANGED vars
    BY <1>1, <1>2, <1>3 DEF vars, routines, database, UsageInv, UsageTypes
  <1>4. CASE Tick
    BY <1>1, <1>2, <1>4, ConstantsAssumption DEF Tick, routines, database, UsageInv, UsageTypes, Time
  <1>5. ASSUME NEW q \in Slots, NEW s \in Sources, NEW b \in Batches, Arrive(q, s, b) PROVE UsageInv'
    BY <1>1, <1>5, ArriveBooks
  <1>6. ASSUME NEW q \in Slots, Throttle(q) \/ PersistFails(q) \/ Done(q) PROVE UsageInv'
    <2>1. /\ Respond(q) /\ UNCHANGED <<clock, usage, logs, daily, lost, blind>>
          /\ pc[q] = "spawned" => usage[q] = Zero
      BY <1>6 DEF Throttle, PersistFails, Done, routines, database
    <2>2. QED
      BY <1>1, <2>1, RespondBooks
  <1>7. ASSUME NEW q \in Slots, Admit(q) \/ CheckQuota(q) \/ Persist(q) PROVE UsageInv'
    BY <1>1, <1>7, AdmitBooks, CheckQuotaBooks, PersistBooks
  <1>8. ASSUME NEW q \in Slots, RecordUsage(q) \/ UsageLost(q) PROVE UsageInv'
    BY <1>1, <1>8, CountedBooks
  <1>9. ASSUME NEW q \in Slots, CountRejects(q) \/ StoreRejects(q) \/ TouchLastSeen(q) \/ RoutineFails(q)
        PROVE  UsageInv'
    BY <1>1, <1>9, RoutineBooks
  <1>10. QED
    BY <1>1, <1>3, <1>4, <1>5, <1>6, <1>7, <1>8, <1>9 DEF Next

\* No event is counted twice or forgotten: over the sources, what a day stored is what was
\* counted, what is about to be counted and what was lost, for any number of sources and
\* requests.
THEOREM EveryEventIsAccountedFor == Spec => []UsageConserved
  <1>1. UsageInv => UsageConserved
    <2>1. SUFFICES ASSUME UsageInv, NEW d \in Days
                   PROVE  Persisted(d) = UsedToday(d) + lost[d]
                                           + SumFunction([s \in Sources |-> Uncounted(s, d)])
      BY DEF UsageConserved
    <2>2. PICK f : f = Pending(d)
      OBVIOUS
    <2>3. f \in [Slots -> Int] /\ src \in [Slots -> Sources]
      BY <2>1, <2>2 DEF UsageInv, UsageTypes, Pending, Counter
    <2>4. IsFiniteSet(Slots) /\ IsFiniteSet(Sources)
      BY ConstantsAssumption
    <2>5. SumFunction([s \in Sources |-> SumFunction([q \in Slots |-> IF src[q] = s THEN f[q] ELSE 0])])
            = SumFunction(f)
      BY <2>3, <2>4, SumByClass
    <2>6. ASSUME NEW s \in Sources
          PROVE  Uncounted(s, d) = SumFunction([q \in Slots |-> IF src[q] = s THEN f[q] ELSE 0])
      <3>1. ASSUME NEW q \in Slots
            PROVE  (IF pc[q] = "spawned" /\ src[q] = s /\ Day(now[q]) = d THEN usage[q].events ELSE 0)
                     = (IF src[q] = s THEN f[q] ELSE 0)
        BY <2>2 DEF Pending
      <3>2. [q \in Slots |-> IF pc[q] = "spawned" /\ src[q] = s /\ Day(now[q]) = d
                             THEN usage[q].events ELSE 0]
              = [q \in Slots |-> IF src[q] = s THEN f[q] ELSE 0]
        BY <3>1
      <3>3. QED
        BY <3>2 DEF Uncounted
    <2>7. [s \in Sources |-> Uncounted(s, d)]
            = [s \in Sources |-> SumFunction([q \in Slots |-> IF src[q] = s THEN f[q] ELSE 0])]
      BY <2>6
    <2>8. QED
      BY <2>1, <2>2, <2>5, <2>7 DEF UsageInv, Balanced
  <1>2. QED
    BY <1>1, InitBooks, NextBooks, PTL DEF Spec

\* A day's quota is overshot by at most one batch for every request under way, what was
\* let through unread and what went uncounted, for any quota and any number of requests.
THEOREM QuotaOvershootIsBounded == Spec => []QuotaOvershootBounded
  <1>1. UsageInv => QuotaOvershootBounded
    <2>1. SUFFICES ASSUME UsageInv, NEW d \in Days, Quota > 0
                   PROVE  Persisted(d) <= Quota - 1 + Cardinality(Slots) * MaxRecords + lost[d] + blind[d]
      BY DEF QuotaOvershootBounded
    <2>2. PICK h : h = Passed(d)
      OBVIOUS
    <2>3. h \in [Slots -> Nat] /\ IsFiniteSet(Slots)
      BY <2>1, <2>2, ConstantsAssumption DEF UsageInv, UsageTypes, Passed, Batch, Size
    <2>4. SumFunction(h) \in Nat
      BY <2>3, SumNat
    <2>5. PICK top \in Int : top = Cardinality(Slots) * MaxRecords
      BY <2>3, ConstantsAssumption, FS_CardinalityType
    <2>6. Persisted(d) \in Nat /\ lost[d] \in Nat /\ blind[d] \in Nat /\ Quota \in Int
      <3>1. Table(logs) /\ lost[d] \in Nat /\ blind[d] \in Nat /\ Quota \in Int
        BY <2>1, ConstantsAssumption DEF UsageInv, UsageTypes, Table
      <3>2. DaySum(logs, d) \in Nat
        BY <2>1, <3>1, DaySumNat
      <3>3. QED
        BY <3>1, <3>2 DEF Persisted, DaySum
    <2>7. Persisted(d) + SumFunction(h) <= Quota - 1 + top + lost[d] + blind[d]
      BY <2>1, <2>2, <2>5 DEF UsageInv, Bounded
    <2>8. QED
      BY <2>4, <2>5, <2>6, <2>7
  <1>2. QED
    BY <1>1, InitBooks, NextBooks, PTL DEF Spec
-----------------------------------------------------------------------------
(* AppIngest: entries go where their caller may write.                     *)

\* AppTypes of what the argument is about.
Stages == {"idle", "lookup", "access", "quota", "insert", "counting"}

Request == [stage: Stages, by: Callers \cup {"none"}, entries: Bodies \cup {NoEntries},
            todo: SUBSET (Projects \cup OwnersOf(Projects)), day: DaysOfUse]

AppTypes ==
    /\ today \in DaysOfUse
    /\ call \in [Calls -> Request]
    /\ rows \in [Projects -> Nat]
    /\ entitled \in [Calls -> SUBSET Projects]

\* The projects of call c that its lookups have cleared, and those its caller may write
Cleared(c) ==
    {p \in Named(c) : \/ call[c].stage = "lookup" /\ p \notin call[c].todo
                      \/ call[c].stage \in {"access", "quota", "insert"}}

Authorized(c) ==
    {p \in Named(c) : \/ call[c].stage = "access" /\ p \notin call[c].todo
                      \/ call[c].stage \in {"quota", "insert"}}

\* What the stages a request has been through established still holds of it, whatever
\* happened since: nobody else writes entitled[c] except to add to it.
Vouched ==
    \A c \in Calls :
        /\ \A p \in Cleared(c) : Owner[p] \notin suspended
        /\ call[c].by \notin SuperAdmins => Authorized(c) \subseteq entitled[c]

\* What a caller can reach now is part of what it could reach since its request arrived.
Reach ==
    \A c \in Calls, p \in Projects :
        call[c].stage # "idle" /\ HasAccess(call[c].by, p) => p \in entitled[c]

\* The inductive invariant.
AppInv == AppTypes /\ Vouched /\ Reach
----------------------------------------------------------------------------
\* A batch names projects and carries a number of entries for each.
LEMMA NamedProjects ==
    ASSUME AppTypes, NEW c \in Calls
    PROVE  /\ Named(c) \subseteq Projects
           /\ \A p \in Named(c) : call[c].entries[p] \in Nat
           /\ OwnersOf(Named(c)) \subseteq OwnersOf(Projects)
  <1>1. call[c].entries \in Bodies \cup {NoEntries}
    BY DEF AppTypes, Request
  <1>2. CASE call[c].entries = NoEntries
    BY <1>2 DEF Named, NoEntries, OwnersOf
  <1>3. CASE call[c].entries \in Bodies
    <2>1. PICK named \in SUBSET Projects \ {{}} : call[c].entries \in [named -> 1 .. MaxEntries]
      BY <1>3 DEF Bodies
    <2>2. QED BY <2>1, AppIngestAssumption DEF Named, OwnersOf
  <1>4. QED BY <1>1, <1>2, <1>3

\* No request is under way.
LEMMA AppInitOK == AppInit => AppInv
  <1> SUFFICES ASSUME AppInit PROVE AppInv
    OBVIOUS
  <1>1. NoCall \in Request
    BY AppIngestAssumption DEF NoCall, Request, Stages, DaysOfUse
  <1>2. AppTypes
    BY <1>1, AppIngestAssumption DEF AppInit, AppTypes, DaysOfUse
  <1>3. Vouched
    BY DEF AppInit, Vouched, Cleared, Authorized, NoCall
  <1>4. Reach
    BY DEF AppInit, Reach, NoCall
  <1>5. QED BY <1>2, <1>3, <1>4 DEF AppInv

\* An answered request leaves a slot that vouches for nothing.
LEMMA TurnedAway ==
    ASSUME AppInv, NEW c \in Calls, TurnAway(c), UNCHANGED <<today, suspended, alive, access>>,
           rows' \in [Projects -> Nat]
    PROVE  AppInv'
  <1>1. NoCall \in Request
    BY AppIngestAssumption DEF NoCall, Request, Stages, DaysOfUse
  <1>2. AppTypes'
    BY <1>1 DEF AppInv, AppTypes, TurnAway
  <1>3. \A x \in Calls : x # c => /\ call'[x] = call[x] /\ entitled'[x] = entitled[x]
    BY DEF AppInv, AppTypes, TurnAway
  <1>4. call'[c].stage = "idle"
    BY DEF AppInv, AppTypes, TurnAway, NoCall
  <1>5. Vouched'
    BY <1>3, <1>4 DEF AppInv, Vouched, Cleared, Authorized, Named
  <1>6. Reach'
    BY <1>3, <1>4 DEF AppInv, Reach, HasAccess
  <1>7. QED BY <1>2, <1>5, <1>6 DEF AppInv

\* A request that changes its stage keeps what it vouches for when the new stage
\* vouches for no more than has been established.
LEMMA Entered ==
    ASSUME AppInv, NEW c \in Calls, NEW s \in Stages, NEW todo \in SUBSET (Projects \cup OwnersOf(Projects)),
           Enter(c, s, todo), UNCHANGED <<today, suspended, alive, access, rows, entitled>>,
           call[c].stage # "idle",
           \A p \in Cleared(c)' : Owner[p] \notin suspended,
           call[c].by \notin SuperAdmins => Authorized(c)' \subseteq entitled[c]
    PROVE  AppInv'
  <1>1. AppTypes'
    BY DEF AppInv, AppTypes, Enter, Request
  <1>2. \A x \in Calls : x # c => call'[x] = call[x]
    BY DEF AppInv, AppTypes, Enter
  <1>3. call'[c].by = call[c].by
    BY DEF AppInv, AppTypes, Enter, Request
  <1>4. Vouched'
    BY <1>2, <1>3 DEF AppInv, Vouched, Cleared, Authorized, Named
  <1>5. Reach'
    BY <1>2, <1>3 DEF AppInv, Reach, HasAccess
  <1>6. QED BY <1>1, <1>4, <1>5 DEF AppInv

\* A lookup clears its project; the last one leads to authorization, or past it.
LEMMA LookUpOK ==
    ASSUME AppInv, NEW c \in Calls, NEW p \in Projects, LookUp(c, p)
    PROVE  AppInv'
  <1> USE DEF LookUp
  <1>1. CASE p \in alive /\ Owner[p] \notin suspended
    <2>1. Named(c) \subseteq Projects /\ OwnersOf(Named(c)) \subseteq OwnersOf(Projects)
      BY NamedProjects DEF AppInv
    <2>2. call[c].todo \subseteq Projects \cup OwnersOf(Projects)
      BY DEF AppInv, AppTypes, Request
    <2>3. \A x \in Named(c) : x \notin call[c].todo \ {p} => Owner[x] \notin suspended
      BY <1>1 DEF AppInv, Vouched, Cleared
    <2>4. ASSUME NEW s \in Stages, NEW todo \in SUBSET (Projects \cup OwnersOf(Projects)),
                 Enter(c, s, todo)
          PROVE  /\ Named(c)' = Named(c) /\ call'[c].stage = s /\ call'[c].todo = todo
      BY <2>4 DEF AppInv, AppTypes, Enter, Request, Named
    <2>5. CASE call[c].todo # {p}
      <3>1. Enter(c, "lookup", call[c].todo \ {p})
        BY <1>1, <2>5 DEF Proceed
      <3>2. QED BY <3>1, <2>2, <2>3, <2>4, <1>1, Entered DEF Stages, Cleared, Authorized
    <2>6. CASE call[c].todo = {p} /\ call[c].by \in SuperAdmins
      <3>1. Enter(c, "quota", OwnersOf(Named(c)))
        BY <1>1, <2>6 DEF Proceed
      <3>2. QED BY <3>1, <2>1, <2>3, <2>4, <2>6, <1>1, Entered DEF Stages, Cleared
    <2>7. CASE call[c].todo = {p} /\ call[c].by \notin SuperAdmins
      <3>1. Enter(c, "access", Named(c))
        BY <1>1, <2>7 DEF Proceed, ToAuthorize
      <3>2. QED BY <3>1, <2>1, <2>3, <2>4, <2>7, <1>1, Entered DEF Stages, Cleared, Authorized
    <2>8. QED BY <2>5, <2>6, <2>7
  <1>2. CASE ~(p \in alive /\ Owner[p] \notin suspended)
    BY <1>2, TurnedAway DEF AppInv, AppTypes
  <1>3. QED BY <1>1, <1>2

\* Access that holds now is among what the caller could reach, so it may be vouched for.
LEMMA AuthorizeOK ==
    ASSUME AppInv, NEW c \in Calls, NEW p \in Projects, Authorize(c, p)
    PROVE  AppInv'
  <1> USE DEF Authorize
  <1>1. CASE HasAccess(call[c].by, p)
    <2>1. Named(c) \subseteq Projects /\ OwnersOf(Named(c)) \subseteq OwnersOf(Projects)
      BY NamedProjects DEF AppInv
    <2>2. call[c].todo \subseteq Projects \cup OwnersOf(Projects)
      BY DEF AppInv, AppTypes, Request
    <2>3. \A x \in Named(c) : Owner[x] \notin suspended
      BY DEF AppInv, Vouched, Cleared
    <2>4. call[c].by \notin SuperAdmins =>
            \A x \in Named(c) : x \notin call[c].todo \ {p} => x \in entitled[c]
      BY <1>1 DEF AppInv, Vouched, Reach, Authorized
    <2>5. ASSUME NEW s \in Stages, NEW todo \in SUBSET (Projects \cup OwnersOf(Projects)),
                 Enter(c, s, todo)
          PROVE  /\ Named(c)' = Named(c) /\ call'[c].stage = s /\ call'[c].todo = todo
      BY <2>5 DEF AppInv, AppTypes, Enter, Request, Named
    <2>6. CASE call[c].todo # {p}
      <3>1. Enter(c, "access", call[c].todo \ {p})
        BY <1>1, <2>6 DEF Proceed
      <3>2. QED BY <3>1, <2>2, <2>3, <2>4, <2>5, <1>1, Entered DEF Stages, Cleared, Authorized
    <2>7. CASE call[c].todo = {p}
      <3>1. Enter(c, "quota", OwnersOf(Named(c)))
        BY <1>1, <2>7 DEF Proceed
      <3>2. QED BY <3>1, <2>1, <2>3, <2>4, <2>5, <2>7, <1>1, Entered DEF Stages, Cleared, Authorized
    <2>8. QED BY <2>6, <2>7
  <1>2. CASE ~HasAccess(call[c].by, p)
    BY <1>2, TurnedAway DEF AppInv, AppTypes
  <1>3. QED BY <1>1, <1>2

\* The quota adds nothing to what is vouched for and takes nothing from it.
LEMMA CheckAppQuotaOK ==
    ASSUME AppInv, NEW c \in Calls, NEW o \in OwnersOf(Projects), CheckAppQuota(c, o)
    PROVE  AppInv'
  <1> USE DEF CheckAppQuota
  <1>1. CASE TurnAway(c)
    BY <1>1, TurnedAway DEF AppInv, AppTypes
  <1>2. CASE Proceed(c, o, "insert", {}) /\ UNCHANGED entitled
    <2>1. /\ \A x \in Named(c) : Owner[x] \notin suspended
          /\ call[c].by \notin SuperAdmins => Named(c) \subseteq entitled[c]
      BY DEF AppInv, Vouched, Cleared, Authorized
    <2>2. PICK s \in {"quota", "insert"}, todo \in SUBSET (Projects \cup OwnersOf(Projects)) :
            Enter(c, s, todo)
      <3>1. call[c].todo \subseteq Projects \cup OwnersOf(Projects)
        BY DEF AppInv, AppTypes, Request
      <3>2. CASE call[c].todo = {o}
        BY <1>2, <3>2 DEF Proceed
      <3>3. CASE call[c].todo # {o}
        <4>1. Enter(c, "quota", call[c].todo \ {o})
          BY <1>2, <3>3 DEF Proceed
        <4>2. QED BY <4>1, <3>1
      <3>4. QED BY <3>2, <3>3
    <2>3. Named(c)' = Named(c)
      BY <2>2 DEF AppInv, AppTypes, Enter, Request, Named
    <2>4. QED BY <1>2, <2>1, <2>2, <2>3, Entered DEF Stages, Cleared, Authorized
  <1>3. QED BY <1>1, <1>2

\* After the insert a request vouches for nothing any more.
LEMMA BulkCreateOK ==
    ASSUME AppInv, NEW c \in Calls, BulkCreate(c)
    PROVE  AppInv'
  <1> USE DEF BulkCreate
  <1>1. Named(c) \subseteq Projects /\ \A p \in Named(c) : call[c].entries[p] \in Nat
    BY NamedProjects DEF AppInv
  <1>2. rows' \in [Projects -> Nat]
    BY <1>1 DEF AppInv, AppTypes
  <1>3. call' \in [Calls -> Request]
    BY <1>1 DEF AppInv, AppTypes, Request, Stages
  <1>4. \A x \in Calls : x # c => call'[x] = call[x]
    BY DEF AppInv, AppTypes
  <1>5. call'[c].stage = "counting" /\ call'[c].by = call[c].by
    BY DEF AppInv, AppTypes, Request
  <1>6. Vouched'
    BY <1>4, <1>5 DEF AppInv, Vouched, Cleared, Authorized, Named
  <1>7. Reach'
    BY <1>4, <1>5 DEF AppInv, Reach, HasAccess
  <1>8. QED BY <1>2, <1>3, <1>6, <1>7 DEF AppInv, AppTypes

\* A statement of the goroutine
LEMMA CountedOK ==
    ASSUME AppInv, NEW c \in Calls, NEW p \in Projects, Counted(c, p), call[c].stage = "counting",
           UNCHANGED <<today, suspended, alive, access, rows>>
    PROVE  AppInv'
  <1>1. CASE call[c].todo = {p}
    BY <1>1, TurnedAway DEF Counted, AppInv, AppTypes
  <1>2. CASE call[c].todo # {p}
    <2>1. Enter(c, "counting", call[c].todo \ {p}) /\ UNCHANGED entitled
      BY <1>2 DEF Counted
    <2>2. call[c].todo \ {p} \subseteq Projects \cup OwnersOf(Projects)
      BY DEF AppInv, AppTypes, Request
    <2>3. call'[c].stage = "counting"
      BY <2>1 DEF AppInv, AppTypes, Enter, Request
    <2>4. QED BY <2>1, <2>2, <2>3, Entered DEF Stages, Cleared, Authorized
  <1>3. QED BY <1>1, <1>2

\* A request starts with nothing cleared and all that its caller can reach.
LEMMA IngestOK ==
    ASSUME AppInv, NEW c \in Calls, NEW u \in Callers, NEW body \in Bodies, Ingest(c, u, body)
    PROVE  AppInv'
  <1> USE DEF Ingest
  <1>1. DOMAIN body \subseteq Projects
    BY DEF Bodies
  <1>2. AppTypes'
    <2>1. [stage |-> "lookup", by |-> u, entries |-> body, todo |-> DOMAIN body, day |-> 0] \in Request
      BY <1>1, AppIngestAssumption DEF Request, Stages, DaysOfUse
    <2>2. QED BY <2>1 DEF AppInv, AppTypes
  <1>3. \A x \in Calls : x # c => call'[x] = call[x] /\ entitled'[x] = entitled[x]
    BY DEF AppInv, AppTypes
  <1>4. /\ call'[c].stage = "lookup" /\ call'[c].by = u
        /\ Named(c)' = call'[c].todo
        /\ entitled'[c] = {p \in Projects : HasAccess(u, p)}
    BY DEF AppInv, AppTypes, Named
  <1>5. Vouched'
    BY <1>3, <1>4 DEF AppInv, Vouched, Cleared, Authorized, Named
  <1>6. Reach'
    BY <1>3, <1>4 DEF AppInv, Reach, HasAccess
  <1>7. QED BY <1>2, <1>5, <1>6 DEF AppInv

\* Steps of others, which leave every request where it is: what is taken away does
\* not matter, and what is given is recorded.
LEMMA OtherCallsOK ==
    ASSUME AppInv,
           \/ \E u \in Callers, p \in Projects : GrantAccess(u, p) \/ RevokeAccess(u, p)
           \/ \E p \in Projects : DropProject(p)
           \/ Midnight
    PROVE  AppInv'
  <1>1. CASE \E u \in Callers, p \in Projects : GrantAccess(u, p)
    <2>1. PICK u \in Callers, p \in Projects : GrantAccess(u, p)
      BY <1>1
    <2>2. \A x \in Calls : /\ entitled[x] \subseteq entitled'[x] /\ entitled'[x] \subseteq Projects
                           /\ call[x].stage # "idle" /\ call[x].by = u => p \in entitled'[x]
      BY <2>1 DEF GrantAccess, AppInv, AppTypes
    <2>3. AppTypes'
      BY <2>1 DEF GrantAccess, AppInv, AppTypes
    <2>4. Vouched'
      BY <2>1, <2>2 DEF GrantAccess, AppInv, Vouched, Cleared, Authorized, Named
    <2>5. \A v, x : HasAccess(v, x)' => HasAccess(v, x) \/ (v = u /\ x = p)
      BY <2>1 DEF GrantAccess, HasAccess
    <2>6. Reach'
      BY <2>1, <2>2, <2>5 DEF GrantAccess, AppInv, Reach
    <2>7. QED BY <2>3, <2>4, <2>6 DEF AppInv
  <1>2. CASE \E u \in Callers, p \in Projects : RevokeAccess(u, p)
    BY <1>2 DEF RevokeAccess, AppInv, AppTypes, Vouched, Cleared, Authorized, Named, Reach, HasAccess
  <1>3. CASE \E p \in Projects : DropProject(p)
    <2>1. AppTypes'
      BY <1>3 DEF DropProject, AppInv, AppTypes
    <2>2. Vouched'
      BY <1>3 DEF DropProject, AppInv, Vouched, Cleared, Authorized, Named
    <2>3. Reach'
      BY <1>3 DEF DropProject, AppInv, Reach, HasAccess
    <2>4. QED BY <2>1, <2>2, <2>3 DEF AppInv
  <1>4. CASE Midnight
    <2>1. today' \in DaysOfUse
      BY <1>4, AppIngestAssumption DEF Midnight, AppInv, AppTypes, DaysOfUse
    <2>2. QED BY <1>4, <2>1 DEF Midnight, AppInv, AppTypes, Vouched, Cleared, Authorized, Named, Reach, HasAccess
  <1>5. QED BY <1>1, <1>2, <1>3, <1>4

\* Every step preserves the invariant.
LEMMA AppNextOK == AppInv /\ [AppNext]_appVars => AppInv'
  <1> SUFFICES ASSUME AppInv, [AppNext]_appVars PROVE AppInv'
    OBVIOUS
  <1>1. ASSUME NEW c \in Calls, NEW u \in Callers, NEW body \in Bodies, Ingest(c, u, body) PROVE AppInv'
    BY <1>1, IngestOK
  <1>2. ASSUME NEW c \in Calls, NEW p \in Projects, LookUp(c, p) PROVE AppInv'
    BY <1>2, LookUpOK
  <1>3. ASSUME NEW c \in Calls, NEW p \in Projects, Authorize(c, p) PROVE AppInv'
    BY <1>3, AuthorizeOK
  <1>4. ASSUME NEW c \in Calls, NEW p \in Projects, RecordApp(c, p) PROVE AppInv'
    BY <1>4, CountedOK DEF RecordApp
  <1>5. ASSUME NEW c \in Calls, NEW p \in Projects, AppUsageLost(c, p) PROVE AppInv'
    BY <1>5, CountedOK DEF AppUsageLost
  <1>6. ASSUME NEW c \in Calls, CheckFails(c) PROVE AppInv'
    BY <1>6, TurnedAway DEF CheckFails, AppInv, AppTypes
  <1>7. ASSUME NEW c \in Calls, NEW o \in OwnersOf(Projects), CheckAppQuota(c, o) PROVE AppInv'
    BY <1>7, CheckAppQuotaOK
  <1>8. ASSUME NEW c \in Calls, BulkCreate(c) PROVE AppInv'
    BY <1>8, BulkCreateOK
  <1>9. ASSUME NEW c \in Calls, BulkCreateFails(c) PROVE AppInv'
    BY <1>9, TurnedAway DEF BulkCreateFails, AppInv, AppTypes
  <1>10. CASE UNCHANGED appVars
    BY <1>10 DEF appVars, AppInv, AppTypes, Vouched, Cleared, Authorized, Named, Reach, HasAccess
  <1>11. CASE \/ \E u \in Callers \ SuperAdmins, p \in Projects : GrantAccess(u, p) \/ RevokeAccess(u, p)
              \/ \E p \in Projects : DropProject(p)
              \/ Midnight
    BY <1>11, OtherCallsOK
  <1>12. QED
    BY <1>1, <1>2, <1>3, <1>4, <1>5, <1>6, <1>7, <1>8, <1>9, <1>10, <1>11 DEF AppNext

\* rows grow in BulkCreate alone, and only for the projects of the batch.
LEMMA OnlyBulkCreateWrites ==
    ASSUME AppInv, [AppNext]_appVars, NEW p \in Projects, rows'[p] > rows[p]
    PROVE  \E c \in Calls : BulkCreate(c) /\ p \in Named(c)
  <1>1. rows[p] \in Nat
    BY DEF AppInv, AppTypes
  <1>2. rows'[p] # rows[p]
    BY <1>1
  <1>3. ASSUME NEW x \in Projects, DropProject(x) PROVE FALSE
    BY <1>1, <1>3 DEF DropProject, AppInv, AppTypes
  <1>4. PICK c \in Calls : BulkCreate(c)
    BY <1>2, <1>3 DEF AppNext, appVars, Ingest, LookUp, Authorize, RecordApp, AppUsageLost, CheckFails,
         CheckAppQuota, BulkCreateFails, GrantAccess, RevokeAccess, Midnight
  <1>5. p \in Named(c)
    BY <1>1, <1>2, <1>4 DEF BulkCreate
  <1>6. QED BY <1>4, <1>5

\* Entries are written only to projects their caller could reach since the request
\* arrived, for any number of requests, callers and projects.
THEOREM BatchesStayWithinAccess == AppSpec => WrittenWhereAllowed
  <1>1. AppInv /\ [AppNext]_appVars =>
          [\A p \in Projects : rows'[p] > rows[p] =>
             \E c \in Calls : /\ call[c].stage = "insert" /\ p \in Named(c)
                              /\ call[c].by \in SuperAdmins \/ p \in entitled[c]
                              /\ p \in alive /\ Owner[p] \notin suspended]_appVars
    <2> SUFFICES ASSUME AppInv, [AppNext]_appVars, NEW p \in Projects, rows'[p] > rows[p]
                 PROVE  \E c \in Calls : /\ call[c].stage = "insert" /\ p \in Named(c)
                                         /\ call[c].by \in SuperAdmins \/ p \in entitled[c]
                                         /\ p \in alive /\ Owner[p] \notin suspended
      OBVIOUS
    <2>1. PICK c \in Calls : BulkCreate(c) /\ p \in Named(c)
      BY OnlyBulkCreateWrites
    <2>2. call[c].stage = "insert" /\ Named(c) \subseteq alive
      BY <2>1 DEF BulkCreate
    <2>3. /\ Owner[p] \notin suspended
          /\ call[c].by \in SuperAdmins \/ p \in entitled[c]
      BY <2>1, <2>2 DEF AppInv, Vouched, Cleared, Authorized
    <2>4. QED BY <2>1, <2>2, <2>3
  <1>2. QED
    BY AppInitOK, AppNextOK, <1>1, PTL DEF AppSpec, WrittenWhereAllowed

-----------------------------------------------------------------------------
(* AppIngest: the counters of app logs account for every entry, for any number *)
(* of requests and projects.                                                   *)

BookTypes ==
    /\ alive \subseteq Projects
    /\ metered \in [Projects -> [DaysOfUse -> Nat]] /\ unmetered \in [Projects -> Nat]

\* What a goroutine has left to count is of its batch.
ToCount == \A c \in Calls : call[c].stage = "counting" => call[c].todo \subseteq Named(c)

\* What the goroutine of each request has yet to count of project p
Owed(p) == [c \in Calls |-> IF call[c].stage = "counting" /\ p \in call[c].todo
                            THEN call[c].entries[p] ELSE 0]

AppBalanced ==
    \A p \in alive : rows[p] = SumFunction(metered[p]) + unmetered[p] + SumFunction(Owed(p))

\* The inductive invariant.
AppBooks == AppInv /\ BookTypes /\ ToCount /\ AppBalanced

LEMMA FiniteDays == IsFiniteSet(DaysOfUse)
BY AppIngestAssumption, FS_Interval DEF DaysOfUse

LEMMA OwedNat ==
  ASSUME AppTypes, ToCount, NEW p
  PROVE  Owed(p) \in [Calls -> Nat]
  <1>1. ASSUME NEW c \in Calls PROVE Owed(p)[c] \in Nat
    BY NamedProjects DEF Owed, ToCount
  <1>2. QED
    BY <1>1 DEF Owed

LEMMA OwedNatNext ==
  ASSUME AppTypes', ToCount', NEW p
  PROVE  Owed(p)' \in [Calls -> Nat]
  <1>1. ASSUME NEW c \in Calls, call'[c].stage = "counting", p \in call'[c].todo
        PROVE  call'[c].entries[p] \in Nat
    <2>1. p \in DOMAIN call'[c].entries
      BY <1>1 DEF ToCount, Named
    <2>2. call'[c].entries \in Bodies \cup {NoEntries}
      BY DEF AppTypes, Request
    <2>3. call'[c].entries \in Bodies
      BY <2>1, <2>2 DEF NoEntries
    <2>4. PICK named \in SUBSET Projects \ {{}} : call'[c].entries \in [named -> 1 .. MaxEntries]
      BY <2>3 DEF Bodies
    <2>5. QED
      BY <2>1, <2>4, AppIngestAssumption
  <1>2. QED
    BY <1>1 DEF Owed

\* A step of one request moves entries from one account to another.
LEMMA AppAccountsStay ==
  ASSUME AppBooks, NEW c \in Calls, AppInv', BookTypes', ToCount', alive' \subseteq alive,
         \A x \in Calls : x # c => call'[x] = call[x],
         \A p \in alive' :
             rows'[p] - rows[p] = (SumFunction(metered'[p]) - SumFunction(metered[p]))
                                    + (unmetered'[p] - unmetered[p]) + (Owed(p)'[c] - Owed(p)[c])
  PROVE  AppBooks'
  <1>1. SUFFICES ASSUME NEW p \in alive'
                 PROVE  rows'[p] = SumFunction(metered'[p]) + unmetered'[p] + SumFunction(Owed(p)')
    BY DEF AppBooks, AppBalanced
  <1>2. PICK f, h : f = Owed(p) /\ h = Owed(p)'
    OBVIOUS
  <1>3. f \in [Calls -> Nat] /\ h \in [Calls -> Nat]
    BY <1>2, OwedNat, OwedNatNext DEF AppBooks, AppInv
  <1>4. f \in [Calls -> Int] /\ h \in [Calls -> Int]
    BY <1>3
  <1>5. \A x \in Calls : x # c => h[x] = f[x]
    BY <1>2 DEF Owed
  <1>6. IsFiniteSet(Calls)
    BY AppIngestAssumption
  <1>7. SumFunction(f) \in Int /\ SumFunction(h) = SumFunction(f) + (h[c] - f[c])
    BY <1>4, <1>5, <1>6, SumChanges
  <1>8. p \in Projects /\ p \in alive
    BY DEF AppBooks, BookTypes
  <1>9. IsFiniteSet(DaysOfUse)
    BY FiniteDays
  <1>10. SumFunction(metered[p]) \in Nat /\ SumFunction(metered'[p]) \in Nat
    <2>1. metered[p] \in [DaysOfUse -> Nat] /\ metered'[p] \in [DaysOfUse -> Nat]
      BY <1>8 DEF AppBooks, BookTypes
    <2>2. QED
      BY <1>9, <2>1, SumNat
  <1>11. /\ rows[p] \in Nat /\ rows'[p] \in Nat /\ unmetered[p] \in Nat /\ unmetered'[p] \in Nat
         /\ f[c] \in Nat /\ h[c] \in Nat
    BY <1>3, <1>8 DEF AppBooks, AppInv, AppTypes, BookTypes
  <1>12. rows[p] = SumFunction(metered[p]) + unmetered[p] + SumFunction(f)
    BY <1>2, <1>8 DEF AppBooks, AppBalanced
  <1>13. rows'[p] - rows[p] = (SumFunction(metered'[p]) - SumFunction(metered[p]))
                                + (unmetered'[p] - unmetered[p]) + (h[c] - f[c])
    BY <1>2
  <1>14. rows'[p] = SumFunction(metered'[p]) + unmetered'[p] + SumFunction(h)
    BY <1>7, <1>10, <1>11, <1>12, <1>13
  <1>15. QED
    BY <1>2, <1>14

\* Steps of a request that neither counts nor is about to
LEMMA NothingOwed ==
  ASSUME AppBooks, NEW c \in Calls, AppInv', UNCHANGED <<alive, rows, metered, unmetered>>,
         \A x \in Calls : x # c => call'[x] = call[x],
         call[c].stage # "counting", call'[c].stage # "counting"
  PROVE  AppBooks'
  <1>1. BookTypes' /\ alive' \subseteq alive
    BY DEF AppBooks, BookTypes
  <1>2. ToCount'
    BY DEF AppBooks, ToCount, Named
  <1>3. ASSUME NEW p \in alive'
        PROVE  rows'[p] - rows[p] = (SumFunction(metered'[p]) - SumFunction(metered[p]))
                                      + (unmetered'[p] - unmetered[p]) + (Owed(p)'[c] - Owed(p)[c])
    <2>1. Owed(p)'[c] = 0 /\ Owed(p)[c] = 0
      BY DEF Owed
    <2>2. p \in Projects /\ rows[p] \in Nat /\ unmetered[p] \in Nat
      BY DEF AppBooks, AppInv, AppTypes, BookTypes
    <2>3. metered[p] \in [DaysOfUse -> Nat]
      BY <2>2 DEF AppBooks, BookTypes
    <2>4. SumFunction(metered[p]) \in Nat
      BY <2>3, FiniteDays, SumNat
    <2>5. QED
      BY <2>1, <2>2, <2>4
  <1>4. QED
    BY <1>1, <1>2, <1>3, AppAccountsStay

\* What a stage leads to
LEMMA EnteredStage ==
  ASSUME AppTypes, NEW c \in Calls, NEW s, NEW todo, Enter(c, s, todo)
  PROVE  /\ call'[c].stage = s /\ call'[c].todo = todo
         /\ call'[c].entries = call[c].entries /\ call'[c].day = call[c].day
         /\ \A x \in Calls : x # c => call'[x] = call[x]
  BY DEF AppTypes, Enter, Request

LEMMA TurnedAwayStage ==
  ASSUME AppTypes, NEW c \in Calls, TurnAway(c)
  PROVE  call'[c].stage = "idle" /\ \A x \in Calls : x # c => call'[x] = call[x]
  BY DEF AppTypes, TurnAway, NoCall

\* Up to the insert nothing is owed.
LEMMA BeforeInsert ==
  ASSUME AppBooks, NEW c \in Calls, AppInv',
         \/ \E u \in Callers, body \in Bodies : Ingest(c, u, body)
         \/ \E p \in Projects : LookUp(c, p) \/ Authorize(c, p)
         \/ CheckFails(c) \/ BulkCreateFails(c)
         \/ \E o \in OwnersOf(Projects) : CheckAppQuota(c, o)
  PROVE  AppBooks'
  <1>1. UNCHANGED <<alive, rows, metered, unmetered>>
    BY DEF Ingest, LookUp, Authorize, CheckFails, BulkCreateFails, CheckAppQuota
  <1>2. AppTypes
    BY DEF AppBooks, AppInv
  <1>3. CASE \E u \in Callers, body \in Bodies : Ingest(c, u, body)
    <2>1. /\ call[c].stage = "idle" /\ call'[c].stage = "lookup"
          /\ \A x \in Calls : x # c => call'[x] = call[x]
      BY <1>2, <1>3 DEF Ingest, AppTypes
    <2>2. QED
      BY <1>1, <2>1, NothingOwed
  <1>4. CASE TurnAway(c) /\ call[c].stage # "counting"
    BY <1>1, <1>2, <1>4, TurnedAwayStage, NothingOwed
  <1>5. ASSUME NEW x, NEW s \in {"access", "quota", "insert"}, NEW todo, Proceed(c, x, s, todo),
               call[c].stage # "counting"
        PROVE  AppBooks'
    <2>1. PICK t, rest : Enter(c, t, rest) /\ t # "counting"
      BY <1>5 DEF Proceed
    <2>2. call'[c].stage # "counting" /\ \A y \in Calls : y # c => call'[y] = call[y]
      BY <1>2, <2>1, EnteredStage
    <2>3. QED
      BY <1>1, <1>5, <2>2, NothingOwed
  <1>6. CASE \E p \in Projects : LookUp(c, p)
    BY <1>4, <1>5, <1>6 DEF LookUp
  <1>7. CASE \E p \in Projects : Authorize(c, p)
    BY <1>4, <1>5, <1>7 DEF Authorize
  <1>8. CASE CheckFails(c) \/ BulkCreateFails(c)
    BY <1>4, <1>8 DEF CheckFails, BulkCreateFails
  <1>9. CASE \E o \in OwnersOf(Projects) : CheckAppQuota(c, o)
    BY <1>4, <1>5, <1>9 DEF CheckAppQuota
  <1>10. QED
    BY <1>3, <1>6, <1>7, <1>8, <1>9

\* The entries of each project of the batch are written and owed.
LEMMA InsertOwes ==
  ASSUME AppBooks, NEW c \in Calls, AppInv', BulkCreate(c)
  PROVE  AppBooks'
  <1>1. AppTypes
    BY DEF AppBooks, AppInv
  <1>2. PICK named : named = Named(c)
    OBVIOUS
  <1>3. /\ call'[c].stage = "counting" /\ call'[c].todo = named
        /\ call'[c].entries = call[c].entries /\ Named(c)' = named
        /\ \A x \in Calls : x # c => call'[x] = call[x]
    BY <1>1, <1>2 DEF BulkCreate, AppTypes, Request, Named
  <1>4. BookTypes' /\ alive' \subseteq alive /\ UNCHANGED <<alive, metered, unmetered>>
    BY DEF AppBooks, BookTypes, BulkCreate
  <1>5. ToCount'
    BY <1>3 DEF AppBooks, ToCount, Named
  <1>6. ASSUME NEW p \in alive'
        PROVE  rows'[p] - rows[p] = (SumFunction(metered'[p]) - SumFunction(metered[p]))
                                      + (unmetered'[p] - unmetered[p]) + (Owed(p)'[c] - Owed(p)[c])
    <2>1. p \in Projects /\ rows[p] \in Nat /\ unmetered[p] \in Nat
      BY <1>4 DEF AppBooks, AppInv, AppTypes, BookTypes
    <2>2. metered[p] \in [DaysOfUse -> Nat]
      BY <2>1 DEF AppBooks, BookTypes
    <2>3. SumFunction(metered[p]) \in Nat
      BY <2>2, FiniteDays, SumNat
    <2>4. PICK n : n = IF p \in named THEN call[c].entries[p] ELSE 0
      OBVIOUS
    <2>5. n \in Nat
      BY <1>1, <1>2, <2>4, NamedProjects
    <2>6. rows'[p] = rows[p] + n
      BY <1>2, <2>1, <2>4 DEF BulkCreate
    <2>7. Owed(p)'[c] = n /\ Owed(p)[c] = 0
      BY <1>3, <2>4 DEF Owed, BulkCreate
    <2>8. unmetered'[p] = unmetered[p] /\ metered'[p] = metered[p]
      BY <1>4
    <2>9. QED
      BY <2>1, <2>3, <2>5, <2>6, <2>7, <2>8
  <1>7. QED
    BY <1>3, <1>4, <1>5, <1>6, AppAccountsStay

\* The goroutine has done project p: what it owed of p it owes no longer.
LEMMA CountedOff ==
  ASSUME AppBooks, NEW c \in Calls, NEW p \in Projects, Counted(c, p),
         call[c].stage = "counting", p \in call[c].todo
  PROVE  /\ \A x \in Calls : x # c => call'[x] = call[x]
         /\ \A z \in Projects : Owed(z)'[c] = IF z = p THEN 0 ELSE Owed(z)[c]
         /\ Owed(p)[c] = call[c].entries[p] /\ ToCount'
  <1>1. AppTypes
    BY DEF AppBooks, AppInv
  <1>2. Owed(p)[c] = call[c].entries[p]
    BY DEF Owed
  <1>3. CASE call[c].todo = {p}
    <2>1. call'[c].stage = "idle" /\ \A x \in Calls : x # c => call'[x] = call[x]
      BY <1>1, <1>3, TurnedAwayStage DEF Counted
    <2>2. \A z \in Projects : Owed(z)'[c] = 0 /\ (z # p => Owed(z)[c] = 0)
      BY <1>3, <2>1 DEF Owed
    <2>3. ToCount'
      BY <2>1 DEF AppBooks, ToCount, Named
    <2>4. QED
      BY <1>2, <2>1, <2>2, <2>3
  <1>4. CASE call[c].todo # {p}
    <2>1. /\ call'[c].stage = "counting" /\ call'[c].todo = call[c].todo \ {p}
          /\ call'[c].entries = call[c].entries
          /\ \A x \in Calls : x # c => call'[x] = call[x]
      BY <1>1, <1>4, EnteredStage DEF Counted
    <2>2. \A z \in Projects : Owed(z)'[c] = IF z = p THEN 0 ELSE Owed(z)[c]
      BY <2>1 DEF Owed
    <2>3. ToCount'
      BY <2>1 DEF AppBooks, ToCount, Named
    <2>4. QED
      BY <1>2, <2>1, <2>2, <2>3
  <1>5. QED
    BY <1>3, <1>4

LEMMA RecordPays ==
  ASSUME AppBooks, NEW c \in Calls, NEW p \in Projects, AppInv', RecordApp(c, p) \/ AppUsageLost(c, p)
  PROVE  AppBooks'
  <1>1. AppTypes /\ ToCount
    BY DEF AppBooks, AppInv
  <1>2. /\ Counted(c, p) /\ call[c].stage = "counting" /\ p \in call[c].todo
        /\ UNCHANGED <<alive, rows>>
    BY DEF RecordApp, AppUsageLost
  <1>3. /\ \A x \in Calls : x # c => call'[x] = call[x]
        /\ \A z \in Projects : Owed(z)'[c] = IF z = p THEN 0 ELSE Owed(z)[c]
        /\ Owed(p)[c] = call[c].entries[p] /\ ToCount'
    BY <1>2, CountedOff
  <1>4. PICK n : n = call[c].entries[p]
    OBVIOUS
  <1>5. n \in Nat /\ call[c].day \in DaysOfUse
    <2>1. Owed(p) \in [Calls -> Nat]
      BY <1>1, OwedNat
    <2>2. QED
      BY <1>1, <1>3, <1>4, <2>1 DEF AppTypes, Request
  <1>6. IsFiniteSet(DaysOfUse)
    BY FiniteDays
  <1>7. ASSUME NEW z \in Projects
        PROVE  /\ SumFunction(metered[z]) \in Nat /\ rows[z] \in Nat /\ unmetered[z] \in Nat
               /\ Owed(z)[c] \in Nat
    <2>1. metered[z] \in [DaysOfUse -> Nat] /\ rows[z] \in Nat /\ unmetered[z] \in Nat
      BY DEF AppBooks, AppInv, AppTypes, BookTypes
    <2>2. SumFunction(metered[z]) \in Nat
      BY <1>6, <2>1, SumNat
    <2>3. Owed(z) \in [Calls -> Nat]
      BY <1>1, OwedNat
    <2>4. QED
      BY <2>1, <2>2, <2>3
  <1>8. CASE RecordApp(c, p)
    <2>1. PICK d \in DaysOfUse : d = call[c].day
      BY <1>5
    <2>2. PICK k \in Nat : k = metered[p][d] + n
      BY <1>5, <2>1 DEF AppBooks, BookTypes
    <2>3. metered' = [metered EXCEPT ![p][d] = k] /\ UNCHANGED unmetered
      BY <1>4, <1>8, <2>1, <2>2 DEF RecordApp, Tally
    <2>4. BookTypes' /\ alive' \subseteq alive
      BY <1>2, <2>1, <2>2, <2>3 DEF AppBooks, BookTypes
    <2>5. PICK f, h : f = metered[p] /\ h = metered'[p]
      OBVIOUS
    <2>6. f \in [DaysOfUse -> Int] /\ h \in [DaysOfUse -> Int]
      BY <2>4, <2>5 DEF AppBooks, BookTypes
    <2>7. h[d] = f[d] + n /\ f[d] \in Int /\ \A x \in DaysOfUse : x # d => h[x] = f[x]
      BY <2>1, <2>2, <2>3, <2>5, <2>6 DEF AppBooks, BookTypes
    <2>8. SumFunction(f) \in Int /\ SumFunction(h) = SumFunction(f) + (h[d] - f[d])
      BY <1>6, <2>6, <2>7, SumChanges
    <2>9. SumFunction(metered'[p]) = SumFunction(metered[p]) + n
      BY <1>5, <2>5, <2>7, <2>8
    <2>10. \A z \in Projects : z # p => metered'[z] = metered[z]
      BY <2>3 DEF AppBooks, BookTypes
    <2>11. ASSUME NEW z \in alive'
           PROVE  rows'[z] - rows[z] = (SumFunction(metered'[z]) - SumFunction(metered[z]))
                                         + (unmetered'[z] - unmetered[z]) + (Owed(z)'[c] - Owed(z)[c])
      <3>1. z \in Projects /\ rows'[z] = rows[z] /\ unmetered'[z] = unmetered[z]
        BY <1>2, <2>3, <2>4 DEF BookTypes
      <3>2. CASE z = p
        BY <1>3, <1>4, <1>5, <1>7, <2>9, <3>1, <3>2
      <3>3. CASE z # p
        BY <1>3, <1>7, <2>10, <3>1, <3>3
      <3>4. QED
        BY <3>2, <3>3
    <2>12. QED
      BY <1>3, <2>4, <2>11, AppAccountsStay
  <1>9. CASE AppUsageLost(c, p)
    <2>1. /\ UNCHANGED metered
          /\ unmetered' = IF p \in alive THEN [unmetered EXCEPT ![p] = unmetered[p] + n] ELSE unmetered
      BY <1>4, <1>9 DEF AppUsageLost
    <2>2. \A z \in alive : unmetered'[z] = unmetered[z] + (IF z = p THEN n ELSE 0)
      BY <1>5, <1>7, <2>1 DEF AppBooks, BookTypes
    <2>3. unmetered' \in [Projects -> Nat]
      BY <1>5, <1>7, <2>1 DEF AppBooks, BookTypes
    <2>4. BookTypes' /\ alive' \subseteq alive
      BY <1>2, <2>1, <2>3 DEF AppBooks, BookTypes
    <2>5. ASSUME NEW z \in alive'
          PROVE  rows'[z] - rows[z] = (SumFunction(metered'[z]) - SumFunction(metered[z]))
                                        + (unmetered'[z] - unmetered[z]) + (Owed(z)'[c] - Owed(z)[c])
      <3>1. z \in Projects /\ z \in alive /\ rows'[z] = rows[z] /\ metered'[z] = metered[z]
        BY <1>2, <2>1, <2>4 DEF BookTypes
      <3>2. unmetered'[z] = unmetered[z] + (IF z = p THEN n ELSE 0)
        BY <2>2, <3>1
      <3>3. CASE z = p
        <4>1. /\ Owed(z)'[c] = 0 /\ Owed(z)[c] = n
              /\ unmetered'[z] = unmetered[z] + n /\ metered'[z] = metered[z] /\ rows'[z] = rows[z]
          BY <1>3, <1>4, <3>1, <3>2, <3>3
        <4>2. SumFunction(metered[z]) \in Nat /\ unmetered[z] \in Nat /\ rows[z] \in Nat
          BY <1>7, <3>1
        <4>3. QED
          BY <1>5, <4>1, <4>2
      <3>4. CASE z # p
        BY <1>3, <1>7, <3>1, <3>2, <3>4
      <3>5. QED
        BY <3>3, <3>4
    <2>6. QED
      BY <1>3, <2>4, <2>5, AppAccountsStay
  <1>10. QED
    BY <1>8, <1>9

LEMMA AppInitBooks == AppInit => AppBooks
  <1>1. SUFFICES ASSUME AppInit PROVE AppBooks
    OBVIOUS
  <1>2. AppInv
    BY <1>1, AppInitOK
  <1>3. BookTypes
    BY <1>1, AppIngestAssumption DEF AppInit, BookTypes
  <1>4. ToCount
    BY <1>1 DEF AppInit, ToCount, NoCall
  <1>5. ASSUME NEW p \in alive
        PROVE  rows[p] = 0 /\ unmetered[p] = 0 /\ SumFunction(metered[p]) = 0 /\ SumFunction(Owed(p)) = 0
    <2>1. p \in Projects /\ rows[p] = 0 /\ unmetered[p] = 0
      BY <1>1 DEF AppInit
    <2>2. IsFiniteSet(DaysOfUse) /\ IsFiniteSet(Calls)
      BY FiniteDays, AppIngestAssumption
    <2>3. PICK m : m = metered[p]
      OBVIOUS
    <2>4. m \in [DaysOfUse -> Int] /\ \A d \in DaysOfUse : m[d] = 0
      BY <1>1, <2>1, <2>3 DEF AppInit
    <2>5. SumFunction(m) = 0
      BY <2>2, <2>4, SumZero
    <2>6. PICK f : f = Owed(p)
      OBVIOUS
    <2>7. f \in [Calls -> Int] /\ \A c \in Calls : f[c] = 0
      BY <1>1, <2>6 DEF AppInit, Owed, NoCall
    <2>8. SumFunction(f) = 0
      BY <2>2, <2>7, SumZero
    <2>9. QED
      BY <2>1, <2>3, <2>5, <2>6, <2>8
  <1>6. AppBalanced
    BY <1>5 DEF AppBalanced
  <1>7. QED
    BY <1>2, <1>3, <1>4, <1>6 DEF AppBooks

LEMMA AppNextBooks == AppBooks /\ [AppNext]_appVars => AppBooks'
  <1>1. SUFFICES ASSUME AppBooks, [AppNext]_appVars PROVE AppBooks'
    OBVIOUS
  <1>2. AppInv'
    BY <1>1, AppNextOK DEF AppBooks
  <1>3. ASSUME UNCHANGED <<call, rows, metered, unmetered, alive>> PROVE AppBooks'
    <2>1. BookTypes' /\ ToCount'
      BY <1>1, <1>3 DEF AppBooks, BookTypes, ToCount, Named
    <2>2. AppBalanced'
      BY <1>1, <1>3 DEF AppBooks, AppBalanced, Owed
    <2>3. QED
      BY <1>2, <2>1, <2>2 DEF AppBooks
  <1>4. CASE UNCHANGED appVars
    BY <1>3, <1>4 DEF appVars
  <1>5. CASE Midnight \/ \E u \in Callers \ SuperAdmins, p \in Projects : GrantAccess(u, p) \/ RevokeAccess(u, p)
    BY <1>3, <1>5 DEF Midnight, GrantAccess, RevokeAccess
  <1>6. ASSUME NEW p \in Projects, DropProject(p) PROVE AppBooks'
    <2>1. alive' = alive \ {p} /\ UNCHANGED call
      BY <1>6 DEF DropProject
    <2>2. \A z \in alive' : rows'[z] = rows[z] /\ unmetered'[z] = unmetered[z] /\ metered'[z] = metered[z]
      BY <1>1, <1>6, <2>1 DEF DropProject, AppBooks, AppInv, AppTypes, BookTypes
    <2>3. BookTypes' /\ ToCount'
      BY <1>1, <1>6 DEF DropProject, AppBooks, BookTypes, ToCount, Named
    <2>4. AppBalanced'
      BY <1>1, <2>1, <2>2 DEF AppBooks, AppBalanced, Owed
    <2>5. QED
      BY <1>2, <2>3, <2>4 DEF AppBooks
  <1>7. ASSUME NEW c \in Calls,
               \/ \E u \in Callers, body \in Bodies : Ingest(c, u, body)
               \/ \E p \in Projects : LookUp(c, p) \/ Authorize(c, p)
               \/ CheckFails(c) \/ BulkCreateFails(c)
               \/ \E o \in OwnersOf(Projects) : CheckAppQuota(c, o)
        PROVE  AppBooks'
    BY <1>1, <1>2, <1>7, BeforeInsert
  <1>8. ASSUME NEW c \in Calls, BulkCreate(c) PROVE AppBooks'
    BY <1>1, <1>2, <1>8, InsertOwes
  <1>9. ASSUME NEW c \in Calls, NEW p \in Projects, RecordApp(c, p) \/ AppUsageLost(c, p) PROVE AppBooks'
    BY <1>1, <1>2, <1>9, RecordPays
  <1>10. QED
    BY <1>1, <1>4, <1>5, <1>6, <1>7, <1>8, <1>9 DEF AppNext

\* What a project stores is what its counters add up to, what goroutines have yet to add
\* and what was lost, for any number of requests, projects and days.
THEOREM EveryEntryIsAccountedFor == AppSpec => []AppUsageAgrees
  <1>1. AppBooks => AppUsageAgrees
    <2>1. SUFFICES ASSUME AppBooks, NEW p \in alive,
                          NEW counting, counting = {c \in Calls : call[c].stage = "counting" /\ p \in call[c].todo}
                   PROVE  rows[p] = SumFunction(metered[p]) + unmetered[p]
                                      + SumFunction([c \in counting |-> call[c].entries[p]])
      BY DEF AppUsageAgrees
    <2>2. PICK f, h : f = Owed(p) /\ h = [c \in counting |-> call[c].entries[p]]
      OBVIOUS
    <2>3. f \in [Calls -> Nat]
      BY <2>1, <2>2, OwedNat DEF AppBooks, AppInv
    <2>4. counting \in SUBSET Calls /\ f \in [Calls -> Int] /\ IsFiniteSet(Calls)
      BY <2>1, <2>3, AppIngestAssumption
    <2>5. \A c \in counting : h[c] = f[c]
      BY <2>1, <2>2 DEF Owed
    <2>6. h \in [counting -> Int]
      BY <2>2, <2>4, <2>5
    <2>7. \A c \in Calls \ counting : f[c] = 0
      BY <2>1, <2>2 DEF Owed
    <2>8. SumFunction(h) = SumFunction(f)
      BY <2>4, <2>5, <2>6, <2>7, SumRestricted
    <2>9. QED
      BY <2>1, <2>2, <2>8 DEF AppBooks, AppBalanced
  <1>2. QED
    BY <1>1, AppInitBooks, AppNextBooks, PTL DEF AppSpec
============================================================================

------------------------- MODULE AlertEventsProofs -------------------------
(***************************************************************************)
(* Proofs about AlertEvents (one open event, silence once acknowledged,    *)
(* the dedup window, the counts, the refinement of AlertLifecycle) and     *)
(* AlertRules (alerts keep to their project, thresholds count their        *)
(* window), for every set of rules, workers, levels and connections and    *)
(* every bound.                                                            *)
(***************************************************************************)
EXTENDS AlertEvents, AlertRules, SumLemmas, TLAPS

\* A worker that is past RecordFiring, or about to resolve, holds the id of a row.
HeldEventsExist ==
    \A w \in Workers : pc[w] \in {"send", "mark", "resolve"} => job[w].event \in DOMAIN events

\* The inductive invariant.
IInv == TypeOK /\ HeldEventsExist /\ AtMostOneOpen

\* What Append does to a sequence's domain and elements.
LEMMA AppendFacts ==
  ASSUME NEW S, NEW s \in Seq(S), NEW x \in S
  PROVE  /\ Append(s, x) \in Seq(S)
         /\ Len(s) \in Nat /\ DOMAIN s = 1 .. Len(s)
         /\ DOMAIN Append(s, x) = DOMAIN s \cup {Len(s) + 1}
         /\ \A e \in DOMAIN s : Append(s, x)[e] = s[e]
         /\ Append(s, x)[Len(s) + 1] = x
  <1>1. Append(s, x) \in Seq(S) /\ Len(s) \in Nat /\ DOMAIN s = 1 .. Len(s)
        /\ Len(Append(s, x)) = Len(s) + 1
    OBVIOUS
  <1>2. DOMAIN Append(s, x) = 1 .. Len(s) + 1
    BY <1>1
  <1>3. DOMAIN Append(s, x) = DOMAIN s \cup {Len(s) + 1}
    BY <1>1, <1>2
  <1>4. QED
    BY <1>1, <1>3

\* Folding a recurrence into an event keeps its rule, key and state.
LEMMA FoldType ==
  ASSUME NEW ev \in Event, NEW j \in Job
  PROVE  /\ Fold(ev, j) \in Event
         /\ Fold(ev, j).rule = ev.rule /\ Fold(ev, j).key = ev.key /\ Fold(ev, j).state = ev.state
         /\ Fold(ev, j).count = ev.count + j.matched
  <1>1. ev.count + j.matched \in Nat /\ j.now \in Time
    BY DEF Event, Job
  <1> DEFINE n == ev.count + j.matched
             t == j.now
  <1>2. Fold(ev, j) = [ev EXCEPT !.count = n, !.last = t]
    BY DEF Fold
  <1> HIDE DEF n, t
  <1>3. [ev EXCEPT !.count = n, !.last = t] \in Event
    BY <1>1 DEF Event, n, t
  <1>4. /\ [ev EXCEPT !.count = n, !.last = t].rule = ev.rule
        /\ [ev EXCEPT !.count = n, !.last = t].key = ev.key
        /\ [ev EXCEPT !.count = n, !.last = t].state = ev.state
        /\ [ev EXCEPT !.count = n, !.last = t].count = n
    BY DEF Event
  <1>5. QED
    BY <1>2, <1>3, <1>4 DEF n

\* The placeholders of an idle worker are well typed.
LEMMA NoJobType == NoJob \in Job /\ AnyRow \in RuleRow
  BY ConstantsAssumption DEF NoJob, AnyRow, Job, RuleRow, NoPrior, Prior, OptTime, NoTime,
     Time, Keys, States

\* The open event a query returns is a row of the table.
LEMMA OpenIsEvent ==
  ASSUME TypeOK, NEW r \in Rules, NEW k \in Keys, OpenEvents(r, k) # {}
  PROVE  /\ (CHOOSE e \in OpenEvents(r, k) : TRUE) \in OpenEvents(r, k)
         /\ OpenEvents(r, k) \subseteq DOMAIN events
         /\ \A e \in OpenEvents(r, k) : events[e] \in Event
  <1>1. \E e : e \in OpenEvents(r, k)
    OBVIOUS
  <1>2. (CHOOSE e \in OpenEvents(r, k) : TRUE) \in OpenEvents(r, k)
    BY <1>1
  <1>3. OpenEvents(r, k) \subseteq DOMAIN events
    BY DEF OpenEvents
  <1>4. \A e \in DOMAIN events : events[e] \in Event
    BY DEF TypeOK
  <1>5. QED
    BY <1>2, <1>3, <1>4

\* The prior a dispatch reads is well typed.
LEMMA PriorType ==
  ASSUME TypeOK, NEW r \in Rules, NEW k \in Keys
  PROVE  PriorOf(r, k) \in Prior
  <1>1. CASE OpenEvents(r, k) = {}
    BY <1>1 DEF PriorOf, NoPrior, Prior, OptTime
  <1>2. CASE OpenEvents(r, k) # {}
    <2>1. PICK e \in DOMAIN events :
             PriorOf(r, k) = [state |-> events[e].state, notified |-> events[e].notified]
      BY <1>2, OpenIsEvent DEF PriorOf
    <2>2. events[e] \in Event
      BY <2>1 DEF TypeOK
    <2>3. QED
      BY <2>1, <2>2 DEF Event, Prior
  <1>3. QED
    BY <1>1, <1>2

\* Ending a dispatch touches only the worker that ends it.
LEMMA ReturnType ==
  ASSUME TypeOK, NEW w \in Workers, NEW fresh \in SUBSET (Nat \X Workers), Return(w, fresh)
  PROVE  /\ pc' \in [Workers -> PCs]
         /\ job' \in [Workers -> Job]
         /\ excused' \subseteq (Nat \X Workers)
         /\ pc'[w] \in {"idle", "scan"}
         /\ \A v \in Workers : v # w => pc'[v] = pc[v] /\ job'[v] = job[v]
  <1>1. NoPrior \in Prior
    BY DEF NoPrior, Prior, OptTime
  <1>2. [job[w] EXCEPT !.rule = NoJob.rule, !.key = NoJob.key,
                       !.matched = 0, !.prior = NoPrior, !.event = 0] \in Job
    BY <1>1, NoJobType DEF TypeOK, Job
  <1>3. job' \in [Workers -> Job]
    BY <1>2, NoJobType DEF TypeOK, Return
  <1>4. QED
    BY <1>3 DEF Return, TypeOK, PCs

\* No event exists and every worker is idle.
LEMMA InitIInv == Init => IInv
  <1> SUFFICES ASSUME Init PROVE IInv
    OBVIOUS
  <1>1. events = <<>> /\ pages = <<>> /\ DOMAIN events = {}
    BY DEF Init
  <1>2. TypeOK
    BY <1>1, NoJobType, ConstantsAssumption DEF Init, TypeOK, Time, PCs
  <1>3. QED
    BY <1>1, <1>2 DEF IInv, HeldEventsExist, AtMostOneOpen, Init

\* Reading rules, windows or events changes only the worker's own variables.
LEMMA ReadStep ==
  ASSUME IInv, NEW w \in Workers, NEW j \in Job, NEW p \in PCs,
         pc' = [pc EXCEPT ![w] = p], job' = [job EXCEPT ![w] = j],
         p \in {"send", "mark", "resolve"} => j.event \in DOMAIN events,
         UNCHANGED <<clock, config, events, pages, fired, excused>>
  PROVE  IInv'
  <1>1. TypeOK'
    BY DEF IInv, TypeOK, config
  <1>2. HeldEventsExist'
    BY DEF IInv, TypeOK, HeldEventsExist
  <1>3. AtMostOneOpen'
    BY DEF IInv, AtMostOneOpen, Open
  <1>4. QED
    BY <1>1, <1>2, <1>3 DEF IInv

\* A change of some rows that opens none keeps the invariant.
LEMMA RowStep ==
  ASSUME IInv, NEW E, events' = E, E \in Seq(Event), DOMAIN E = DOMAIN events,
         \A e \in DOMAIN events :
            /\ E[e].rule = events[e].rule /\ E[e].key = events[e].key
            /\ E[e].state \in {"firing", "acknowledged"} => Open(e)
  PROVE  AtMostOneOpen'
  BY DEF IInv, AtMostOneOpen, Open

\* Every step of a worker, an operator or the clock preserves the invariant.
LEMMA StepIInv == IInv /\ [Next]_vars => IInv'
  <1> SUFFICES ASSUME IInv, [Next]_vars PROVE IInv'
    OBVIOUS
  <1>t. TypeOK /\ HeldEventsExist /\ AtMostOneOpen
    BY DEF IInv
  <1>r. rules \in [Rules -> RuleRow] /\ clock \in Time
    BY <1>t DEF TypeOK
  <1>1. ASSUME NEW w \in Workers, QueryActiveRules(w) PROVE IInv'
    <2>1. PICK p \in Projects, windows \in {ActiveMaintenance(clock), {}} :
            LET todo == {r \in Rules : /\ rules[r].live /\ rules[r].active
                                       /\ ProjectOf[r] = p /\ rules[r].kind # "threshold"}
            IN  job' = [job EXCEPT ![w] = [NoJob EXCEPT !.now = clock, !.rows = rules,
                          !.todo = todo, !.windows = windows, !.loaded = TRUE]]
      BY <1>1 DEF QueryActiveRules
    <2>2. windows \subseteq Window
      BY <1>t DEF TypeOK, ActiveMaintenance
    <2> DEFINE todo == {r \in Rules : /\ rules[r].live /\ rules[r].active
                                       /\ ProjectOf[r] = p /\ rules[r].kind # "threshold"}
               j == [NoJob EXCEPT !.now = clock, !.rows = rules,
                          !.todo = todo, !.windows = windows, !.loaded = TRUE]
    <2>3. j \in Job
      BY <2>2, <1>r, NoJobType DEF Job
    <2>4. job' = [job EXCEPT ![w] = j] /\ pc' = [pc EXCEPT ![w] = "scan"]
          /\ UNCHANGED <<clock, config, events, pages, fired, excused>>
      BY <1>1, <2>1 DEF QueryActiveRules
    <2> HIDE DEF j
    <2>5. QED
      BY <2>3, <2>4, ReadStep DEF PCs
  <1>2. ASSUME NEW w \in Workers, QueryThresholdRules(w) PROVE IInv'
    <2> DEFINE todo == {r \in Rules : rules[r].live /\ rules[r].active /\ rules[r].kind = "threshold"}
               j == [NoJob EXCEPT !.now = clock, !.rows = rules, !.todo = todo]
    <2>3. j \in Job
      BY <1>r, NoJobType DEF Job
    <2>4. job' = [job EXCEPT ![w] = j] /\ pc' = [pc EXCEPT ![w] = "scan"]
          /\ UNCHANGED <<clock, config, events, pages, fired, excused>>
      BY <1>2 DEF QueryThresholdRules
    <2> HIDE DEF j
    <2>5. QED
      BY <2>3, <2>4, ReadStep DEF PCs
  <1>3. ASSUME NEW w \in Workers, NEW r \in Rules, SkipRule(w, r) PROVE IInv'
    <2> DEFINE left == job[w].todo \ {r}
               j == IF left = {} THEN NoJob ELSE [job[w] EXCEPT !.todo = left]
               p == IF left = {} THEN "idle" ELSE "scan"
    <2>1. job[w] \in Job
      BY <1>t DEF TypeOK
    <2>3. j \in Job
      BY <2>1, NoJobType DEF Job
    <2>4. job' = [job EXCEPT ![w] = j] /\ pc' = [pc EXCEPT ![w] = p]
          /\ UNCHANGED <<clock, config, events, pages, fired, excused>>
      BY <1>3 DEF SkipRule
    <2>5. p \in {"idle", "scan"}
      OBVIOUS
    <2> HIDE DEF j, p
    <2>6. QED
      BY <2>3, <2>4, <2>5, ReadStep DEF PCs
  <1>4. ASSUME NEW w \in Workers, NEW r \in Rules, QueryOpenEvent(w, r) PROVE IInv'
    <2>1. job[w] \in Job
      BY <1>t DEF TypeOK
    <2>2. PICK level \in Levels, n \in 1 .. MaxMatch,
               windows \in IF job[w].loaded THEN {job[w].windows}
                           ELSE {{x \in maint : x.start <= job[w].now /\ x.end > job[w].now}, {}} :
            LET key == DedupKey(job[w].rows[r], level)
            IN  job' = [job EXCEPT ![w] = [job[w] EXCEPT !.todo = job[w].todo \ {r}, !.rule = r, !.key = key,
                       !.matched = n, !.prior = PriorOf(r, key),
                       !.windows = windows, !.loaded = TRUE]]
      BY <1>4 DEF QueryOpenEvent
    <2> DEFINE key == DedupKey(job[w].rows[r], level)
               j == [job[w] EXCEPT !.todo = job[w].todo \ {r}, !.rule = r, !.key = key,
                       !.matched = n, !.prior = PriorOf(r, key),
                       !.windows = windows, !.loaded = TRUE]
    <2>3. windows \subseteq Window
      <3>1. job[w].windows \subseteq Window /\ maint \subseteq Window
        BY <2>1, <1>t DEF TypeOK, Job
      <3>2. QED
        BY <3>1, <2>2
    <2>4. key \in Keys
      BY DEF DedupKey, Keys
    <2>5. PriorOf(r, key) \in Prior
      BY <2>4, <1>t, PriorType
    <2>6. n \in Nat
      BY ConstantsAssumption
    <2>7. j \in Job
      <3> HIDE DEF key
      <3>1. QED
        BY <2>1, <2>3, <2>4, <2>5, <2>6 DEF Job
    <2>8. job' = [job EXCEPT ![w] = j] /\ pc' = [pc EXCEPT ![w] = "record"]
          /\ UNCHANGED <<clock, config, events, pages, fired, excused>>
      BY <1>4, <2>2, <1>t DEF QueryOpenEvent, TypeOK
    <2> HIDE DEF j
    <2>9. QED
      BY <2>7, <2>8, ReadStep DEF PCs
  <1>5. ASSUME NEW w \in Workers, NEW r \in Rules, QueryOpenToResolve(w, r) PROVE IInv'
    <2>1. job[w] \in Job
      BY <1>t DEF TypeOK
    <2>2. PICK e \in OpenEvents(r, "threshold") :
            job' = [job EXCEPT ![w] = [job[w] EXCEPT !.todo = job[w].todo \ {r}, !.rule = r, !.event = e]]
      BY <1>5 DEF QueryOpenToResolve
    <2>3. e \in DOMAIN events /\ e \in Nat
      BY <1>t DEF OpenEvents, TypeOK
    <2> DEFINE j == [job[w] EXCEPT !.todo = job[w].todo \ {r}, !.rule = r, !.event = e]
    <2>4. j \in Job /\ j.event = e
      BY <2>1, <2>3 DEF Job
    <2>5. job' = [job EXCEPT ![w] = j] /\ pc' = [pc EXCEPT ![w] = "resolve"]
          /\ UNCHANGED <<clock, config, events, pages, fired, excused>>
      BY <1>5, <2>2, <1>t DEF QueryOpenToResolve, TypeOK
    <2> HIDE DEF j
    <2>6. QED
      BY <2>3, <2>4, <2>5, ReadStep DEF PCs
  <1>6. ASSUME NEW w \in Workers, ResolveOpen(w) PROVE IInv'
    <2> DEFINE e == job[w].event
               E == IF Open(e) THEN [events EXCEPT ![e].state = "resolved"] ELSE events
    <2>1. e \in DOMAIN events /\ Return(w, {}) /\ events' = E
          /\ UNCHANGED <<clock, config, pages, fired>>
      BY <1>6, <1>t DEF ResolveOpen, HeldEventsExist
    <2>2. events[e] \in Event /\ events \in Seq(Event)
      BY <2>1, <1>t DEF TypeOK
    <2>3. [events[e] EXCEPT !.state = "resolved"] \in Event
      BY <2>2 DEF Event, States
    <2>4. E \in Seq(Event) /\ DOMAIN E = DOMAIN events
      BY <2>1, <2>2, <2>3
    <2>5. AtMostOneOpen'
      <3>1. \A f \in DOMAIN events :
              /\ E[f].rule = events[f].rule /\ E[f].key = events[f].key
              /\ E[f].state \in {"firing", "acknowledged"} => Open(f)
        BY <2>1, <2>2, <1>t DEF Open, TypeOK, Event
      <3> HIDE DEF E
      <3>2. QED
        BY <3>1, <2>1, <2>4, RowStep
    <2> HIDE DEF E
    <2>6. TypeOK'
      BY <2>1, <2>4, <1>t, ReturnType DEF TypeOK, config
    <2>7. HeldEventsExist'
      BY <2>1, <2>4, <1>t, ReturnType DEF HeldEventsExist
    <2>8. QED
      BY <2>5, <2>6, <2>7 DEF IInv
  <1>7. ASSUME NEW w \in Workers, RecordFiring(w) PROVE IInv'
    <2> DEFINE j == job[w]
               id == IF Conflict(j) = {} THEN Len(events) + 1 ELSE CHOOSE e \in Conflict(j) : TRUE
    <2>1. j \in Job /\ events \in Seq(Event) /\ pc[w] = "record" /\ j.rule \in Rules /\ j.key \in Keys
          /\ j.matched \in Nat /\ j.now \in Time /\ Len(events) \in Nat
      BY <1>7, <1>t DEF RecordFiring, TypeOK, Job
    <2>2. UNCHANGED <<clock, config, pages>>
      BY <1>7 DEF RecordFiring
    <2>3. fired' \in [Rules -> [Keys -> Nat]]
      BY <1>7, <2>1, <1>t DEF RecordFiring, TypeOK
    <2>4. /\ events' \in Seq(Event)
          /\ DOMAIN events \subseteq DOMAIN events'
          /\ id \in DOMAIN events' /\ id \in Nat
          /\ AtMostOneOpen'
      <3>1. CASE Conflict(j) = {}
        <4>1. events' = Append(events, NewEvent(j)) /\ id = Len(events) + 1
          BY <3>1, <1>7 DEF RecordFiring
        <4>2. NewEvent(j) \in Event
          BY <2>1 DEF NewEvent, Event, States, OptTime
        <4>3. /\ events' \in Seq(Event)
              /\ DOMAIN events' = DOMAIN events \cup {id}
              /\ DOMAIN events = 1 .. Len(events)
              /\ \A e \in DOMAIN events : events'[e] = events[e]
              /\ events'[id] = NewEvent(j)
          <5> HIDE DEF j, id
          <5>1. QED
            BY <4>1, <4>2, <2>1, AppendFacts
        <4>4. \A e \in DOMAIN events : Open(e) => ~(events[e].rule = j.rule /\ events[e].key = j.key)
          BY <3>1 DEF Conflict, OpenEvents
        <4>5. AtMostOneOpen'
          <5>1. NewEvent(j).rule = j.rule /\ NewEvent(j).key = j.key
            BY DEF NewEvent
          <5> HIDE DEF j, id
          <5>2. QED
            BY <5>1, <4>3, <4>4, <1>t DEF AtMostOneOpen, Open
        <4>6. QED
          BY <4>1, <4>3, <4>5, <2>1
      <3>2. CASE Conflict(j) # {}
        <4>1. events' = [events EXCEPT ![id] = Fold(events[id], j)]
          BY <3>2, <1>7 DEF RecordFiring
        <4>2. id \in OpenEvents(j.rule, j.key)
          BY <3>2, <2>1, <1>t, OpenIsEvent DEF Conflict
        <4>3. id \in DOMAIN events /\ Open(id) /\ events[id] \in Event /\ id \in Nat
          BY <4>2, <2>1 DEF OpenEvents
        <4>4. Fold(events[id], j) \in Event
          <5> HIDE DEF j, id
          <5>1. QED
            BY <4>3, <2>1, FoldType
        <4> HIDE DEF id
        <4>5. events' \in Seq(Event) /\ DOMAIN events' = DOMAIN events
          BY <4>1, <4>3, <4>4, <2>1
        <4>6. \A f \in DOMAIN events :
                /\ events'[f].rule = events[f].rule /\ events'[f].key = events[f].key
                /\ events'[f].state \in {"firing", "acknowledged"} => Open(f)
          BY <4>1, <4>3, <2>1 DEF Open, Fold, Event
        <4>7. AtMostOneOpen'
          BY <4>5, <4>6, RowStep
        <4>8. QED
          BY <4>3, <4>5, <4>7
      <3>3. QED
        BY <3>1, <3>2
    <2> DEFINE notify == ShouldNotify(j.rows[j.rule], ProjectOf[j.rule], j.prior, j.windows, j.now)
    <2>5. \/ /\ pc'  = [pc EXCEPT ![w] = "send"]
             /\ job' = [job EXCEPT ![w].event = id]
             /\ UNCHANGED excused
          \/ Return(w, {})
      BY <1>7 DEF RecordFiring
    <2>6. ASSUME pc' = [pc EXCEPT ![w] = "send"], job' = [job EXCEPT ![w].event = id],
                 UNCHANGED excused
          PROVE  IInv'
      <3> HIDE DEF id
      <3>1. [j EXCEPT !.event = id] \in Job /\ [j EXCEPT !.event = id].event = id
        BY <2>1, <2>4 DEF Job
      <3>2. job' = [job EXCEPT ![w] = [j EXCEPT !.event = id]]
        BY <2>6
      <3>3. TypeOK'
        BY <3>1, <3>2, <2>2, <2>3, <2>4, <2>6, <1>t DEF TypeOK, config, PCs
      <3>4. HeldEventsExist'
        BY <3>1, <3>2, <2>4, <2>6, <1>t DEF HeldEventsExist, TypeOK
      <3>5. QED
        BY <3>3, <3>4, <2>4 DEF IInv
    <2>7. ASSUME Return(w, {}) PROVE IInv'
      <3>1. TypeOK'
        BY <2>2, <2>3, <2>4, <2>7, <1>t, ReturnType DEF TypeOK, config
      <3>2. HeldEventsExist'
        BY <2>4, <2>7, <1>t, ReturnType DEF HeldEventsExist
      <3>3. QED
        BY <3>1, <3>2, <2>4 DEF IInv
    <2>8. QED
      BY <2>5, <2>6, <2>7
  <1>8. ASSUME NEW w \in Workers, SendAlert(w) PROVE IInv'
    <2> DEFINE row == job[w].rows[job[w].rule]
               page == [event |-> job[w].event, by |-> w, at |-> job[w].now,
                        dedup |-> DedupWindow(row)]
    <2>1. job[w] \in Job /\ row \in RuleRow
      BY <1>t DEF TypeOK, Job
    <2>2. page \in Page
      <3>1. row.dedup \in Int
        BY <2>1, ConstantsAssumption DEF RuleRow
      <3>2. DedupWindow(row) \in Nat
        BY <3>1, ConstantsAssumption DEF DedupWindow
      <3>3. QED
        BY <3>2, <2>1 DEF Page, Job
    <2>3. pages' = Append(pages, page) \/ pages' = pages
      BY <1>8 DEF SendAlert
    <2>4. pages' \in Seq(Page)
      <3>1. pages \in Seq(Page)
        BY <1>t DEF TypeOK
      <3> HIDE DEF page
      <3>2. QED
        BY <2>2, <2>3, <3>1
    <2>5. pc' = [pc EXCEPT ![w] = "mark"] /\ pc[w] = "send"
          /\ UNCHANGED <<clock, config, events, job, fired, excused>>
      BY <1>8 DEF SendAlert
    <2>6. TypeOK'
      BY <2>4, <2>5, <1>t DEF TypeOK, config, PCs
    <2>7. HeldEventsExist'
      BY <2>5, <1>t DEF HeldEventsExist, TypeOK
    <2>8. AtMostOneOpen'
      BY <2>5, <1>t DEF AtMostOneOpen, Open
    <2>9. QED
      BY <2>6, <2>7, <2>8 DEF IInv
  <1>9. ASSUME NEW w \in Workers, MarkNotified(w) PROVE IInv'
    <2> DEFINE e == job[w].event
               E == IF events[e].state = "deleted" THEN events
                    ELSE [events EXCEPT ![e].notified = job[w].now]
    <2>0. e \in DOMAIN events /\ InFlight(e) \in SUBSET (Nat \X Workers)
      BY <1>9, <1>t DEF MarkNotified, HeldEventsExist, InFlight, TypeOK
    <2>1. e \in DOMAIN events /\ Return(w, InFlight(e)) /\ events' = E
          /\ UNCHANGED <<clock, config, pages, fired>>
      BY <1>9, <1>t DEF MarkNotified, HeldEventsExist
    <2>2. events[e] \in Event /\ events \in Seq(Event) /\ job[w].now \in Time
      BY <2>1, <1>t DEF TypeOK, Job
    <2>3. [events[e] EXCEPT !.notified = job[w].now] \in Event
      BY <2>2 DEF Event, OptTime
    <2>4. E \in Seq(Event) /\ DOMAIN E = DOMAIN events
      BY <2>1, <2>2, <2>3
    <2>5. AtMostOneOpen'
      <3>1. \A f \in DOMAIN events :
              /\ E[f].rule = events[f].rule /\ E[f].key = events[f].key
              /\ E[f].state \in {"firing", "acknowledged"} => Open(f)
        BY <2>1, <2>2, <1>t DEF Open, TypeOK, Event
      <3> HIDE DEF E
      <3>2. QED
        BY <3>1, <2>1, <2>4, RowStep
    <2> HIDE DEF E
    <2>6. TypeOK'
      BY <2>0, <2>1, <2>4, <1>t, ReturnType DEF TypeOK, config
    <2>7. HeldEventsExist'
      BY <2>0, <2>1, <2>4, <1>t, ReturnType DEF HeldEventsExist
    <2>8. QED
      BY <2>5, <2>6, <2>7 DEF IInv
  <1>10. ASSUME NEW w \in Workers, RaiseFails(w) PROVE IInv'
    <2>1. Return(w, {}) /\ UNCHANGED <<clock, config, events, pages, fired>>
      BY <1>10 DEF RaiseFails
    <2>2. TypeOK'
      BY <2>1, <1>t, ReturnType DEF TypeOK, config
    <2>3. HeldEventsExist'
      BY <2>1, <1>t, ReturnType DEF HeldEventsExist
    <2>4. AtMostOneOpen'
      BY <2>1, <1>t DEF AtMostOneOpen, Open
    <2>5. QED
      BY <2>2, <2>3, <2>4 DEF IInv
  <1>11. ASSUME NEW w \in Workers, Abandon(w) PROVE IInv'
    <2>1. TypeOK'
      BY <1>11, <1>t, NoJobType DEF Abandon, TypeOK, config, PCs
    <2>2. HeldEventsExist'
      BY <1>11, <1>t DEF Abandon, HeldEventsExist, TypeOK
    <2>3. AtMostOneOpen'
      BY <1>11, <1>t DEF Abandon, AtMostOneOpen, Open
    <2>4. QED
      BY <2>1, <2>2, <2>3 DEF IInv
  <1>12. ASSUME NEW e \in DOMAIN events, AcknowledgeEvent(e) PROVE IInv'
    <2>1. events[e] \in Event /\ events \in Seq(Event) /\ e \in Nat
      BY <1>t DEF TypeOK
    <2>2. [events[e] EXCEPT !.state = "acknowledged"] \in Event
      BY <2>1 DEF Event, States
    <2>3. events' = [events EXCEPT ![e].state = "acknowledged"] /\ Open(e)
          /\ UNCHANGED <<clock, config, pc, job, pages, fired>>
      BY <1>12 DEF AcknowledgeEvent, Open
    <2>4. events' \in Seq(Event) /\ DOMAIN events' = DOMAIN events
      BY <2>1, <2>2, <2>3
    <2>5. excused' \subseteq (Nat \X Workers)
      BY <1>12, <1>t, <2>1 DEF AcknowledgeEvent, InFlight, TypeOK
    <2>6. TypeOK'
      BY <2>3, <2>4, <2>5, <1>t DEF TypeOK, config
    <2>7. HeldEventsExist'
      BY <2>3, <2>4, <1>t DEF HeldEventsExist
    <2>8. AtMostOneOpen'
      <3>1. \A f \in DOMAIN events :
              /\ events'[f].rule = events[f].rule /\ events'[f].key = events[f].key
              /\ events'[f].state \in {"firing", "acknowledged"} => Open(f)
        BY <2>1, <2>3, <1>t DEF Open, TypeOK, Event
      <3>2. QED
        BY <3>1, <2>4, RowStep
    <2>9. QED
      BY <2>6, <2>7, <2>8 DEF IInv
  <1>13. ASSUME NEW e \in DOMAIN events, ResolveEvent(e) PROVE IInv'
    <2>1. events[e] \in Event /\ events \in Seq(Event)
      BY <1>t DEF TypeOK
    <2>2. [events[e] EXCEPT !.state = "resolved"] \in Event
      BY <2>1 DEF Event, States
    <2>3. events' = [events EXCEPT ![e].state = "resolved"] /\ Open(e)
          /\ UNCHANGED <<clock, config, pc, job, pages, fired, excused>>
      BY <1>13 DEF ResolveEvent, Open
    <2>4. events' \in Seq(Event) /\ DOMAIN events' = DOMAIN events
      BY <2>1, <2>2, <2>3
    <2>6. TypeOK'
      BY <2>3, <2>4, <1>t DEF TypeOK, config
    <2>7. HeldEventsExist'
      BY <2>3, <2>4, <1>t DEF HeldEventsExist
    <2>8. AtMostOneOpen'
      <3>1. \A f \in DOMAIN events :
              /\ events'[f].rule = events[f].rule /\ events'[f].key = events[f].key
              /\ events'[f].state \in {"firing", "acknowledged"} => Open(f)
        BY <2>1, <2>3, <1>t DEF Open, TypeOK, Event
      <3>2. QED
        BY <3>1, <2>4, RowStep
    <2>9. QED
      BY <2>6, <2>7, <2>8 DEF IInv
  <1>14. ASSUME NEW r \in Rules, DeleteRule(r) PROVE IInv'
    <2> DEFINE E == [e \in DOMAIN events |->
                      IF events[e].rule = r THEN [events[e] EXCEPT !.state = "deleted"] ELSE events[e]]
    <2>1. events \in Seq(Event) /\ DOMAIN events = 1 .. Len(events) /\ Len(events) \in Nat
          /\ \A e \in DOMAIN events : events[e] \in Event
      BY <1>t DEF TypeOK
    <2>2. \A e \in DOMAIN events : [events[e] EXCEPT !.state = "deleted"] \in Event
      BY <2>1 DEF Event, States
    <2>3. E \in Seq(Event) /\ DOMAIN E = DOMAIN events
      BY <2>1, <2>2
    <2>4. \A e \in DOMAIN events :
            /\ E[e].rule = events[e].rule /\ E[e].key = events[e].key
            /\ E[e].state \in {"firing", "acknowledged"} => Open(e)
      BY <2>1 DEF Open, Event
    <2>5. events' = E /\ UNCHANGED <<clock, enabled, maint, pc, job, pages, excused>>
      BY <1>14 DEF DeleteRule
    <2>6. rules' \in [Rules -> RuleRow] /\ edits' \in 0 .. MaxEdits
      <3>1. [rules[r] EXCEPT !.live = FALSE] \in RuleRow
        BY <1>r DEF RuleRow
      <3>2. rules' \in [Rules -> RuleRow]
        BY <3>1, <1>14, <1>r DEF DeleteRule
      <3>3. edits' \in 0 .. MaxEdits
        BY <1>14, <1>t, ConstantsAssumption DEF DeleteRule, TypeOK
      <3>4. QED
        BY <3>2, <3>3
    <2>7. fired' \in [Rules -> [Keys -> Nat]]
      BY <1>14, <1>t DEF DeleteRule, TypeOK
    <2> HIDE DEF E
    <2>8. TypeOK'
      BY <2>3, <2>5, <2>6, <2>7, <1>t DEF TypeOK
    <2>9. HeldEventsExist'
      BY <2>3, <2>5, <1>t DEF HeldEventsExist
    <2>10. AtMostOneOpen'
      BY <2>3, <2>4, <2>5, RowStep
    <2>11. QED
      BY <2>8, <2>9, <2>10 DEF IInv
  <1>15. ASSUME \/ \E r \in Rules : UpdateRule(r)
                \/ \E c \in Conns : UpdateIntegration(c) \/ DisableRulesByConnection(c)
                \/ \E x \in Window : CreateMaintenanceWindow(x) \/ DeleteMaintenanceWindow(x)
                \/ Tick
                \/ UNCHANGED vars
         PROVE IInv'
    <2>1. UNCHANGED <<events, pc, job, pages, fired, excused>>
      BY <1>15 DEF UpdateRule, UpdateIntegration, DisableRulesByConnection,
         CreateMaintenanceWindow, DeleteMaintenanceWindow, Tick, vars
    <2>2. clock' \in Time
      BY <1>15, <1>t, ConstantsAssumption DEF UpdateRule, UpdateIntegration, DisableRulesByConnection,
         CreateMaintenanceWindow, DeleteMaintenanceWindow, Tick, vars, TypeOK, Time
    <2>3. rules' \in [Rules -> RuleRow]
      <3>1. ASSUME NEW r \in Rules, UpdateRule(r) PROVE rules' \in [Rules -> RuleRow]
        BY <3>1, <1>r DEF UpdateRule
      <3>2. ASSUME NEW c \in Conns, DisableRulesByConnection(c) PROVE rules' \in [Rules -> RuleRow]
        <4>1. \A r \in Rules : [rules[r] EXCEPT !.active = FALSE] \in RuleRow
          BY <1>r DEF RuleRow
        <4>2. QED
          BY <4>1, <3>2, <1>r DEF DisableRulesByConnection
      <3>3. QED
        BY <3>1, <3>2, <1>15, <1>r DEF UpdateIntegration,
           CreateMaintenanceWindow, DeleteMaintenanceWindow, Tick, vars, config
    <2>4. enabled' \in [Conns -> BOOLEAN]
      BY <1>15, <1>t DEF UpdateRule, UpdateIntegration, DisableRulesByConnection,
         CreateMaintenanceWindow, DeleteMaintenanceWindow, Tick, vars, config, TypeOK
    <2>5. maint' \subseteq Window /\ edits' \in 0 .. MaxEdits
      BY <1>15, <1>t, ConstantsAssumption DEF UpdateRule, UpdateIntegration, DisableRulesByConnection,
         CreateMaintenanceWindow, DeleteMaintenanceWindow, Tick, vars, config, TypeOK
    <2>6. TypeOK'
      BY <2>1, <2>2, <2>3, <2>4, <2>5, <1>t DEF TypeOK
    <2>7. HeldEventsExist' /\ AtMostOneOpen'
      BY <2>1, <1>t DEF HeldEventsExist, AtMostOneOpen, Open
    <2>8. QED
      BY <2>6, <2>7 DEF IInv
  <1>16. QED
    BY <1>1, <1>2, <1>3, <1>4, <1>5, <1>6, <1>7, <1>8, <1>9, <1>10, <1>11, <1>12, <1>13, <1>14, <1>15
       DEF Next, WorkerStep, WorkerFault, Operator

\* Every variable of the alerting model keeps its type, and no two unresolved
\* events share a rule and dedup key, whatever batches, evaluators, operators,
\* errors and crashes interleave (RecordFiring's upsert, alertevents.go).
THEOREM OneOpenEvent == Spec => [](TypeOK /\ AtMostOneOpen)
  <1>1. IInv => TypeOK /\ AtMostOneOpen
    BY DEF IInv
  <1>2. QED
    BY <1>1, InitIInv, StepIInv, PTL DEF Spec
-----------------------------------------------------------------------------
(* What a raise in flight may still assume of the event it read. *)

\* The event is as it was when it was read, but for matches folded into it.
AsRead(prior, ev) ==
    /\ ev.state = "acknowledged" => prior.state = "acknowledged"
    /\ ev.notified = NoTime \/ (prior.state # "none" /\ ev.notified = prior.notified)

\* A page for the event breaks neither promise.
MayPage(ev, j) ==
    /\ ev.state # "acknowledged"
    /\ ev.notified = NoTime \/ j.now - ev.notified >= DedupWindow(j.rows[j.rule])

\* Between the read and the upsert every open event of the key is as it was read, or
\* the raise is excused; between the upsert and the send the event may be paged, or
\* the raise is excused.
RaiseOK(w) ==
    /\ pc[w] = "record" =>
         /\ job[w].matched \in 1 .. MaxMatch
         /\ job[w].prior.state # "resolved"
         /\ \A e \in DOMAIN events :
              (Open(e) /\ events[e].rule = job[w].rule /\ events[e].key = job[w].key)
                 => (<<e, w>> \in excused \/ AsRead(job[w].prior, events[e]))
    /\ pc[w] = "send" =>
         /\ events[job[w].event].rule = job[w].rule /\ events[job[w].event].key = job[w].key
         /\ <<job[w].event, w>> \in excused \/ MayPage(events[job[w].event], job[w])

RaisesInv == IInv /\ \A w \in Workers : RaiseOK(w)

\* How a step may change the rows: a row keeps its rule and key and is not opened
\* again, whoever is raising it is excused when it becomes owned or is marked, and a
\* new row is firing and not notified.
RowsEvolve(others) ==
    /\ DOMAIN events \subseteq DOMAIN events'
    /\ \A e \in DOMAIN events :
         /\ events'[e].rule = events[e].rule /\ events'[e].key = events[e].key
         /\ events'[e].state \in {"firing", "acknowledged"} => Open(e)
         /\ \/ /\ events'[e].state = "acknowledged" => events[e].state = "acknowledged"
               /\ events'[e].notified = events[e].notified
            \/ \A v \in others : InRaise(v, events[e].rule, events[e].key) => <<e, v>> \in excused'
    /\ \A e \in DOMAIN events' : e \notin DOMAIN events =>
         events'[e].state = "firing" /\ events'[e].notified = NoTime

\* A worker that the step does not move, and that is not less excused than before.
Stays(v) ==
    /\ pc'[v] = pc[v] /\ job'[v] = job[v]
    /\ \A e \in Nat : <<e, v>> \in excused => <<e, v>> \in excused'

\* A worker the step does not move goes on as well founded as it was.
LEMMA OthersGoOn ==
  ASSUME RaisesInv, NEW others \in SUBSET Workers, RowsEvolve(others),
         NEW v \in others, Stays(v)
  PROVE  RaiseOK(v)'
  <1>0. v \in Workers /\ IInv /\ TypeOK /\ RaiseOK(v) /\ DOMAIN events \subseteq Nat
    BY DEF RaisesInv, IInv, TypeOK
  <1>1. PICK j : j = job[v]
    OBVIOUS
  <1>2. job'[v] = j /\ j \in Job
    BY <1>0, <1>1 DEF Stays, TypeOK
  <1>3. ASSUME pc'[v] = "record"
        PROVE  /\ j.matched \in 1 .. MaxMatch /\ j.prior.state # "resolved"
               /\ \A e \in DOMAIN events' :
                    (/\ events'[e].state \in {"firing", "acknowledged"}
                     /\ events'[e].rule = j.rule /\ events'[e].key = j.key)
                       => (<<e, v>> \in excused' \/ AsRead(j.prior, events'[e]))
    <2>1. pc[v] = "record"
      BY <1>3 DEF Stays
    <2>2. j.matched \in 1 .. MaxMatch /\ j.prior.state # "resolved"
      BY <2>1, <1>0, <1>1 DEF RaiseOK
    <2>3. ASSUME NEW e \in DOMAIN events', events'[e].state \in {"firing", "acknowledged"},
                 events'[e].rule = j.rule, events'[e].key = j.key
          PROVE  <<e, v>> \in excused' \/ AsRead(j.prior, events'[e])
      <3>1. CASE e \notin DOMAIN events
        BY <3>1 DEF RowsEvolve, AsRead
      <3>2. CASE e \in DOMAIN events
        <4>1. /\ Open(e) /\ events[e].rule = j.rule /\ events[e].key = j.key /\ e \in Nat
              /\ InRaise(v, events[e].rule, events[e].key)
          BY <3>2, <2>3, <2>1, <1>0, <1>1 DEF RowsEvolve, InRaise
        <4>2. <<e, v>> \in excused \/ AsRead(j.prior, events[e])
          BY <4>1, <3>2, <2>1, <1>0, <1>1 DEF RaiseOK
        <4>3. QED
          BY <4>1, <4>2, <3>2 DEF RowsEvolve, Stays, AsRead
      <3>3. QED
        BY <3>1, <3>2
    <2>4. QED
      BY <2>2, <2>3
  <1>4. ASSUME pc'[v] = "send"
        PROVE  /\ events'[j.event].rule = j.rule /\ events'[j.event].key = j.key
               /\ <<j.event, v>> \in excused' \/ MayPage(events'[j.event], j)
    <2>1. pc[v] = "send" /\ j.event \in DOMAIN events /\ j.event \in Nat
      BY <1>4, <1>0, <1>1 DEF Stays, IInv, HeldEventsExist
    <2>2. /\ events[j.event].rule = j.rule /\ events[j.event].key = j.key
          /\ <<j.event, v>> \in excused \/ MayPage(events[j.event], j)
      BY <2>1, <1>0, <1>1 DEF RaiseOK
    <2>3. InRaise(v, events[j.event].rule, events[j.event].key)
      BY <2>1, <2>2, <1>1 DEF InRaise
    <2>4. QED
      BY <2>1, <2>2, <2>3 DEF RowsEvolve, Stays, MayPage
  <1>5. QED
    BY <1>2, <1>3, <1>4 DEF RaiseOK, Open

\* A step of one worker.
LEMMA OneMoves ==
  ASSUME RaisesInv, NEW w \in Workers, RowsEvolve(Workers \ {w}),
         \A v \in Workers \ {w} : Stays(v), RaiseOK(w)', IInv'
  PROVE  RaisesInv'
  <1>1. \A v \in Workers \ {w} : RaiseOK(v)'
    BY OthersGoOn
  <1>2. QED
    BY <1>1 DEF RaisesInv

\* A step of no worker.
LEMMA NoneMoves ==
  ASSUME RaisesInv, RowsEvolve(Workers), \A v \in Workers : Stays(v), IInv'
  PROVE  RaisesInv'
  <1>1. \A v \in Workers : RaiseOK(v)'
    BY OthersGoOn
  <1>2. QED
    BY <1>1 DEF RaisesInv

\* A worker that is in no raise promises nothing.
LEMMA OutOfRaise ==
  ASSUME NEW w \in Workers, pc'[w] \notin {"record", "send"}
  PROVE  RaiseOK(w)'
  BY DEF RaiseOK

\* The rows as they were.
LEMMA SameRows ==
  ASSUME TypeOK, UNCHANGED events, NEW others \in SUBSET Workers
  PROVE  RowsEvolve(others)
  BY DEF RowsEvolve, Open

\* Ending a raise leaves the others where they are, and excuses whom it says.
LEMMA ReturnKeeps ==
  ASSUME TypeOK, NEW w \in Workers, NEW fresh \in SUBSET (Nat \X Workers), Return(w, fresh)
  PROVE  /\ RaiseOK(w)'
         /\ \A v \in Workers \ {w} :
              /\ Stays(v)
              /\ \A e \in Nat : <<e, v>> \in fresh => <<e, v>> \in excused'
  <1>1. pc'[w] \in {"idle", "scan"}
    BY ReturnType
  <1>2. RaiseOK(w)'
    BY <1>1, OutOfRaise
  <1>3. \A v \in Workers \ {w} : pc'[v] = pc[v] /\ job'[v] = job[v]
    BY ReturnType
  <1>4. \A v \in Workers \ {w}, e \in Nat :
           <<e, v>> \in excused \cup fresh => <<e, v>> \in excused'
    BY DEF Return
  <1>5. QED
    BY <1>2, <1>3, <1>4 DEF Stays

\* A step that moves one worker, out of any raise, and leaves the rows alone.
LEMMA PlainWorkerStep ==
  ASSUME RaisesInv, IInv', NEW w \in Workers, NEW p, NEW j,
         pc' = [pc EXCEPT ![w] = p], job' = [job EXCEPT ![w] = j],
         p \notin {"record", "send"}, UNCHANGED <<events, excused>>
  PROVE  RaisesInv'
  <1>1. TypeOK /\ pc'[w] = p
    BY DEF RaisesInv, IInv, TypeOK
  <1>2. \A v \in Workers \ {w} : Stays(v)
    BY <1>1 DEF Stays, TypeOK
  <1>3. QED
    BY <1>1, <1>2, OneMoves, OutOfRaise, SameRows

\* The read of the open event: what has been read is so.
LEMMA ReadsAreFresh ==
  ASSUME RaisesInv, IInv', NEW w \in Workers, NEW r \in Rules, QueryOpenEvent(w, r)
  PROVE  RaisesInv'
  <1>t. TypeOK /\ AtMostOneOpen /\ job[w] \in Job
    BY DEF RaisesInv, IInv, TypeOK
  <1>1. PICK level \in Levels, n \in 1 .. MaxMatch,
             windows \in IF job[w].loaded THEN {job[w].windows}
                         ELSE {{x \in maint : x.start <= job[w].now /\ x.end > job[w].now}, {}} :
          job' = [job EXCEPT ![w] = [job[w] EXCEPT !.todo = job[w].todo \ {r}, !.rule = r,
                     !.key = DedupKey(job[w].rows[r], level),
                     !.matched = n, !.prior = PriorOf(r, DedupKey(job[w].rows[r], level)),
                     !.windows = windows, !.loaded = TRUE]]
    BY DEF QueryOpenEvent
  <1>2. PICK key \in Keys : key = DedupKey(job[w].rows[r], level)
    BY DEF DedupKey, Keys
  <1>3. PICK prior \in Prior : prior = PriorOf(r, key)
    BY <1>t, PriorType
  <1>4. pc'[w] = "record" /\ job'[w].rule = r /\ job'[w].key = key /\ job'[w].matched = n
        /\ job'[w].prior = prior /\ UNCHANGED <<events, excused>>
    BY <1>1, <1>2, <1>3, <1>t DEF QueryOpenEvent, TypeOK, Job
  <1>5. prior.state # "resolved"
    <2>1. CASE OpenEvents(r, key) = {}
      BY <2>1, <1>3 DEF PriorOf, NoPrior
    <2>2. CASE OpenEvents(r, key) # {}
      BY <2>2, <1>3, <1>t, OpenIsEvent DEF PriorOf, OpenEvents, Open
    <2>3. QED
      BY <2>1, <2>2
  <1>6. ASSUME NEW e \in DOMAIN events, Open(e), events[e].rule = r, events[e].key = key
        PROVE  AsRead(prior, events[e])
    <2>1. e \in OpenEvents(r, key)
      BY <1>6 DEF OpenEvents
    <2>2. (CHOOSE f \in OpenEvents(r, key) : TRUE) = e
      BY <2>1, <1>t, OpenIsEvent DEF AtMostOneOpen, OpenEvents
    <2>3. prior = [state |-> events[e].state, notified |-> events[e].notified]
      BY <2>1, <2>2, <1>3 DEF PriorOf
    <2>4. QED
      BY <2>3, <1>6 DEF AsRead, Open
  <1>7. RaiseOK(w)'
    BY <1>4, <1>5, <1>6 DEF RaiseOK, Open
  <1>8. \A v \in Workers \ {w} : Stays(v)
    BY <1>1, <1>4, <1>t DEF Stays, TypeOK, QueryOpenEvent
  <1>9. QED
    BY <1>7, <1>8, <1>t, <1>4, OneMoves, SameRows

\* What the upsert did, and to which row.
LEMMA Recorded ==
  ASSUME TypeOK, NEW w \in Workers, NEW j \in Job, j = job[w], RecordFiring(w)
  PROVE  \E id \in Nat :
           /\ \/ /\ OpenEvents(j.rule, j.key) = {} /\ id \notin DOMAIN events
                 /\ DOMAIN events' = DOMAIN events \cup {id}
                 /\ \A e \in DOMAIN events : events'[e] = events[e]
                 /\ events'[id] = NewEvent(j)
              \/ /\ id \in OpenEvents(j.rule, j.key) /\ events[id] \in Event
                 /\ DOMAIN events' = DOMAIN events
                 /\ \A e \in DOMAIN events : e # id => events'[e] = events[e]
                 /\ events'[id] = Fold(events[id], j)
           /\ \/ /\ pc'  = [pc EXCEPT ![w] = "send"]
                 /\ job' = [job EXCEPT ![w] = [j EXCEPT !.event = id]]
                 /\ UNCHANGED excused
                 /\ ShouldNotify(j.rows[j.rule], ProjectOf[j.rule], j.prior, j.windows, j.now)
              \/ Return(w, {})
  <1> DEFINE id == IF Conflict(j) = {} THEN Len(events) + 1 ELSE CHOOSE e \in Conflict(j) : TRUE
  <1>1. /\ events \in Seq(Event) /\ j.rule \in Rules /\ j.key \in Keys /\ Len(events) \in Nat
        /\ DOMAIN events = 1 .. Len(events) /\ \A e \in DOMAIN events : events[e] \in Event
    BY DEF TypeOK, Job
  <1>2. \/ /\ pc'  = [pc EXCEPT ![w] = "send"]
           /\ job' = [job EXCEPT ![w] = [j EXCEPT !.event = id]]
           /\ UNCHANGED excused
           /\ ShouldNotify(j.rows[j.rule], ProjectOf[j.rule], j.prior, j.windows, j.now)
        \/ Return(w, {})
    BY DEF RecordFiring
  <1>3. CASE Conflict(j) = {}
    <2>1. events' = Append(events, NewEvent(j)) /\ id = Len(events) + 1 /\ OpenEvents(j.rule, j.key) = {}
      BY <1>3 DEF RecordFiring, Conflict
    <2>2. NewEvent(j) \in Event
      BY <1>1, ConstantsAssumption DEF NewEvent, Event, States, OptTime, Job, Time
    <2> HIDE DEF id
    <2>3. /\ id \in Nat /\ id \notin DOMAIN events
          /\ DOMAIN events' = DOMAIN events \cup {id}
          /\ \A e \in DOMAIN events : events'[e] = events[e]
          /\ events'[id] = NewEvent(j)
      BY <1>1, <2>1, <2>2, AppendFacts
    <2>4. QED
      BY <1>2, <2>1, <2>3
  <1>4. CASE Conflict(j) # {}
    <2>1. events' = [events EXCEPT ![id] = Fold(events[id], j)]
      BY <1>4 DEF RecordFiring
    <2>2. id \in OpenEvents(j.rule, j.key) /\ OpenEvents(j.rule, j.key) \subseteq DOMAIN events
      BY <1>4, <1>1, OpenIsEvent DEF Conflict
    <2> HIDE DEF id
    <2>3. /\ id \in Nat /\ events[id] \in Event /\ DOMAIN events' = DOMAIN events
          /\ \A e \in DOMAIN events : e # id => events'[e] = events[e]
          /\ events'[id] = Fold(events[id], j)
      BY <1>1, <2>1, <2>2
    <2>4. QED
      BY <1>2, <2>2, <2>3
  <1>5. QED
    BY <1>3, <1>4

\* What the raise goes on to send may be paged.
LEMMA RecordKeepsRaises ==
  ASSUME RaisesInv, IInv', NEW w \in Workers, RecordFiring(w)
  PROVE  RaisesInv'
  <1>t. TypeOK /\ job[w] \in Job /\ RaiseOK(w) /\ pc[w] = "record"
    BY DEF RaisesInv, IInv, TypeOK, RecordFiring
  <1>1. PICK j \in Job : j = job[w]
    BY <1>t
  <1>2. PICK id \in Nat :
           /\ \/ /\ OpenEvents(j.rule, j.key) = {} /\ id \notin DOMAIN events
                 /\ DOMAIN events' = DOMAIN events \cup {id}
                 /\ \A e \in DOMAIN events : events'[e] = events[e]
                 /\ events'[id] = NewEvent(j)
              \/ /\ id \in OpenEvents(j.rule, j.key) /\ events[id] \in Event
                 /\ DOMAIN events' = DOMAIN events
                 /\ \A e \in DOMAIN events : e # id => events'[e] = events[e]
                 /\ events'[id] = Fold(events[id], j)
           /\ \/ /\ pc'  = [pc EXCEPT ![w] = "send"]
                 /\ job' = [job EXCEPT ![w] = [j EXCEPT !.event = id]]
                 /\ UNCHANGED excused
                 /\ ShouldNotify(j.rows[j.rule], ProjectOf[j.rule], j.prior, j.windows, j.now)
              \/ Return(w, {})
    BY <1>t, <1>1, Recorded
  <1>f. ASSUME id \in OpenEvents(j.rule, j.key), events[id] \in Event, events'[id] = Fold(events[id], j)
        PROVE  /\ id \in DOMAIN events /\ Open(id)
               /\ events'[id].rule = events[id].rule /\ events'[id].key = events[id].key
               /\ events[id].rule = j.rule /\ events[id].key = j.key
               /\ events'[id].state = events[id].state /\ events'[id].notified = events[id].notified
    <2>1. /\ id \in DOMAIN events /\ Open(id) /\ events[id].rule = j.rule /\ events[id].key = j.key
      BY <1>f DEF OpenEvents
    <2>2. \A ev \in Event : /\ Fold(ev, j).rule = ev.rule /\ Fold(ev, j).key = ev.key
                            /\ Fold(ev, j).state = ev.state /\ Fold(ev, j).notified = ev.notified
      BY DEF Fold, Event
    <2>3. QED
      BY <2>1, <2>2, <1>f
  <1>3. RowsEvolve(Workers \ {w})
    <2>1. CASE /\ id \notin DOMAIN events /\ DOMAIN events' = DOMAIN events \cup {id}
               /\ \A e \in DOMAIN events : events'[e] = events[e]
               /\ events'[id] = NewEvent(j)
      BY <2>1 DEF RowsEvolve, NewEvent, Open
    <2>2. CASE /\ id \in OpenEvents(j.rule, j.key) /\ events[id] \in Event
               /\ DOMAIN events' = DOMAIN events
               /\ \A e \in DOMAIN events : e # id => events'[e] = events[e]
               /\ events'[id] = Fold(events[id], j)
      BY <2>2, <1>f DEF RowsEvolve, Open
    <2>3. QED
      BY <2>1, <2>2, <1>2
  <1>4. CASE Return(w, {})
    BY <1>3, <1>4, <1>t, ReturnKeeps, OneMoves
  <1>5. CASE /\ pc'  = [pc EXCEPT ![w] = "send"]
             /\ job' = [job EXCEPT ![w] = [j EXCEPT !.event = id]]
             /\ UNCHANGED excused
             /\ ShouldNotify(j.rows[j.rule], ProjectOf[j.rule], j.prior, j.windows, j.now)
    <2>1. \A v \in Workers \ {w} : Stays(v)
      BY <1>5, <1>t DEF Stays, TypeOK
    <2>2. PICK k \in Job : k = [j EXCEPT !.event = id]
      BY DEF Job
    <2>3. /\ pc'[w] = "send" /\ job'[w] = k /\ k.event = id /\ k.rule = j.rule /\ k.key = j.key
          /\ k.now = j.now /\ k.rows = j.rows
      BY <1>5, <1>t, <2>2 DEF TypeOK, Job
    <2>4. events'[id].rule = j.rule /\ events'[id].key = j.key
      BY <1>2, <1>f DEF NewEvent
    <2>5. <<id, w>> \in excused \/ MayPage(events'[id], k)
      <3>1. CASE events'[id] = NewEvent(j)
        BY <3>1 DEF NewEvent, MayPage
      <3>2. CASE id \in OpenEvents(j.rule, j.key) /\ events[id] \in Event
                 /\ events'[id] = Fold(events[id], j)
        <4>1. <<id, w>> \in excused \/ AsRead(j.prior, events[id])
          BY <3>2, <1>1, <1>t DEF RaiseOK, OpenEvents
        <4>2. events'[id].state = events[id].state /\ events'[id].notified = events[id].notified
          BY <3>2, <1>f
        <4>3. ASSUME AsRead(j.prior, events[id]) PROVE MayPage(events'[id], k)
          <5>1. j.prior.state # "resolved"
            BY <1>1, <1>t DEF RaiseOK
          <5>2. QED
            BY <5>1, <4>2, <4>3, <1>5, <2>3 DEF AsRead, MayPage, ShouldNotify
        <4>4. QED
          BY <4>1, <4>3
      <3>3. QED
        BY <3>1, <3>2, <1>2
    <2>6. RaiseOK(w)'
      BY <1>5, <2>3, <2>4, <2>5 DEF RaiseOK
    <2>7. QED
      BY <1>3, <2>1, <2>6, OneMoves
  <1>6. QED
    BY <1>2, <1>4, <1>5

\* Marking an event excuses the raises that have read it.
LEMMA MarkKeepsRaises ==
  ASSUME RaisesInv, IInv', NEW w \in Workers, MarkNotified(w)
  PROVE  RaisesInv'
  <1>t. TypeOK /\ HeldEventsExist /\ job[w] \in Job /\ events \in Seq(Event)
    BY DEF RaisesInv, IInv, TypeOK
  <1>1. PICK e \in DOMAIN events : e = job[w].event
    BY <1>t DEF HeldEventsExist, MarkNotified
  <1>2. e \in Nat /\ events[e] \in Event /\ Return(w, InFlight(e))
        /\ events' = (IF events[e].state = "deleted" THEN events
                      ELSE [events EXCEPT ![e].notified = job[w].now])
    BY <1>t, <1>1 DEF MarkNotified
  <1>3. InFlight(e) \in SUBSET (Nat \X Workers)
    BY <1>2 DEF InFlight
  <1>4. \A v \in Workers \ {w} : InRaise(v, events[e].rule, events[e].key) => <<e, v>> \in excused'
    BY <1>2, <1>3, <1>t, ReturnKeeps DEF InFlight
  <1>5. RowsEvolve(Workers \ {w})
    BY <1>2, <1>4, <1>t DEF RowsEvolve, Open, Event
  <1>6. QED
    BY <1>2, <1>3, <1>5, <1>t, ReturnKeeps, OneMoves

\* Acknowledging it does so too; resolving does not disturb them.
LEMMA OperatorKeepsRaises ==
  ASSUME RaisesInv, IInv', NEW e \in DOMAIN events, AcknowledgeEvent(e) \/ ResolveEvent(e)
  PROVE  RaisesInv'
  <1>t. TypeOK /\ events \in Seq(Event) /\ e \in Nat /\ events[e] \in Event
    BY DEF RaisesInv, IInv, TypeOK
  <1>1. UNCHANGED <<pc, job>> /\ excused \subseteq excused'
    BY DEF AcknowledgeEvent, ResolveEvent
  <1>2. \A v \in Workers : Stays(v)
    BY <1>1 DEF Stays
  <1>3. RowsEvolve(Workers)
    <2>1. CASE AcknowledgeEvent(e)
      <3>1. \A v \in Workers : InRaise(v, events[e].rule, events[e].key) => <<e, v>> \in excused'
        BY <2>1 DEF AcknowledgeEvent, InFlight
      <3>2. QED
        BY <2>1, <3>1, <1>t DEF AcknowledgeEvent, RowsEvolve, Open, Event
    <2>2. CASE ResolveEvent(e)
      BY <2>2, <1>t DEF ResolveEvent, RowsEvolve, Open, Event
    <2>3. QED
      BY <2>1, <2>2
  <1>4. QED
    BY <1>2, <1>3, NoneMoves

\* So does deleting a rule with its events.
LEMMA DeleteKeepsRaises ==
  ASSUME RaisesInv, IInv', NEW r \in Rules, DeleteRule(r)
  PROVE  RaisesInv'
  <1>t. TypeOK /\ events \in Seq(Event) /\ \A e \in DOMAIN events : events[e] \in Event
    BY DEF RaisesInv, IInv, TypeOK
  <1>1. UNCHANGED <<pc, job, excused>>
        /\ events' = [e \in DOMAIN events |->
              IF events[e].rule = r THEN [events[e] EXCEPT !.state = "deleted"] ELSE events[e]]
    BY DEF DeleteRule
  <1>2. RowsEvolve(Workers)
    BY <1>1, <1>t DEF RowsEvolve, Open, Event
  <1>3. QED
    BY <1>1, <1>2, NoneMoves DEF Stays

\* resolveOpen closes its event and returns.
LEMMA ResolveOpenKeepsRaises ==
  ASSUME RaisesInv, IInv', NEW w \in Workers, ResolveOpen(w)
  PROVE  RaisesInv'
  <1>t. TypeOK /\ HeldEventsExist /\ events \in Seq(Event)
    BY DEF RaisesInv, IInv, TypeOK
  <1>1. PICK e \in DOMAIN events : e = job[w].event
    BY <1>t DEF HeldEventsExist, ResolveOpen
  <1>2. events[e] \in Event /\ Return(w, {})
        /\ events' = (IF Open(e) THEN [events EXCEPT ![e].state = "resolved"] ELSE events)
    BY <1>t, <1>1 DEF ResolveOpen
  <1>3. RowsEvolve(Workers \ {w})
    BY <1>2, <1>t DEF RowsEvolve, Open, Event
  <1>4. QED
    BY <1>2, <1>3, <1>t, ReturnKeeps, OneMoves

LEMMA InitRaises == Init => RaisesInv
  BY InitIInv DEF RaisesInv, RaiseOK, Init

\* Every step keeps the raises in flight well founded.
LEMMA StepRaises == RaisesInv /\ [Next]_vars => RaisesInv'
  <1> SUFFICES ASSUME RaisesInv, [Next]_vars PROVE RaisesInv'
    OBVIOUS
  <1>t. IInv /\ IInv' /\ TypeOK
    BY StepIInv DEF RaisesInv, IInv
  <1>1. ASSUME NEW w \in Workers, QueryActiveRules(w) \/ QueryThresholdRules(w) PROVE RaisesInv'
    <2>1. PICK j : job' = [job EXCEPT ![w] = j]
      BY <1>1 DEF QueryActiveRules, QueryThresholdRules
    <2>2. (\E p \in {"idle", "scan"} : pc' = [pc EXCEPT ![w] = p]) /\ UNCHANGED <<events, excused>>
      BY <1>1 DEF QueryActiveRules, QueryThresholdRules
    <2>3. QED
      BY <1>t, <2>1, <2>2, PlainWorkerStep
  <1>2. ASSUME NEW w \in Workers, NEW r \in Rules, SkipRule(w, r) PROVE RaisesInv'
    <2>1. \E j : job' = [job EXCEPT ![w] = j]
      BY <1>2 DEF SkipRule
    <2>2. \E p \in {"idle", "scan"} : pc' = [pc EXCEPT ![w] = p]
      BY <1>2 DEF SkipRule
    <2>3. UNCHANGED <<events, excused>>
      BY <1>2 DEF SkipRule
    <2>4. QED
      BY <1>t, <2>1, <2>2, <2>3, PlainWorkerStep
  <1>3. ASSUME NEW w \in Workers, NEW r \in Rules, QueryOpenToResolve(w, r) PROVE RaisesInv'
    <2>1. PICK j : job' = [job EXCEPT ![w] = j]
      BY <1>3 DEF QueryOpenToResolve
    <2>2. (\E p \in {"idle", "resolve"} : pc' = [pc EXCEPT ![w] = p]) /\ UNCHANGED <<events, excused>>
      BY <1>3 DEF QueryOpenToResolve
    <2>3. QED
      BY <1>t, <2>1, <2>2, PlainWorkerStep
  <1>4. ASSUME NEW w \in Workers, SendAlert(w) PROVE RaisesInv'
    <2>1. job' = [job EXCEPT ![w] = job[w]]
      BY <1>4, <1>t DEF SendAlert, TypeOK
    <2>2. pc' = [pc EXCEPT ![w] = "mark"] /\ UNCHANGED <<events, excused>>
      BY <1>4 DEF SendAlert
    <2>3. QED
      BY <1>t, <2>1, <2>2, PlainWorkerStep
  <1>5. ASSUME NEW w \in Workers, RaiseFails(w) PROVE RaisesInv'
    BY <1>5, <1>t, ReturnKeeps, SameRows, OneMoves DEF RaiseFails
  <1>6. ASSUME NEW w \in Workers, Abandon(w) PROVE RaisesInv'
    <2>1. pc'[w] = "idle"
      BY <1>6, <1>t DEF Abandon, TypeOK
    <2>2. \A v \in Workers \ {w} : Stays(v)
      BY <1>6, <1>t DEF Abandon, Stays, TypeOK
    <2>3. RowsEvolve(Workers \ {w})
      BY <1>6, <1>t, SameRows DEF Abandon
    <2>4. QED
      BY <2>1, <2>2, <2>3, <1>t, OutOfRaise, OneMoves
  <1>7. ASSUME \/ \E r \in Rules : UpdateRule(r)
               \/ \E c \in Conns : UpdateIntegration(c) \/ DisableRulesByConnection(c)
               \/ \E x \in Window : CreateMaintenanceWindow(x) \/ DeleteMaintenanceWindow(x)
               \/ Tick
               \/ UNCHANGED vars
        PROVE RaisesInv'
    <2>1. UNCHANGED <<events, pc, job, excused>>
      BY <1>7 DEF UpdateRule, UpdateIntegration, DisableRulesByConnection,
         CreateMaintenanceWindow, DeleteMaintenanceWindow, Tick, vars
    <2>2. \A v \in Workers : Stays(v)
      BY <2>1 DEF Stays
    <2>3. QED
      BY <2>1, <2>2, <1>t, SameRows, NoneMoves
  <1>8. QED
    BY <1>1, <1>2, <1>3, <1>4, <1>5, <1>6, <1>7, <1>t, ReadsAreFresh, RecordKeepsRaises, MarkKeepsRaises,
       OperatorKeepsRaises, DeleteKeepsRaises, ResolveOpenKeepsRaises
       DEF Next, WorkerStep, WorkerFault, Operator

\* The page a step delivers is the sender's, for the event it holds.
LEMMA PageOfSender ==
  ASSUME IInv, [Next]_vars, Paged
  PROVE  \E w \in Workers :
           /\ pc[w] = "send"
           /\ pages'[Len(pages')] = [event |-> job[w].event, by |-> w, at |-> job[w].now,
                                     dedup |-> DedupWindow(job[w].rows[job[w].rule])]
  <1>1. pages \in Seq(Page) /\ Len(pages) \in Nat /\ pages' # pages
    BY DEF IInv, TypeOK, Paged
  <1>2. PICK w \in Workers : SendAlert(w)
    <2>1. \/ \E w \in Workers : WorkerStep(w) \/ WorkerFault(w)
          \/ Operator
          \/ Tick
      BY <1>1 DEF Next, vars
    <2>2. ~(\E w \in Workers : WorkerFault(w)) /\ ~Operator /\ ~Tick
      BY <1>1 DEF WorkerFault, RaiseFails, Abandon, Operator, AcknowledgeEvent, ResolveEvent, UpdateRule,
         DeleteRule, UpdateIntegration, DisableRulesByConnection, CreateMaintenanceWindow,
         DeleteMaintenanceWindow, Tick
    <2>3. QED
      BY <1>1, <2>1, <2>2 DEF WorkerStep, QueryActiveRules, QueryThresholdRules, SkipRule, QueryOpenEvent,
         QueryOpenToResolve, ResolveOpen, RecordFiring, MarkNotified
  <1> DEFINE page == [event |-> job[w].event, by |-> w, at |-> job[w].now,
                      dedup |-> DedupWindow(job[w].rows[job[w].rule])]
  <1>3. pages' = Append(pages, page) /\ pc[w] = "send"
    BY <1>1, <1>2 DEF SendAlert
  <1> HIDE DEF page
  <1>4. pages'[Len(pages')] = page
    BY <1>1, <1>3
  <1>5. QED
    BY <1>3, <1>4 DEF page

\* Acknowledging an alert silences it: the only pages for an owned event come from
\* raises that had read it before somebody took it or marked it (ShouldNotify's
\* decision on the prior event, raise in integrationbus.go).
THEOREM OwnedAlertsAreSilent == Spec => AckSilences
  <1>1. RaisesInv /\ [Next]_vars =>
          (Paged => LET p == pages'[Len(pages')]
                    IN  events[p.event].state = "acknowledged" => <<p.event, p.by>> \in excused)
    <2> SUFFICES ASSUME RaisesInv, [Next]_vars, Paged,
                        events[pages'[Len(pages')].event].state = "acknowledged"
                 PROVE  <<pages'[Len(pages')].event, pages'[Len(pages')].by>> \in excused
      OBVIOUS
    <2>1. PICK w \in Workers :
             /\ pc[w] = "send"
             /\ pages'[Len(pages')] = [event |-> job[w].event, by |-> w, at |-> job[w].now,
                                       dedup |-> DedupWindow(job[w].rows[job[w].rule])]
      BY PageOfSender DEF RaisesInv
    <2>2. QED
      BY <2>1 DEF RaisesInv, RaiseOK, MayPage
  <1>2. QED
    BY <1>1, InitRaises, StepRaises, PTL DEF Spec, AckSilences

\* After a page an alert is quiet for its dedup window: a page comes that much later
\* than the last notification the event records, unless that one was recorded after
\* the raise had read the event (raise and MarkNotified, integrationbus.go).
THEOREM PagesKeepTheirDistance == Spec => DedupWindowQuiet
  <1>1. RaisesInv /\ [Next]_vars =>
          (Paged => LET p == pages'[Len(pages')]
                        n == events[p.event].notified
                    IN  n = NoTime \/ p.at - n >= p.dedup \/ <<p.event, p.by>> \in excused)
    <2> SUFFICES ASSUME RaisesInv, [Next]_vars, Paged
                 PROVE  LET p == pages'[Len(pages')]
                            n == events[p.event].notified
                        IN  n = NoTime \/ p.at - n >= p.dedup \/ <<p.event, p.by>> \in excused
      OBVIOUS
    <2>1. PICK w \in Workers :
             /\ pc[w] = "send"
             /\ pages'[Len(pages')] = [event |-> job[w].event, by |-> w, at |-> job[w].now,
                                       dedup |-> DedupWindow(job[w].rows[job[w].rule])]
      BY PageOfSender DEF RaisesInv
    <2>2. QED
      BY <2>1 DEF RaisesInv, RaiseOK, MayPage
  <1>2. QED
    BY <1>1, InitRaises, StepRaises, PTL DEF Spec, DedupWindowQuiet

-----------------------------------------------------------------------------
(* The match counts. *)

\* The counts of a rule's rows for a key.
Counts(r, k) == [e \in Counted(r, k) |-> events[e].count]

\* The inductive invariant.
CountsInv == RaisesInv /\ MatchCountConserved

\* They are finitely many numbers.
LEMMA CountsAreNumbers ==
  ASSUME TypeOK, NEW r \in Rules, NEW k \in Keys
  PROVE  IsFiniteSet(Counted(r, k)) /\ Counts(r, k) \in [Counted(r, k) -> Int]
  <1>1. events \in Seq(Event) /\ DOMAIN events = 1 .. Len(events) /\ Len(events) \in Nat
    BY DEF TypeOK
  <1>2. IsFiniteSet(DOMAIN events)
    BY <1>1, FS_Interval
  <1>3. Counted(r, k) \subseteq DOMAIN events
    BY DEF Counted
  <1>4. \A e \in Counted(r, k) : events[e].count \in Int
    <2>1. \A e \in DOMAIN events : events[e] \in Event
      BY <1>1
    <2>2. \A ev \in Event : ev.count \in Int
      BY DEF Event
    <2>3. QED
      BY <1>3, <2>1, <2>2
  <1>5. IsFiniteSet(Counted(r, k))
    <2>1. PICK D : D = DOMAIN events
      OBVIOUS
    <2>2. PICK S : S = Counted(r, k)
      OBVIOUS
    <2>3. IsFiniteSet(D) /\ S \in SUBSET D
      BY <2>1, <2>2, <1>2, <1>3
    <2>4. QED
      BY <2>2, <2>3, FS_Subset
  <1>6. Counts(r, k) \in [Counted(r, k) -> Int]
    BY <1>4 DEF Counts
  <1>7. QED
    BY <1>5, <1>6

LEMMA NextCountsAreNumbers ==
  ASSUME TypeOK', NEW r \in Rules, NEW k \in Keys
  PROVE  IsFiniteSet(Counted(r, k)') /\ Counts(r, k)' \in [Counted(r, k)' -> Int]
  <1>1. events' \in Seq(Event) /\ DOMAIN events' = 1 .. Len(events') /\ Len(events') \in Nat
    BY DEF TypeOK
  <1>2. IsFiniteSet(DOMAIN events')
    BY <1>1, FS_Interval
  <1>3. Counted(r, k)' \subseteq DOMAIN events'
    BY DEF Counted
  <1>4. \A e \in Counted(r, k)' : events'[e].count \in Int
    <2>1. \A e \in DOMAIN events' : events'[e] \in Event
      BY <1>1
    <2>2. \A ev \in Event : ev.count \in Int
      BY DEF Event
    <2>3. QED
      BY <1>3, <2>1, <2>2
  <1>5. IsFiniteSet(Counted(r, k)')
    <2>1. PICK D : D = DOMAIN events'
      OBVIOUS
    <2>2. PICK S : S = Counted(r, k)'
      OBVIOUS
    <2>3. IsFiniteSet(D) /\ S \in SUBSET D
      BY <2>1, <2>2, <1>2, <1>3
    <2>4. QED
      BY <2>2, <2>3, FS_Subset
  <1>6. Counts(r, k)' \in [Counted(r, k)' -> Int]
    BY <1>4 DEF Counts
  <1>7. QED
    BY <1>5, <1>6

\* Rows that keep their rule, key and count, and are deleted if they were, keep the sums.
LEMMA SameCounts ==
  ASSUME MatchCountConserved, fired' = fired, DOMAIN events' = DOMAIN events,
         \A e \in DOMAIN events :
            /\ events'[e].rule = events[e].rule /\ events'[e].key = events[e].key
            /\ events'[e].count = events[e].count
            /\ events'[e].state = "deleted" <=> events[e].state = "deleted"
  PROVE  MatchCountConserved'
  <1>1. \A r \in Rules, k \in Keys : Counted(r, k)' = Counted(r, k)
    BY DEF Counted
  <1>2. \A r \in Rules, k \in Keys : \A e \in Counted(r, k) : events'[e].count = events[e].count
    BY DEF Counted
  <1>3. ASSUME NEW r \in Rules, NEW k \in Keys
        PROVE  SumFunction([e \in Counted(r, k)' |-> events'[e].count]) = fired'[r][k]
    <2>1. [e \in Counted(r, k)' |-> events'[e].count] = [e \in Counted(r, k) |-> events[e].count]
      BY <1>1, <1>2
    <2>2. SumFunction([e \in Counted(r, k) |-> events[e].count]) = fired[r][k]
      BY DEF MatchCountConserved
    <2>3. QED
      BY <2>1, <2>2
  <1>4. QED
    BY <1>3 DEF MatchCountConserved

\* A recorded firing adds its matches to one row and to the history, and to no other.
LEMMA RecordCounts ==
  ASSUME CountsInv, TypeOK', NEW w \in Workers, RecordFiring(w)
  PROVE  MatchCountConserved'
  <1>t. TypeOK /\ MatchCountConserved /\ AtMostOneOpen /\ job[w] \in Job /\ fired \in [Rules -> [Keys -> Nat]]
    BY DEF CountsInv, RaisesInv, IInv, TypeOK
  <1>1. PICK j \in Job : j = job[w]
    BY <1>t
  <1>2. PICK id \in Nat :
           \/ /\ OpenEvents(j.rule, j.key) = {} /\ id \notin DOMAIN events
              /\ DOMAIN events' = DOMAIN events \cup {id}
              /\ \A e \in DOMAIN events : events'[e] = events[e]
              /\ events'[id] = NewEvent(j)
           \/ /\ id \in OpenEvents(j.rule, j.key) /\ events[id] \in Event
              /\ DOMAIN events' = DOMAIN events
              /\ \A e \in DOMAIN events : e # id => events'[e] = events[e]
              /\ events'[id] = Fold(events[id], j)
    BY <1>t, <1>1, Recorded
  <1>3. PICK r \in Rules, k \in Keys, n \in Nat : r = j.rule /\ k = j.key /\ n = j.matched
    BY <1>1, <1>t DEF Job
  <1>4. /\ fired'[r][k] = fired[r][k] + n /\ fired[r][k] \in Nat
        /\ \A q \in Rules, m \in Keys : ~(q = r /\ m = k) => fired'[q][m] = fired[q][m]
    BY <1>1, <1>3, <1>t DEF RecordFiring
  <1>5. PICK f : f = Counts(r, k)
    OBVIOUS
  <1>6. PICK h : h = Counts(r, k)'
    OBVIOUS
  <1>7. PICK S : S = Counted(r, k)
    OBVIOUS
  <1>8. /\ IsFiniteSet(S) /\ f \in [S -> Int] /\ h \in [Counted(r, k)' -> Int]
        /\ SumFunction(f) = fired[r][k]
        /\ \A e \in S : f[e] = events[e].count
        /\ \A e \in Counted(r, k)' : h[e] = events'[e].count
    BY <1>5, <1>6, <1>7, <1>t, CountsAreNumbers, NextCountsAreNumbers DEF Counts, MatchCountConserved
  <1>9. /\ SumFunction(h) = fired[r][k] + n
        /\ \A q \in Rules, m \in Keys : ~(q = r /\ m = k) => Counts(q, m)' = Counts(q, m)
    <2>1. CASE /\ OpenEvents(j.rule, j.key) = {} /\ id \notin DOMAIN events
               /\ DOMAIN events' = DOMAIN events \cup {id}
               /\ \A e \in DOMAIN events : events'[e] = events[e]
               /\ events'[id] = NewEvent(j)
      <3>1. events'[id].rule = r /\ events'[id].key = k /\ events'[id].state = "firing" /\ events'[id].count = n
        BY <2>1, <1>3 DEF NewEvent
      <3>2. Counted(r, k)' = S \cup {id} /\ id \notin S
        BY <3>1, <2>1, <1>7 DEF Counted
      <3>3. h \in [S \cup {id} -> Int] /\ h[id] = n /\ \A e \in S : h[e] = f[e]
        BY <3>1, <3>2, <2>1, <1>7, <1>8 DEF Counted
      <3>4. SumFunction(h) = SumFunction(f) + h[id]
        <4>1. IsFiniteSet(S) /\ f \in [S -> Int]
          BY <1>8
        <4>2. h \in [S \cup {id} -> Int] /\ id \notin S
          BY <3>2, <3>3
        <4>3. \A e \in S : h[e] = f[e]
          BY <3>3
        <4>4. QED
          BY <4>1, <4>2, <4>3, SumOneMore
      <3>5. ASSUME NEW q \in Rules, NEW m \in Keys, ~(q = r /\ m = k) PROVE Counts(q, m)' = Counts(q, m)
        <4>1. Counted(q, m)' = Counted(q, m)
          BY <3>1, <3>5, <2>1 DEF Counted
        <4>2. \A e \in Counted(q, m) : events'[e].count = events[e].count
          BY <2>1 DEF Counted
        <4>3. QED
          BY <4>1, <4>2 DEF Counts
      <3>6. QED
        BY <3>3, <3>4, <3>5, <1>8
    <2>2. CASE /\ id \in OpenEvents(j.rule, j.key) /\ events[id] \in Event
               /\ DOMAIN events' = DOMAIN events
               /\ \A e \in DOMAIN events : e # id => events'[e] = events[e]
               /\ events'[id] = Fold(events[id], j)
      <3>1. /\ events[id].rule = r /\ events[id].key = k /\ Open(id) /\ id \in DOMAIN events
            /\ events'[id].rule = r /\ events'[id].key = k /\ events'[id].state = events[id].state
            /\ events'[id].count = events[id].count + n
        BY <2>2, <1>3, FoldType DEF OpenEvents
      <3>2. Counted(r, k)' = S /\ id \in S
        BY <3>1, <2>2, <1>7 DEF Counted, Open
      <3>3. h \in [S -> Int] /\ h[id] = f[id] + n /\ f[id] \in Int
            /\ \A e \in S : e # id => h[e] = f[e]
        BY <3>1, <3>2, <2>2, <1>7, <1>8 DEF Counted
      <3>4. SumFunction(f) \in Int /\ SumFunction(h) = SumFunction(f) + (h[id] - f[id])
        <4>1. IsFiniteSet(S) /\ f \in [S -> Int]
          BY <1>8
        <4>2. h \in [S -> Int] /\ id \in S
          BY <3>2, <3>3
        <4>3. \A e \in S : e # id => h[e] = f[e]
          BY <3>3
        <4>4. QED
          BY <4>1, <4>2, <4>3, SumChanges
      <3>5. ASSUME NEW q \in Rules, NEW m \in Keys, ~(q = r /\ m = k) PROVE Counts(q, m)' = Counts(q, m)
        <4>1. Counted(q, m)' = Counted(q, m)
          BY <3>1, <3>5, <2>2 DEF Counted
        <4>2. \A e \in Counted(q, m) : events'[e].count = events[e].count
          BY <3>1, <3>5, <2>2 DEF Counted
        <4>3. QED
          BY <4>1, <4>2 DEF Counts
      <3>6. QED
        BY <3>3, <3>4, <3>5, <1>8
    <2>3. QED
      BY <2>1, <2>2, <1>2
  <1>10. ASSUME NEW q \in Rules, NEW m \in Keys PROVE SumFunction(Counts(q, m)') = fired'[q][m]
    <2>1. CASE q = r /\ m = k
      BY <2>1, <1>4, <1>6, <1>9
    <2>2. CASE ~(q = r /\ m = k)
      BY <2>2, <1>4, <1>9, <1>t DEF MatchCountConserved, Counts
    <2>3. QED
      BY <2>1, <2>2
  <1>11. QED
    BY <1>10 DEF MatchCountConserved, Counts

\* A deleted rule takes its rows and its history with it.
LEMMA DeleteCounts ==
  ASSUME CountsInv, NEW r \in Rules, DeleteRule(r)
  PROVE  MatchCountConserved'
  <1>t. TypeOK /\ MatchCountConserved /\ fired \in [Rules -> [Keys -> Nat]]
    BY DEF CountsInv, RaisesInv, IInv, TypeOK
  <1>1. /\ \A e \in DOMAIN events : events[e] \in Event
        /\ events' = [e \in DOMAIN events |->
              IF events[e].rule = r THEN [events[e] EXCEPT !.state = "deleted"] ELSE events[e]]
        /\ fired' = [fired EXCEPT ![r] = [k \in Keys |-> 0]]
    BY <1>t DEF TypeOK, DeleteRule
  <1>2. DOMAIN events' = DOMAIN events
        /\ \A e \in DOMAIN events :
             /\ events[e].rule = r => events'[e].rule = r /\ events'[e].state = "deleted"
             /\ events[e].rule # r => events'[e] = events[e]
    BY <1>1 DEF Event
  <1>3. ASSUME NEW k \in Keys PROVE SumFunction(Counts(r, k)') = fired'[r][k]
    <2>1. Counted(r, k)' = {}
      BY <1>2 DEF Counted
    <2>2. PICK h : h = Counts(r, k)'
      OBVIOUS
    <2>3. h \in [{} -> Int] /\ \A x \in {} : h[x] = 0
      BY <2>1, <2>2 DEF Counts
    <2>4. SumFunction(h) = 0
      BY <2>3, FS_EmptySet, SumZero
    <2>5. QED
      BY <2>2, <2>4, <1>1, <1>t
  <1>4. ASSUME NEW q \in Rules, q # r, NEW k \in Keys PROVE SumFunction(Counts(q, k)') = fired'[q][k]
    <2>1. Counted(q, k)' = Counted(q, k)
      BY <1>2, <1>4 DEF Counted
    <2>2. \A e \in Counted(q, k) : events'[e].count = events[e].count
      BY <1>2, <1>4 DEF Counted
    <2>3. Counts(q, k)' = Counts(q, k)
      BY <2>1, <2>2 DEF Counts
    <2>4. fired'[q][k] = fired[q][k]
      BY <1>1, <1>4, <1>t
    <2>5. QED
      BY <2>3, <2>4, <1>t DEF MatchCountConserved, Counts
  <1>5. QED
    BY <1>3, <1>4 DEF MatchCountConserved, Counts

\* Nothing has fired and no row is there.
LEMMA InitCounts == Init => MatchCountConserved
  <1> SUFFICES ASSUME Init, NEW r \in Rules, NEW k \in Keys
               PROVE  SumFunction(Counts(r, k)) = fired[r][k]
    BY DEF MatchCountConserved, Counts
  <1>1. Counted(r, k) = {} /\ fired[r][k] = 0
    BY DEF Init, Counted
  <1>2. PICK h : h = Counts(r, k)
    OBVIOUS
  <1>3. h \in [{} -> Int] /\ \A x \in {} : h[x] = 0
    BY <1>1, <1>2 DEF Counts
  <1>4. SumFunction(h) = 0
    BY <1>3, FS_EmptySet, SumZero
  <1>5. QED
    BY <1>1, <1>2, <1>4

\* Only RecordFiring and DeleteRule touch a count or a deletion.
LEMMA StepCounts ==
  ASSUME CountsInv, RaisesInv', [Next]_vars
  PROVE  MatchCountConserved'
  <1>t. /\ CountsInv /\ MatchCountConserved /\ TypeOK /\ TypeOK' /\ HeldEventsExist
        /\ events \in Seq(Event)
    BY DEF CountsInv, RaisesInv, IInv, TypeOK
  <1>1. ASSUME NEW w \in Workers, ResolveOpen(w) PROVE MatchCountConserved'
    <2>1. PICK e \in DOMAIN events : e = job[w].event
      BY <1>1, <1>t DEF HeldEventsExist, ResolveOpen
    <2>2. /\ events' = (IF Open(e) THEN [events EXCEPT ![e].state = "resolved"] ELSE events)
          /\ fired' = fired
      BY <1>1, <2>1 DEF ResolveOpen
    <2>3. QED
      BY <2>2, <1>t, SameCounts DEF Event, Open
  <1>2. ASSUME NEW w \in Workers, RecordFiring(w) PROVE MatchCountConserved'
    BY <1>2, <1>t, RecordCounts
  <1>3. ASSUME NEW w \in Workers, MarkNotified(w) PROVE MatchCountConserved'
    <2>1. PICK e \in DOMAIN events : e = job[w].event
      BY <1>3, <1>t DEF HeldEventsExist, MarkNotified
    <2>2. /\ events' = (IF events[e].state = "deleted" THEN events
                        ELSE [events EXCEPT ![e].notified = job[w].now])
          /\ fired' = fired
      BY <1>3, <2>1 DEF MarkNotified
    <2>3. /\ DOMAIN events' = DOMAIN events
          /\ \A f \in DOMAIN events :
               /\ events'[f].rule = events[f].rule /\ events'[f].key = events[f].key
               /\ events'[f].state = events[f].state /\ events'[f].count = events[f].count
      BY <2>2, <1>t DEF Event
    <2>4. QED
      BY <2>2, <2>3, <1>t, SameCounts
  <1>4. ASSUME NEW e \in DOMAIN events, AcknowledgeEvent(e) \/ ResolveEvent(e)
        PROVE  MatchCountConserved'
    <2>1. PICK s \in {"acknowledged", "resolved"} : events' = [events EXCEPT ![e].state = s]
      BY <1>4 DEF AcknowledgeEvent, ResolveEvent
    <2>2. fired' = fired /\ events[e].state # "deleted"
      BY <1>4 DEF AcknowledgeEvent, ResolveEvent, Open
    <2>3. /\ DOMAIN events' = DOMAIN events
          /\ \A f \in DOMAIN events :
               /\ events'[f].rule = events[f].rule /\ events'[f].key = events[f].key
               /\ events'[f].count = events[f].count
               /\ events'[f].state = "deleted" <=> events[f].state = "deleted"
      BY <2>1, <2>2, <1>t DEF Event
    <2>4. QED
      BY <2>2, <2>3, <1>t, SameCounts
  <1>5. ASSUME NEW r \in Rules, DeleteRule(r) PROVE MatchCountConserved'
    BY <1>5, <1>t, DeleteCounts
  <1>6. ASSUME UNCHANGED <<events, fired>> PROVE MatchCountConserved'
    BY <1>6, <1>t, SameCounts
  <1>7. QED
    BY <1>1, <1>2, <1>3, <1>4, <1>5, <1>6
       DEF Next, WorkerStep, WorkerFault, Operator, QueryActiveRules, QueryThresholdRules, SkipRule,
           QueryOpenEvent, QueryOpenToResolve, SendAlert, RaiseFails, Abandon, UpdateRule,
           UpdateIntegration, DisableRulesByConnection, CreateMaintenanceWindow,
           DeleteMaintenanceWindow, Tick, vars

\* No firing is lost or counted twice, however many batches fold into the same event:
\* the counts of a rule's rows for a key add up to the matches recorded (RecordFiring's
\* match_count = alert_events.match_count + EXCLUDED.match_count, alertevents.go).
THEOREM FiringsAddUp == Spec => []MatchCountConserved
  <1>1. Init => CountsInv
    BY InitRaises, InitCounts DEF CountsInv
  <1>2. CountsInv /\ [Next]_vars => CountsInv'
    BY StepRaises, StepCounts DEF CountsInv
  <1>3. CountsInv => MatchCountConserved
    BY DEF CountsInv
  <1>4. QED
    BY <1>1, <1>2, <1>3, PTL DEF Spec
-----------------------------------------------------------------------------
(* The refinement of AlertLifecycle. *)

\* The abstract state, as ImplementsLifecycle maps it.
Alert == [r \in Rules |-> [k \in Keys |-> AlertOf(r, k)]]

\* An open event is the alert of its key, before and after a step.
LEMMA OpenIsTheAlert ==
  ASSUME AtMostOneOpen, NEW r, NEW k, NEW e \in OpenEvents(r, k)
  PROVE  AlertOf(r, k) = [state |-> events[e].state, count |-> events[e].count]
  <1>1. (CHOOSE f \in OpenEvents(r, k) : TRUE) \in OpenEvents(r, k)
    OBVIOUS
  <1>2. (CHOOSE f \in OpenEvents(r, k) : TRUE) = e
    BY <1>1 DEF AtMostOneOpen, OpenEvents
  <1>3. QED
    BY <1>2 DEF AlertOf

LEMMA OpenIsTheNextAlert ==
  ASSUME AtMostOneOpen', NEW r, NEW k, NEW e \in OpenEvents(r, k)'
  PROVE  AlertOf(r, k)' = [state |-> events'[e].state, count |-> events'[e].count]
  <1>1. (CHOOSE f \in OpenEvents(r, k)' : TRUE) \in OpenEvents(r, k)'
    OBVIOUS
  <1>2. (CHOOSE f \in OpenEvents(r, k)' : TRUE) = e
    BY <1>1 DEF AtMostOneOpen, OpenEvents
  <1>3. QED
    BY <1>2 DEF AlertOf

\* A key whose open events are the same, in the same state, has the same alert.
LEMMA SameAlert ==
  ASSUME NEW r, NEW k, OpenEvents(r, k)' = OpenEvents(r, k),
         \A e \in OpenEvents(r, k) : /\ events'[e].state = events[e].state
                                     /\ events'[e].count = events[e].count
  PROVE  AlertOf(r, k)' = AlertOf(r, k)
  BY DEF AlertOf

\* One alert changes.
LEMMA OneAlertChanges ==
  ASSUME NEW r \in Rules, NEW k \in Keys, NEW x, AlertOf(r, k)' = x,
         \A q \in Rules, m \in Keys : ~(q = r /\ m = k) => AlertOf(q, m)' = AlertOf(q, m)
  PROVE  Alert' = [Alert EXCEPT ![r][k] = x]
  BY DEF Alert

\* None does.
LEMMA NoAlertChanges ==
  ASSUME DOMAIN events' = DOMAIN events,
         \A e \in DOMAIN events :
            /\ events'[e].rule = events[e].rule /\ events'[e].key = events[e].key
            /\ events'[e].state = events[e].state /\ events'[e].count = events[e].count
  PROVE  Alert' = Alert
  <1>1. \A r \in Rules, k \in Keys : OpenEvents(r, k)' = OpenEvents(r, k)
    BY DEF OpenEvents, Open
  <1>2. \A r \in Rules, k \in Keys : AlertOf(r, k)' = AlertOf(r, k)
    <2> TAKE r \in Rules, k \in Keys
    <2>1. \A e \in OpenEvents(r, k) : /\ events'[e].state = events[e].state
                                      /\ events'[e].count = events[e].count
      BY DEF OpenEvents
    <2>2. QED
      BY <1>1, <2>1, SameAlert
  <1>3. QED
    BY <1>2 DEF Alert

\* A step that only touches row e leaves the alerts of the other keys alone.
LEMMA OtherAlertsStay ==
  ASSUME NEW e, NEW r, NEW k, DOMAIN events' \cup {e} = DOMAIN events \cup {e},
         e \in DOMAIN events => events[e].rule = r /\ events[e].key = k,
         e \in DOMAIN events' => events'[e].rule = r /\ events'[e].key = k,
         \A f \in DOMAIN events : f # e => events'[f] = events[f]
  PROVE  \A q \in Rules, m \in Keys : ~(q = r /\ m = k) => AlertOf(q, m)' = AlertOf(q, m)
  <1> TAKE q \in Rules, m \in Keys
  <1> HAVE ~(q = r /\ m = k)
  <1>1. OpenEvents(q, m)' = OpenEvents(q, m)
    BY DEF OpenEvents, Open
  <1>2. \A f \in OpenEvents(q, m) : /\ events'[f].state = events[f].state
                                    /\ events'[f].count = events[f].count
    BY DEF OpenEvents
  <1>3. QED
    BY <1>1, <1>2, SameAlert

\* A firing fires the alert.
LEMMA RecordFires ==
  ASSUME RaisesInv, AtMostOneOpen', NEW w \in Workers, RecordFiring(w)
  PROVE  \E r \in Rules, k \in Keys, n \in 1 .. MaxMatch : Lifecycle!Fire(r, k, n)
  <1>t. TypeOK /\ AtMostOneOpen /\ job[w] \in Job /\ job[w].matched \in 1 .. MaxMatch
    BY DEF RaisesInv, IInv, TypeOK, RecordFiring, RaiseOK
  <1>1. PICK j \in Job : j = job[w]
    BY <1>t
  <1>2. PICK id \in Nat :
           \/ /\ OpenEvents(j.rule, j.key) = {} /\ id \notin DOMAIN events
              /\ DOMAIN events' = DOMAIN events \cup {id}
              /\ \A e \in DOMAIN events : events'[e] = events[e]
              /\ events'[id] = NewEvent(j)
           \/ /\ id \in OpenEvents(j.rule, j.key) /\ events[id] \in Event
              /\ DOMAIN events' = DOMAIN events
              /\ \A e \in DOMAIN events : e # id => events'[e] = events[e]
              /\ events'[id] = Fold(events[id], j)
    BY <1>t, <1>1, Recorded
  <1>3. PICK r \in Rules, k \in Keys, n \in 1 .. MaxMatch : r = j.rule /\ k = j.key /\ n = j.matched
    BY <1>1, <1>t DEF Job
  <1> DEFINE old == AlertOf(r, k)
             x == [state |-> IF old.state = "clear" THEN "firing" ELSE old.state,
                   count |-> old.count + n]
             Fires == /\ AlertOf(r, k)' = x
                      /\ \A q \in Rules, m \in Keys : ~(q = r /\ m = k) => AlertOf(q, m)' = AlertOf(q, m)
  <1>4. ASSUME /\ OpenEvents(j.rule, j.key) = {} /\ id \notin DOMAIN events
               /\ DOMAIN events' = DOMAIN events \cup {id}
               /\ \A e \in DOMAIN events : events'[e] = events[e]
               /\ events'[id] = NewEvent(j)
        PROVE  Fires
    <2>1. old = [state |-> "clear", count |-> 0]
      BY <1>3, <1>4 DEF AlertOf
    <2>2. NewEvent(j).rule = r /\ NewEvent(j).key = k /\ NewEvent(j).state = "firing"
          /\ NewEvent(j).count = n
      BY <1>3 DEF NewEvent
    <2>3. id \in OpenEvents(r, k)'
      BY <1>4, <2>2 DEF OpenEvents, Open
    <2>4. AlertOf(r, k)' = [state |-> "firing", count |-> n]
      BY <1>4, <2>2, <2>3, <1>t, OpenIsTheNextAlert
    <2>5. n = 0 + n
      BY ConstantsAssumption
    <2>6. AlertOf(r, k)' = x
      BY <2>1, <2>4, <2>5
    <2>7. \A q \in Rules, m \in Keys : ~(q = r /\ m = k) => AlertOf(q, m)' = AlertOf(q, m)
      BY <1>4, <2>2, OtherAlertsStay
    <2>8. QED
      BY <2>6, <2>7
  <1>5. ASSUME /\ id \in OpenEvents(j.rule, j.key) /\ events[id] \in Event
               /\ DOMAIN events' = DOMAIN events
               /\ \A e \in DOMAIN events : e # id => events'[e] = events[e]
               /\ events'[id] = Fold(events[id], j)
        PROVE  Fires
    <2>1. old = [state |-> events[id].state, count |-> events[id].count]
      BY <1>3, <1>5, <1>t, OpenIsTheAlert
    <2>2. /\ events'[id].rule = r /\ events'[id].key = k
          /\ events'[id].state = events[id].state /\ events'[id].count = events[id].count + n
          /\ id \in DOMAIN events /\ events[id].rule = r /\ events[id].key = k /\ Open(id)
      BY <1>3, <1>5, FoldType DEF OpenEvents
    <2>3. id \in OpenEvents(r, k)'
      BY <1>5, <2>2 DEF OpenEvents, Open
    <2>4. AlertOf(r, k)' = x
      BY <2>1, <2>2, <2>3, <1>t, OpenIsTheNextAlert DEF Open
    <2>5. \A q \in Rules, m \in Keys : ~(q = r /\ m = k) => AlertOf(q, m)' = AlertOf(q, m)
      BY <1>5, <2>2, OtherAlertsStay
    <2>6. QED
      BY <2>4, <2>5
  <1>6. Fires
    BY <1>2, <1>4, <1>5
  <1>7. Alert' = [Alert EXCEPT ![r][k] = x] /\ Alert[r][k] = old
    <2>1. PICK y : y = x
      OBVIOUS
    <2>2. Alert' = [Alert EXCEPT ![r][k] = y]
      BY <1>6, <2>1, OneAlertChanges
    <2>3. QED
      BY <2>1, <2>2 DEF Alert
  <1>8. Lifecycle!Fire(r, k, n)
    BY <1>7 DEF Lifecycle!Fire, Alert
  <1>9. QED
    BY <1>8

\* Acknowledging acknowledges the alert of the event's key.
LEMMA AcknowledgeAcknowledges ==
  ASSUME IInv, AtMostOneOpen', NEW e \in DOMAIN events, AcknowledgeEvent(e)
  PROVE  \E r \in Rules, k \in Keys : Lifecycle!Acknowledge(r, k)
  <1>1. events \in Seq(Event) /\ events[e] \in Event /\ AtMostOneOpen
    BY DEF IInv, TypeOK
  <1>2. PICK r \in Rules, k \in Keys : r = events[e].rule /\ k = events[e].key
    BY <1>1 DEF Event
  <1>3. /\ events[e].state = "firing" /\ DOMAIN events' = DOMAIN events
        /\ \A f \in DOMAIN events : f # e => events'[f] = events[f]
        /\ events'[e].rule = r /\ events'[e].key = k /\ events'[e].state = "acknowledged"
        /\ events'[e].count = events[e].count
    BY <1>1, <1>2 DEF AcknowledgeEvent, Event
  <1>4. e \in OpenEvents(r, k) /\ e \in OpenEvents(r, k)'
    BY <1>2, <1>3 DEF OpenEvents, Open
  <1>5. AlertOf(r, k) = [state |-> "firing", count |-> events[e].count]
    BY <1>1, <1>3, <1>4, OpenIsTheAlert
  <1>6. PICK x : x = [state |-> "acknowledged", count |-> events[e].count]
    OBVIOUS
  <1>7. AlertOf(r, k)' = x
    BY <1>3, <1>4, <1>6, OpenIsTheNextAlert
  <1>o. \A q \in Rules, m \in Keys : ~(q = r /\ m = k) => AlertOf(q, m)' = AlertOf(q, m)
    BY <1>2, <1>3, OtherAlertsStay
  <1>8. Alert' = [Alert EXCEPT ![r][k] = x]
    BY <1>o, <1>7, OneAlertChanges
  <1>9. Alert' = [Alert EXCEPT ![r][k].state = "acknowledged"] /\ Alert[r][k].state = "firing"
    <2>1. Alert[r][k] = [state |-> "firing", count |-> events[e].count]
      BY <1>5 DEF Alert
    <2>2. [Alert[r][k] EXCEPT !.state = "acknowledged"] = x
      BY <1>6, <2>1
    <2>3. [Alert EXCEPT ![r][k].state = "acknowledged"]
             = [Alert EXCEPT ![r] = [Alert[r] EXCEPT ![k] = [Alert[r][k] EXCEPT !.state = "acknowledged"]]]
      OBVIOUS
    <2>4. [Alert EXCEPT ![r][k] = x] = [Alert EXCEPT ![r] = [Alert[r] EXCEPT ![k] = x]]
      OBVIOUS
    <2>5. [Alert EXCEPT ![r][k].state = "acknowledged"] = [Alert EXCEPT ![r][k] = x]
      BY <2>2, <2>3, <2>4, Zenon
    <2>6. Alert[r][k].state = "firing"
      BY <2>1
    <2>7. QED
      BY <1>8, <2>5, <2>6
  <1>10. QED
    BY <1>9 DEF Lifecycle!Acknowledge, Alert

\* Resolving an open event closes the alert of its key.
LEMMA ResolveCloses ==
  ASSUME IInv, AtMostOneOpen', NEW e \in DOMAIN events, Open(e),
         events' = [events EXCEPT ![e].state = "resolved"]
  PROVE  \E r \in Rules, k \in Keys : Lifecycle!Close(r, k)
  <1>1. events \in Seq(Event) /\ events[e] \in Event /\ AtMostOneOpen
    BY DEF IInv, TypeOK
  <1>2. PICK r \in Rules, k \in Keys : r = events[e].rule /\ k = events[e].key
    BY <1>1 DEF Event
  <1>3. /\ DOMAIN events' = DOMAIN events
        /\ \A f \in DOMAIN events : f # e => events'[f] = events[f]
        /\ events'[e].rule = r /\ events'[e].key = k /\ events'[e].state = "resolved"
    BY <1>1, <1>2 DEF Event
  <1>4. e \in OpenEvents(r, k)
    BY <1>2 DEF OpenEvents
  <1>5. AlertOf(r, k).state # "clear"
    BY <1>1, <1>4, OpenIsTheAlert DEF Open
  <1>6. OpenEvents(r, k)' = {}
    <2> SUFFICES ASSUME NEW f \in OpenEvents(r, k)' PROVE FALSE
      OBVIOUS
    <2>1. f # e /\ f \in DOMAIN events /\ events'[f] = events[f]
      BY <1>3 DEF OpenEvents, Open
    <2>2. f \in OpenEvents(r, k)
      BY <2>1 DEF OpenEvents, Open
    <2>3. QED
      BY <1>1, <1>4, <2>1, <2>2 DEF AtMostOneOpen, OpenEvents
  <1>7. PICK x : x = Lifecycle!Clear
    OBVIOUS
  <1>8. AlertOf(r, k)' = x
    BY <1>6, <1>7 DEF AlertOf, Lifecycle!Clear
  <1>9. \A q \in Rules, m \in Keys : ~(q = r /\ m = k) => AlertOf(q, m)' = AlertOf(q, m)
    BY <1>2, <1>3, OtherAlertsStay
  <1>10. Alert' = [Alert EXCEPT ![r][k] = x]
    BY <1>8, <1>9, OneAlertChanges
  <1>11. QED
    BY <1>5, <1>7, <1>10 DEF Lifecycle!Close, Alert

\* Deleting a rule drops its alerts.
LEMMA DeleteDrops ==
  ASSUME IInv, NEW r \in Rules, DeleteRule(r)
  PROVE  Lifecycle!DropRule(r)
  <1>1. /\ \A e \in DOMAIN events : events[e] \in Event
        /\ events' = [e \in DOMAIN events |->
              IF events[e].rule = r THEN [events[e] EXCEPT !.state = "deleted"] ELSE events[e]]
    BY DEF IInv, TypeOK, DeleteRule
  <1>2. DOMAIN events' = DOMAIN events
        /\ \A e \in DOMAIN events :
             /\ events[e].rule = r => events'[e].rule = r /\ events'[e].state = "deleted"
             /\ events[e].rule # r => events'[e] = events[e]
    BY <1>1 DEF Event
  <1>3. ASSUME NEW k \in Keys PROVE AlertOf(r, k)' = Lifecycle!Clear
    <2>1. OpenEvents(r, k)' = {}
      BY <1>2 DEF OpenEvents, Open
    <2>2. QED
      BY <2>1 DEF AlertOf, Lifecycle!Clear
  <1>4. ASSUME NEW q \in Rules, q # r, NEW k \in Keys PROVE AlertOf(q, k)' = AlertOf(q, k)
    <2>1. OpenEvents(q, k)' = OpenEvents(q, k)
      BY <1>2, <1>4 DEF OpenEvents, Open
    <2>2. \A e \in OpenEvents(q, k) : /\ events'[e].state = events[e].state
                                      /\ events'[e].count = events[e].count
      BY <1>2, <1>4 DEF OpenEvents
    <2>3. QED
      BY <2>1, <2>2, SameAlert
  <1>5. Alert' = [Alert EXCEPT ![r] = [k \in Keys |-> Lifecycle!Clear]]
    BY <1>3, <1>4 DEF Alert
  <1>6. QED
    BY <1>5 DEF Lifecycle!DropRule, Alert

\* Before anything fired every alert is clear.
LEMMA InitIsClear == Init => Lifecycle!Init
  <1> SUFFICES ASSUME Init PROVE Lifecycle!Init
    OBVIOUS
  <1>1. \A r \in Rules, k \in Keys : AlertOf(r, k) = Lifecycle!Clear
    BY DEF Init, AlertOf, OpenEvents, Lifecycle!Clear
  <1>2. QED
    BY <1>1 DEF Lifecycle!Init

\* Every step is a step of the lifecycle or leaves every alert as it was.
LEMMA StepIsLifecycle ==
  ASSUME RaisesInv, RaisesInv', [Next]_vars
  PROVE  Lifecycle!Next \/ Alert' = Alert
  <1>t. IInv /\ AtMostOneOpen' /\ TypeOK /\ HeldEventsExist /\ events \in Seq(Event)
    BY DEF RaisesInv, IInv, TypeOK
  <1>1. ASSUME NEW w \in Workers, ResolveOpen(w) PROVE Lifecycle!Next \/ Alert' = Alert
    <2>1. PICK e \in DOMAIN events : e = job[w].event
      BY <1>1, <1>t DEF HeldEventsExist, ResolveOpen
    <2>2. events' = (IF Open(e) THEN [events EXCEPT ![e].state = "resolved"] ELSE events)
      BY <1>1, <2>1 DEF ResolveOpen
    <2>3. CASE Open(e)
      BY <2>2, <2>3, <1>t, ResolveCloses DEF Lifecycle!Next
    <2>4. CASE ~Open(e)
      BY <2>2, <2>4, NoAlertChanges
    <2>5. QED
      BY <2>3, <2>4
  <1>2. ASSUME NEW w \in Workers, RecordFiring(w) PROVE Lifecycle!Next
    BY <1>2, <1>t, RecordFires DEF Lifecycle!Next
  <1>3. ASSUME NEW w \in Workers, MarkNotified(w) PROVE Alert' = Alert
    <2>1. PICK e \in DOMAIN events : e = job[w].event
      BY <1>3, <1>t DEF HeldEventsExist, MarkNotified
    <2>2. events' = (IF events[e].state = "deleted" THEN events
                     ELSE [events EXCEPT ![e].notified = job[w].now])
      BY <1>3, <2>1 DEF MarkNotified
    <2>3. /\ DOMAIN events' = DOMAIN events
          /\ \A f \in DOMAIN events :
               /\ events'[f].rule = events[f].rule /\ events'[f].key = events[f].key
               /\ events'[f].state = events[f].state /\ events'[f].count = events[f].count
      BY <2>2, <1>t DEF Event
    <2>4. QED
      BY <2>3, NoAlertChanges
  <1>4. ASSUME NEW e \in DOMAIN events, AcknowledgeEvent(e) PROVE Lifecycle!Next
    BY <1>4, <1>t, AcknowledgeAcknowledges DEF Lifecycle!Next
  <1>5. ASSUME NEW e \in DOMAIN events, ResolveEvent(e) PROVE Lifecycle!Next
    BY <1>5, <1>t, ResolveCloses DEF Lifecycle!Next, ResolveEvent
  <1>6. ASSUME NEW r \in Rules, DeleteRule(r) PROVE Lifecycle!Next
    BY <1>6, <1>t, DeleteDrops DEF Lifecycle!Next
  <1>7. ASSUME UNCHANGED events PROVE Alert' = Alert
    BY <1>7, NoAlertChanges
  <1>8. QED
    BY <1>1, <1>2, <1>3, <1>4, <1>5, <1>6, <1>7
       DEF Next, WorkerStep, WorkerFault, Operator, QueryActiveRules, QueryThresholdRules, SkipRule,
           QueryOpenEvent, QueryOpenToResolve, SendAlert, RaiseFails, Abandon, UpdateRule,
           UpdateIntegration, DisableRulesByConnection, CreateMaintenanceWindow,
           DeleteMaintenanceWindow, Tick, vars

\* The racing raises, evaluators and operators implement one alert per rule and key
\* that fires, is acknowledged while nobody owns it, is closed, and goes with its rule:
\* readers of the alerting API see no other history (integrationbus.go, alertdb).
THEOREM RacesImplementLifecycle == Spec => ImplementsLifecycle
  <1>1. RaisesInv /\ RaisesInv' /\ [Next]_vars => [Lifecycle!Next]_Alert
    BY StepIsLifecycle
  <1>2. QED
    BY <1>1, InitIsClear, InitRaises, StepRaises, PTL DEF Spec, ImplementsLifecycle, Lifecycle!Spec, Alert

-----------------------------------------------------------------------------
(* AlertRules: where an alert may go. *)

ConnRow    == [live: BOOLEAN, project: Teams \cup {AnyTeam}, name: 0 .. 2, enabled: BOOLEAN]
Conds      == Conditions \cup {LevelCondition("ERROR")}
RuleRecord == [live: BOOLEAN, project: Teams \cup {AnyTeam}, conn: ConnIds \cup {AnyConn},
               level: UsedLevels \cup {"ERROR", "removed"}, cond: Conds, active: BOOLEAN]

ConnEdit == [doing: {"update", "disable", "suspend", "test"}, id: ConnIds, row: ConnRow]
RuleEdit == [doing: {"rule", "toggle", "remove"}, id: RuleIds, row: RuleRecord]

\* c is a connection of project p.
Home(c, p) == c \in ConnIds /\ conn[c].live /\ conn[c].project = p

RowsTyped ==
    /\ conn \in [ConnIds -> ConnRow]
    /\ rule \in [RuleIds -> RuleRecord]
    /\ edit \in [Editors -> {NoEdit} \cup ConnEdit \cup RuleEdit]
    /\ dispatch \in [project: Teams \cup {AnyTeam}, todo: SUBSET RuleIds,
                     rows: [RuleIds -> RuleRecord] \cup {<<>>}]
    /\ sent \in [project: Teams \cup {AnyTeam}, conn: ConnIds \cup {AnyConn},
                 done: BOOLEAN, off: BOOLEAN]
    /\ logTable \in Seq(Logs)

\* Every rule, in the table, in a request's copy or in a batch, routes to a connection
\* of its project; every copy of a connection has the row's project; so has a delivery.
RulesAtHome    == \A r \in RuleIds : rule[r].live => Home(rule[r].conn, rule[r].project)
CopyAtHome(e)  ==
    /\ edit[e] \in ConnEdit => edit[e].row.live /\ Home(edit[e].id, edit[e].row.project)
    /\ edit[e] \in RuleEdit => Home(edit[e].row.conn, edit[e].row.project)
BatchAtHome    ==
    \A r \in dispatch.todo : /\ dispatch.rows \in [RuleIds -> RuleRecord]
                             /\ Home(dispatch.rows[r].conn, dispatch.project)
DeliveryAtHome == sent.done => Home(sent.conn, sent.project)

RoutesInv ==
    RowsTyped /\ RulesAtHome /\ (\A e \in Editors : CopyAtHome(e)) /\ BatchAtHome /\ DeliveryAtHome

\* A connection stays a connection of its project.
HomesStay == \A c \in ConnIds : conn[c].live => conn'[c].live /\ conn'[c].project = conn[c].project

LEMMA StaysHome ==
  ASSUME HomesStay, NEW c, NEW p, Home(c, p)
  PROVE  Home(c, p)'
  BY DEF HomesStay, Home

\* A request's copy is of a connection or of a rule.
LEMMA CopyKinds ==
  ASSUME NEW x \in {NoEdit} \cup ConnEdit \cup RuleEdit
  PROVE  /\ x.doing \in {"update", "disable", "suspend", "test"} => x \in ConnEdit
         /\ x.doing \in {"rule", "toggle", "remove"} => x \in RuleEdit
         /\ NoEdit \notin ConnEdit /\ NoEdit \notin RuleEdit
         /\ x \in ConnEdit => x \notin RuleEdit
  BY DEF NoEdit, ConnEdit, RuleEdit

LEMMA InitRoutes == AlertRulesInit => RoutesInv
  <1> SUFFICES ASSUME AlertRulesInit PROVE RoutesInv
    OBVIOUS
  <1>1. NoConn \in ConnRow
    BY DEF NoConn, ConnRow
  <1>2. [type |-> "level", level |-> "ERROR"] \in Conds
    BY DEF Conds, LevelCondition
  <1>3. NoRule \in RuleRecord
    BY <1>2 DEF NoRule, RuleRecord
  <1>4. RowsTyped
    BY <1>1, <1>3 DEF AlertRulesInit, RowsTyped, NoBatch, NotSent
  <1>5. RulesAtHome /\ BatchAtHome /\ DeliveryAtHome
    BY DEF AlertRulesInit, RulesAtHome, BatchAtHome, DeliveryAtHome, NoRule, NoBatch, NotSent
  <1>6. \A e \in Editors : CopyAtHome(e)
    BY DEF AlertRulesInit, CopyAtHome, NoEdit, ConnEdit, RuleEdit
  <1>7. QED
    BY <1>4, <1>5, <1>6 DEF RoutesInv

\* What a step that keeps the connections and does not touch the rest keeps.
LEMMA RulesKept ==
  ASSUME RulesAtHome, HomesStay, UNCHANGED rule PROVE RulesAtHome'
  <1> SUFFICES ASSUME NEW r \in RuleIds, rule[r].live PROVE Home(rule[r].conn, rule[r].project)'
    BY DEF RulesAtHome
  <1>1. PICK c, p : c = rule[r].conn /\ p = rule[r].project
    OBVIOUS
  <1>2. Home(c, p)'
    BY <1>1, StaysHome DEF RulesAtHome
  <1>3. QED
    BY <1>1, <1>2 DEF Home

LEMMA CopyKept ==
  ASSUME NEW e \in Editors, CopyAtHome(e), HomesStay, edit'[e] = edit[e] PROVE CopyAtHome(e)'
  <1>1. PICK x : x = edit[e]
    OBVIOUS
  <1>2. /\ x \in ConnEdit => x.row.live /\ Home(x.id, x.row.project)
        /\ x \in RuleEdit => Home(x.row.conn, x.row.project)
    BY <1>1 DEF CopyAtHome
  <1>3. /\ x \in ConnEdit => x.row.live /\ Home(x.id, x.row.project)'
        /\ x \in RuleEdit => Home(x.row.conn, x.row.project)'
    BY <1>2, StaysHome
  <1>4. QED
    BY <1>1, <1>3 DEF CopyAtHome, Home

LEMMA BatchKept ==
  ASSUME BatchAtHome, HomesStay, UNCHANGED dispatch PROVE BatchAtHome'
  <1>1. PICK d : d = dispatch
    OBVIOUS
  <1>2. \A r \in d.todo : d.rows \in [RuleIds -> RuleRecord] /\ Home(d.rows[r].conn, d.project)
    BY <1>1 DEF BatchAtHome
  <1>3. \A r \in d.todo : d.rows \in [RuleIds -> RuleRecord] /\ Home(d.rows[r].conn, d.project)'
    BY <1>2, StaysHome
  <1>4. QED
    BY <1>1, <1>3 DEF BatchAtHome, Home

LEMMA DeliveryKept ==
  ASSUME DeliveryAtHome, HomesStay, UNCHANGED sent PROVE DeliveryAtHome'
  <1>1. PICK d : d = sent
    OBVIOUS
  <1>2. d.done => Home(d.conn, d.project)'
    BY <1>1, StaysHome DEF DeliveryAtHome
  <1>3. QED
    BY <1>1, <1>2 DEF DeliveryAtHome, Home

\* A request's step that leaves its own copy at home, the rules typed and at home.
LEMMA EditStep ==
  ASSUME RoutesInv, HomesStay, NEW e \in Editors, NEW x \in {NoEdit} \cup ConnEdit \cup RuleEdit,
         edit' = [edit EXCEPT ![e] = x], CopyAtHome(e)',
         conn' \in [ConnIds -> ConnRow], rule' \in [RuleIds -> RuleRecord], RulesAtHome',
         UNCHANGED <<dispatch, sent, logTable>>
  PROVE  RoutesInv'
  <1>1. RowsTyped'
    BY DEF RoutesInv, RowsTyped
  <1>2. ASSUME NEW f \in Editors, f # e PROVE CopyAtHome(f)'
    BY <1>2, CopyKept DEF RoutesInv, RowsTyped
  <1>3. \A f \in Editors : CopyAtHome(f)'
    BY <1>2
  <1>4. BatchAtHome' /\ DeliveryAtHome'
    BY BatchKept, DeliveryKept DEF RoutesInv
  <1>5. QED
    BY <1>1, <1>3, <1>4 DEF RoutesInv

\* Nobody's copy moves.
LEMMA RowStepAtHome ==
  ASSUME RoutesInv, HomesStay, UNCHANGED edit, RowsTyped', RulesAtHome', BatchAtHome', DeliveryAtHome'
  PROVE  RoutesInv'
  <1>1. \A e \in Editors : CopyAtHome(e)'
    BY CopyKept DEF RoutesInv
  <1>2. QED
    BY <1>1 DEF RoutesInv

\* A request that has nothing loaded promises nothing.
LEMMA NoCopy ==
  ASSUME NEW e \in Editors, edit'[e] = NoEdit PROVE CopyAtHome(e)'
  BY CopyKinds DEF CopyAtHome

LEMMA SameConns ==
  ASSUME UNCHANGED conn PROVE HomesStay
  BY DEF HomesStay

\* A connection is created where none was, or written back from a copy of itself.
LEMMA ConnectionWritten ==
  ASSUME RoutesInv, NEW c \in ConnIds, NEW row \in ConnRow, conn' = [conn EXCEPT ![c] = row],
         conn[c].live => row.live /\ row.project = conn[c].project
  PROVE  HomesStay /\ conn' \in [ConnIds -> ConnRow]
  BY DEF RoutesInv, RowsTyped, HomesStay

LEMMA CreateIntegrationRoutes ==
  ASSUME RoutesInv, NEW e, NEW p \in Teams, NEW c \in ConnIds, NEW name \in 1 .. 2,
         CreateIntegration(e, p, c, name)
  PROVE  RoutesInv'
  <1>1. NewIntegration(p, name) \in ConnRow
    BY DEF NewIntegration, ConnRow
  <1>2. HomesStay /\ conn' \in [ConnIds -> ConnRow]
    BY <1>1, ConnectionWritten DEF CreateIntegration
  <1>3. UNCHANGED <<rule, edit, logTable, dispatch, sent>>
    BY DEF CreateIntegration
  <1>4. RulesAtHome' /\ BatchAtHome' /\ DeliveryAtHome'
    BY <1>2, <1>3, RulesKept, BatchKept, DeliveryKept DEF RoutesInv
  <1>5. RowsTyped'
    BY <1>2, <1>3 DEF RoutesInv, RowsTyped
  <1>6. QED
    BY <1>2, <1>3, <1>4, <1>5, RowStepAtHome

LEMMA ProjectConnectionRoutes ==
  ASSUME RoutesInv, NEW e \in Editors, NEW p \in Teams, NEW c \in ConnIds,
         NEW doing \in {"update", "disable", "test"}, ProjectConnection(e, p, c, doing)
  PROVE  RoutesInv'
  <1>1. UNCHANGED <<conn, rule, dispatch, sent, logTable>> /\ conn[c].live
    BY DEF ProjectConnection
  <1>2. PICK x : x = [doing |-> doing, id |-> c, row |-> conn[c]]
    OBVIOUS
  <1>3. x \in ConnEdit /\ x.row = conn[c] /\ x.id = c
    BY <1>2 DEF ConnEdit, RoutesInv, RowsTyped
  <1>4. edit' = [edit EXCEPT ![e] = x] /\ edit'[e] = x
    BY <1>2 DEF ProjectConnection, RoutesInv, RowsTyped
  <1>5. CopyAtHome(e)'
    BY <1>1, <1>3, <1>4, CopyKinds DEF CopyAtHome, Home
  <1>6. HomesStay /\ RulesAtHome'
    BY <1>1, SameConns, RulesKept DEF RoutesInv
  <1>7. QED
    BY <1>1, <1>3, <1>4, <1>5, <1>6, EditStep DEF RoutesInv, RowsTyped

\* What a request that works on a connection has loaded.
LEMMA ConnCopy ==
  ASSUME RoutesInv, NEW e \in Editors, edit[e].doing \in {"update", "disable", "suspend", "test"}
  PROVE  /\ edit[e] \in ConnEdit /\ edit[e].id \in ConnIds /\ edit[e].row \in ConnRow
         /\ edit[e].row.live /\ Home(edit[e].id, edit[e].row.project)
  <1>1. edit[e] \in ConnEdit
    BY CopyKinds DEF RoutesInv, RowsTyped
  <1>2. QED
    BY <1>1 DEF RoutesInv, CopyAtHome, ConnEdit

LEMMA RuleCopy ==
  ASSUME RoutesInv, NEW e \in Editors, edit[e].doing \in {"rule", "toggle", "remove"}
  PROVE  /\ edit[e] \in RuleEdit /\ edit[e].id \in RuleIds /\ edit[e].row \in RuleRecord
         /\ Home(edit[e].row.conn, edit[e].row.project)
  <1>1. edit[e] \in RuleEdit
    BY CopyKinds DEF RoutesInv, RowsTyped
  <1>2. QED
    BY <1>1 DEF RoutesInv, CopyAtHome, RuleEdit

LEMMA SaveIntegrationRoutes ==
  ASSUME RoutesInv, NEW e \in Editors, NEW on \in BOOLEAN, SaveIntegration(e, on)
  PROVE  RoutesInv'
  <1>1. PICK c, old : c = edit[e].id /\ old = edit[e].row
    OBVIOUS
  <1>2. c \in ConnIds /\ old \in ConnRow /\ old.live /\ Home(c, old.project)
    BY <1>1, ConnCopy DEF SaveIntegration
  <1>3. PICK row : row = [old EXCEPT !.enabled = on]
    OBVIOUS
  <1>4. row \in ConnRow /\ row.live /\ row.project = old.project
    BY <1>2, <1>3 DEF ConnRow
  <1>5. conn' = [conn EXCEPT ![c] = row]
    BY <1>1, <1>3 DEF SaveIntegration, WriteConn
  <1>6. HomesStay /\ conn' \in [ConnIds -> ConnRow]
    BY <1>2, <1>4, <1>5, ConnectionWritten DEF Home
  <1>7. edit' = [edit EXCEPT ![e] = NoEdit] /\ edit'[e] = NoEdit /\ UNCHANGED <<rule, dispatch, sent, logTable>>
    BY DEF SaveIntegration, RoutesInv, RowsTyped
  <1>8. CopyAtHome(e)' /\ RulesAtHome'
    BY <1>6, <1>7, NoCopy, RulesKept DEF RoutesInv
  <1>9. QED
    BY <1>6, <1>7, <1>8, EditStep DEF RoutesInv, RowsTyped

LEMMA DisableRoutes ==
  ASSUME RoutesInv, NEW e \in Editors, Disable(e)
  PROVE  RoutesInv'
  <1>1. PICK x : x = edit[e]
    OBVIOUS
  <1>2. x \in ConnEdit /\ x.id \in ConnIds /\ x.row \in ConnRow /\ x.row.live /\ Home(x.id, x.row.project)
    BY <1>1, ConnCopy DEF Disable
  <1>3. PICK row : row = [x.row EXCEPT !.enabled = FALSE]
    OBVIOUS
  <1>4. row \in ConnRow /\ row.live /\ row.project = x.row.project
    BY <1>2, <1>3 DEF ConnRow
  <1>5. conn' = [conn EXCEPT ![x.id] = row]
    BY <1>1, <1>3 DEF Disable, WriteConn
  <1>6. HomesStay /\ conn' \in [ConnIds -> ConnRow]
    BY <1>2, <1>4, <1>5, ConnectionWritten DEF Home
  <1>7. PICK y : y = [x EXCEPT !.doing = "suspend"]
    OBVIOUS
  <1>8. y \in ConnEdit /\ y.id = x.id /\ y.row = x.row
    BY <1>2, <1>7 DEF ConnEdit
  <1>9. edit' = [edit EXCEPT ![e] = y] /\ edit'[e] = y /\ UNCHANGED <<rule, dispatch, sent, logTable>>
    BY <1>1, <1>7 DEF Disable, RoutesInv, RowsTyped
  <1>10. Home(x.id, x.row.project)'
    BY <1>2, <1>6, StaysHome
  <1>11. CopyAtHome(e)'
    BY <1>2, <1>8, <1>9, <1>10, CopyKinds DEF CopyAtHome, Home
  <1>12. RulesAtHome'
    BY <1>6, <1>9, RulesKept DEF RoutesInv
  <1>13. QED
    BY <1>6, <1>8, <1>9, <1>11, <1>12, EditStep DEF RoutesInv, RowsTyped

\* The request is over; it wrote no connection, and the rules it wrote are at home.
LEMMA OverAtHome ==
  ASSUME RoutesInv, NEW e \in Editors, edit' = [edit EXCEPT ![e] = NoEdit], UNCHANGED conn,
         rule' \in [RuleIds -> RuleRecord], RulesAtHome', UNCHANGED <<dispatch, sent, logTable>>
  PROVE  RoutesInv'
  <1>1. edit'[e] = NoEdit /\ conn' \in [ConnIds -> ConnRow]
    BY DEF RoutesInv, RowsTyped
  <1>2. CopyAtHome(e)' /\ HomesStay
    BY <1>1, NoCopy, SameConns
  <1>3. QED
    BY <1>1, <1>2, EditStep

LEMMA SuspendRulesRoutes ==
  ASSUME RoutesInv, NEW e \in Editors, SuspendRules(e)
  PROVE  RoutesInv'
  <1>1. rule \in [RuleIds -> RuleRecord] /\ RulesAtHome
    BY DEF RoutesInv, RowsTyped
  <1>2. \A x \in RuleRecord : LET y == [x EXCEPT !.active = FALSE]
                              IN  y \in RuleRecord /\ y.conn = x.conn /\ y.project = x.project /\ y.live = x.live
    BY DEF RuleRecord
  <1>3. rule' \in [RuleIds -> RuleRecord]
        /\ \A r \in RuleIds : /\ rule'[r].conn = rule[r].conn /\ rule'[r].project = rule[r].project
                              /\ rule'[r].live = rule[r].live
    BY <1>1, <1>2 DEF SuspendRules
  <1>4. RulesAtHome'
    BY <1>1, <1>3 DEF SuspendRules, RulesAtHome, Home
  <1>5. QED
    BY <1>3, <1>4, OverAtHome DEF SuspendRules

\* One rule is written, and it is at home.
LEMMA RuleWritten ==
  ASSUME RoutesInv, NEW r \in RuleIds, NEW row \in RuleRecord, rule' = [rule EXCEPT ![r] = row],
         row.live => Home(row.conn, row.project), UNCHANGED conn
  PROVE  rule' \in [RuleIds -> RuleRecord] /\ RulesAtHome'
  BY DEF RoutesInv, RowsTyped, RulesAtHome, Home

\* The condition a rule is created or changed with is a condition.
LEMMA AskedType ==
  ASSUME NEW level \in UsedLevels, NEW cond \in Conditions
  PROVE  Asked(level, cond) \in Conds /\ LevelCondition(level) \in Conds /\ cond \in Conds
  BY DEF Asked, Conds, Conditions

LEMMA CreateRuleRoutes ==
  ASSUME RoutesInv, NEW e, NEW p \in Teams, NEW r \in RuleIds, NEW c \in ConnIds,
         NEW level \in UsedLevels, NEW cond \in Conditions, NEW active \in BOOLEAN,
         CreateRule(e, p, r, c, level, cond, active)
  PROVE  RoutesInv'
  <1>1. PICK asked \in Conds : asked = Asked(level, cond)
    BY AskedType
  <1>2. PICK row : row = NewRule(p, c, level, asked, active)
    OBVIOUS
  <1>3. row \in RuleRecord /\ row.conn = c /\ row.project = p
    BY <1>1, <1>2 DEF NewRule, RuleRecord
  <1>4. Home(c, p) /\ rule' = [rule EXCEPT ![r] = row] /\ UNCHANGED <<conn, edit, dispatch, sent, logTable>>
    BY <1>1, <1>2 DEF CreateRule, Routable, Home
  <1>5. rule' \in [RuleIds -> RuleRecord] /\ RulesAtHome'
    BY <1>3, <1>4, RuleWritten
  <1>6. HomesStay /\ BatchAtHome' /\ DeliveryAtHome'
    BY <1>4, SameConns, BatchKept, DeliveryKept DEF RoutesInv
  <1>7. RowsTyped'
    BY <1>4, <1>5 DEF RoutesInv, RowsTyped
  <1>8. QED
    BY <1>4, <1>5, <1>6, <1>7, RowStepAtHome

LEMMA ProjectRuleRoutes ==
  ASSUME RoutesInv, NEW e \in Editors, NEW p \in Teams, NEW r \in RuleIds,
         NEW doing \in {"rule", "toggle", "remove"}, ProjectRule(e, p, r, doing)
  PROVE  RoutesInv'
  <1>1. UNCHANGED <<conn, rule, dispatch, sent, logTable>> /\ rule[r].live /\ rule[r] \in RuleRecord
    BY DEF ProjectRule, RoutesInv, RowsTyped
  <1>2. PICK x : x = [doing |-> doing, id |-> r, row |-> rule[r]]
    OBVIOUS
  <1>3. x \in RuleEdit /\ x.row = rule[r] /\ x.id = r
    BY <1>1, <1>2 DEF RuleEdit
  <1>4. edit' = [edit EXCEPT ![e] = x] /\ edit'[e] = x
    BY <1>2 DEF ProjectRule, RoutesInv, RowsTyped
  <1>5. Home(x.row.conn, x.row.project)
    BY <1>1, <1>3 DEF RoutesInv, RulesAtHome
  <1>6. CopyAtHome(e)'
    BY <1>1, <1>3, <1>4, <1>5, CopyKinds DEF CopyAtHome, Home
  <1>7. HomesStay /\ RulesAtHome'
    BY <1>1, SameConns, RulesKept DEF RoutesInv
  <1>8. QED
    BY <1>1, <1>3, <1>4, <1>6, <1>7, EditStep DEF RoutesInv, RowsTyped

\* Writing back a copy that is at home.
LEMMA SaveRuleRoutes ==
  ASSUME RoutesInv, NEW e \in Editors, edit[e].doing \in {"rule", "toggle", "remove"},
         NEW row \in RuleRecord, Home(row.conn, row.project), SaveRule(e, row)
  PROVE  RoutesInv'
  <1>1. PICK r \in RuleIds : r = edit[e].id
    BY RuleCopy
  <1>2. rule' = (IF rule[r].live THEN [rule EXCEPT ![r] = row] ELSE rule)
        /\ edit' = [edit EXCEPT ![e] = NoEdit] /\ UNCHANGED <<conn, dispatch, sent, logTable>>
    BY <1>1 DEF SaveRule
  <1>3. rule' \in [RuleIds -> RuleRecord] /\ RulesAtHome'
    <2>1. CASE rule[r].live
      BY <1>2, <2>1, RuleWritten
    <2>2. CASE ~rule[r].live
      BY <1>2, <2>2, SameConns, RulesKept DEF RoutesInv, RowsTyped
    <2>3. QED
      BY <2>1, <2>2
  <1>4. QED
    BY <1>2, <1>3, OverAtHome

LEMMA RerouteRuleRoutes ==
  ASSUME RoutesInv, NEW e \in Editors, NEW c \in ConnIds, RerouteRule(e, c)
  PROVE  RoutesInv'
  <1>1. edit[e].doing = "rule"
    BY DEF RerouteRule
  <1>2. PICK old \in RuleRecord : old = edit[e].row
    BY <1>1, RuleCopy
  <1>3. PICK row : row = [old EXCEPT !.conn = c]
    OBVIOUS
  <1>4. row \in RuleRecord /\ row.conn = c /\ row.project = old.project
    BY <1>3 DEF RuleRecord
  <1>5. Home(c, old.project) /\ SaveRule(e, row)
    BY <1>2, <1>3 DEF RerouteRule, Routable, Home
  <1>6. QED
    BY <1>1, <1>4, <1>5, SaveRuleRoutes

LEMMA ChangeRuleRoutes ==
  ASSUME RoutesInv, NEW e \in Editors, NEW level \in UsedLevels, NEW cond \in Conditions,
         ChangeRule(e, level, cond)
  PROVE  RoutesInv'
  <1>1. edit[e].doing = "rule"
    BY DEF ChangeRule
  <1>2. PICK old \in RuleRecord : old = edit[e].row
    BY <1>1, RuleCopy
  <1>3. PICK next \in Conds : next = IF cond.type # "omitted" THEN cond
                                     ELSE IF old.cond.type = "level" THEN LevelCondition(level) ELSE old.cond
    BY AskedType DEF RuleRecord
  <1>4. PICK row : row = [old EXCEPT !.level = level, !.cond = next]
    OBVIOUS
  <1>5. row \in RuleRecord /\ row.conn = old.conn /\ row.project = old.project
    BY <1>4 DEF RuleRecord
  <1>6. row = Revised(old, level, cond)
    BY <1>3, <1>4 DEF Revised
  <1>7. SaveRule(e, row)
    BY <1>2, <1>6 DEF ChangeRule
  <1>8. QED
    BY <1>1, <1>2, <1>5, <1>7, RuleCopy, SaveRuleRoutes

LEMMA ToggleRuleRoutes ==
  ASSUME RoutesInv, NEW e \in Editors, NEW active \in BOOLEAN, ToggleRule(e, active)
  PROVE  RoutesInv'
  <1>1. edit[e].doing = "toggle"
    BY DEF ToggleRule
  <1>2. PICK old \in RuleRecord : old = edit[e].row
    BY <1>1, RuleCopy
  <1>3. PICK row : row = [old EXCEPT !.active = active]
    OBVIOUS
  <1>4. row \in RuleRecord /\ row.conn = old.conn /\ row.project = old.project
    BY <1>3 DEF RuleRecord
  <1>5. SaveRule(e, row)
    BY <1>2, <1>3 DEF ToggleRule
  <1>6. QED
    BY <1>1, <1>2, <1>4, <1>5, RuleCopy, SaveRuleRoutes

LEMMA RemoveRuleRoutes ==
  ASSUME RoutesInv, NEW e \in Editors, RemoveRule(e)
  PROVE  RoutesInv'
  <1>1. edit[e].id \in RuleIds
    BY RuleCopy DEF RemoveRule
  <1>2. NoRule \in RuleRecord /\ ~NoRule.live
    <2>1. [type |-> "level", level |-> "ERROR"] \in Conds
      BY DEF Conds, LevelCondition
    <2>2. QED
      BY <2>1 DEF NoRule, RuleRecord
  <1>3. Removed \in RuleRecord /\ ~Removed.live
    BY <1>2 DEF Removed, RuleRecord
  <1>4. rule' = [rule EXCEPT ![edit[e].id] = Removed] /\ UNCHANGED <<conn, dispatch, sent, logTable>>
        /\ edit' = [edit EXCEPT ![e] = NoEdit]
    BY DEF RemoveRule
  <1>5. rule' \in [RuleIds -> RuleRecord] /\ RulesAtHome'
    BY <1>1, <1>3, <1>4, RuleWritten
  <1>6. QED
    BY <1>4, <1>5, OverAtHome

\* A batch is the rules of the log's project, in the state they are read in.
LEMMA FireAlertsRoutes ==
  ASSUME RoutesInv, NEW i \in DOMAIN logTable, FireAlerts(i)
  PROVE  RoutesInv'
  <1>1. UNCHANGED <<conn, rule, edit, logTable>> /\ rule \in [RuleIds -> RuleRecord] /\ logTable \in Seq(Logs)
    BY DEF FireAlerts, RoutesInv, RowsTyped
  <1>2. PICK log \in Logs : log = logTable[i]
    BY <1>1
  <1> DEFINE hit == {r \in RuleIds : /\ rule[r].live /\ rule[r].active /\ rule[r].project = log.project
                                     /\ rule[r].cond.type # "threshold" /\ MatchesLog(rule[r].cond, log)}
  <1>3. dispatch' = [project |-> log.project, todo |-> hit, rows |-> rule] /\ sent' = NotSent
    BY <1>2 DEF FireAlerts
  <1>4. RowsTyped'
    <2>1. log.project \in Teams /\ hit \subseteq RuleIds
      BY <1>2 DEF Logs
    <2>2. dispatch' \in [project: Teams \cup {AnyTeam}, todo: SUBSET RuleIds,
                         rows: [RuleIds -> RuleRecord] \cup {<<>>}]
      <3> HIDE DEF hit
      <3>1. QED
        BY <1>1, <1>3, <2>1
    <2>3. QED
      BY <1>1, <1>3, <2>2 DEF RoutesInv, RowsTyped, NotSent
  <1>5. BatchAtHome'
    BY <1>1, <1>3 DEF BatchAtHome, Home, RoutesInv, RulesAtHome
  <1>6. DeliveryAtHome'
    BY <1>3 DEF DeliveryAtHome, NotSent
  <1>7. HomesStay /\ RulesAtHome'
    BY <1>1, SameConns, RulesKept DEF RoutesInv
  <1>8. QED
    BY <1>1, <1>4, <1>5, <1>6, <1>7, RowStepAtHome

LEMMA DeliverAlertRoutes ==
  ASSUME RoutesInv, NEW r \in RuleIds, DeliverAlert(r)
  PROVE  RoutesInv'
  <1>1. UNCHANGED <<conn, rule, edit, logTable>> /\ r \in dispatch.todo
    BY DEF DeliverAlert
  <1>2. PICK d \in [project: Teams \cup {AnyTeam}, todo: SUBSET RuleIds,
                    rows: [RuleIds -> RuleRecord] \cup {<<>>}] : d = dispatch
    BY DEF RoutesInv, RowsTyped
  <1>3. \A q \in d.todo : d.rows \in [RuleIds -> RuleRecord] /\ Home(d.rows[q].conn, d.project)
    BY <1>2 DEF RoutesInv, BatchAtHome
  <1>4. PICK c : c = d.rows[r].conn
    OBVIOUS
  <1>5. Home(c, d.project) /\ c \in ConnIds
    BY <1>1, <1>2, <1>3, <1>4 DEF Home
  <1>6. /\ sent' = (IF conn[c].enabled
                    THEN [project |-> d.project, conn |-> c, done |-> TRUE, off |-> c \in off]
                    ELSE NotSent)
        /\ dispatch' = (IF d.todo \ {r} = {} THEN NoBatch ELSE [d EXCEPT !.todo = d.todo \ {r}])
    BY <1>2, <1>4 DEF DeliverAlert
  <1>7. DeliveryAtHome'
    BY <1>1, <1>5, <1>6 DEF DeliveryAtHome, Home, NotSent
  <1>8. BatchAtHome'
    <2>1. CASE d.todo \ {r} = {}
      BY <2>1, <1>6 DEF BatchAtHome, NoBatch
    <2>2. CASE d.todo \ {r} # {}
      <3>1. PICK x : x = [d EXCEPT !.todo = d.todo \ {r}]
        OBVIOUS
      <3>2. x.todo = d.todo \ {r} /\ x.rows = d.rows /\ x.project = d.project
        BY <3>1
      <3>3. dispatch' = x
        BY <2>2, <3>1, <1>6
      <3>4. QED
        BY <3>2, <3>3, <1>1, <1>3 DEF BatchAtHome, Home
    <2>3. QED
      BY <2>1, <2>2
  <1>9. RowsTyped'
    <2>1. sent' \in [project: Teams \cup {AnyTeam}, conn: ConnIds \cup {AnyConn},
                     done: BOOLEAN, off: BOOLEAN]
      <3>1. PICK b \in BOOLEAN : b = (c \in off)
        BY (c \in off) \in BOOLEAN
      <3>2. QED
        BY <3>1, <1>5, <1>6 DEF NotSent
    <2>2. dispatch' \in [project: Teams \cup {AnyTeam}, todo: SUBSET RuleIds,
                         rows: [RuleIds -> RuleRecord] \cup {<<>>}]
      BY <1>6 DEF NoBatch
    <2>3. QED
      BY <2>1, <2>2, <1>1 DEF RoutesInv, RowsTyped
  <1>10. HomesStay /\ RulesAtHome'
    BY <1>1, SameConns, RulesKept DEF RoutesInv
  <1>11. QED
    BY <1>1, <1>7, <1>8, <1>9, <1>10, RowStepAtHome

\* Every step keeps rules, copies and batches at home.
LEMMA StepRoutes == RoutesInv /\ [AlertRulesNext]_ruleVars => RoutesInv'
  <1> SUFFICES ASSUME RoutesInv, [AlertRulesNext]_ruleVars PROVE RoutesInv'
    OBVIOUS
  <1>1. ASSUME NEW e \in Editors, TestIntegration(e) \/ GiveUpEdit(e) PROVE RoutesInv'
    <2>1. edit' = [edit EXCEPT ![e] = NoEdit] /\ UNCHANGED <<conn, rule, dispatch, sent, logTable>>
      BY <1>1 DEF TestIntegration, GiveUpEdit
    <2>2. rule' \in [RuleIds -> RuleRecord] /\ RulesAtHome'
      BY <2>1, SameConns, RulesKept DEF RoutesInv, RowsTyped
    <2>3. QED
      BY <2>1, <2>2, OverAtHome
  <1>2. ASSUME NEW log \in Logs, LogArrives(log) PROVE RoutesInv'
    <2>1. UNCHANGED <<conn, rule, edit, dispatch, sent>> /\ logTable' = Append(logTable, log)
      BY <1>2 DEF LogArrives
    <2>2. logTable' \in Seq(Logs)
      BY <2>1 DEF RoutesInv, RowsTyped
    <2>3. RowsTyped'
      BY <2>1, <2>2 DEF RoutesInv, RowsTyped
    <2>4. RulesAtHome' /\ BatchAtHome' /\ DeliveryAtHome' /\ HomesStay
      BY <2>1, SameConns, RulesKept, BatchKept, DeliveryKept DEF RoutesInv
    <2>5. QED
      BY <2>1, <2>3, <2>4, RowStepAtHome
  <1>3. ASSUME (\E r \in RuleIds : EvaluateThreshold(r)) \/ PassTick \/ UNCHANGED ruleVars
        PROVE  RoutesInv'
    <2>1. UNCHANGED <<conn, rule, edit, dispatch, sent, logTable>>
      BY <1>3 DEF EvaluateThreshold, PassTick, ruleVars
    <2>2. RowsTyped'
      BY <2>1 DEF RoutesInv, RowsTyped
    <2>3. RulesAtHome' /\ BatchAtHome' /\ DeliveryAtHome' /\ HomesStay
      BY <2>1, SameConns, RulesKept, BatchKept, DeliveryKept DEF RoutesInv
    <2>4. QED
      BY <2>1, <2>2, <2>3, RowStepAtHome
  <1>4. ASSUME NEW e \in Editors, Configure(e) PROVE RoutesInv'
    BY <1>1, <1>4, CreateIntegrationRoutes, ProjectConnectionRoutes, SaveIntegrationRoutes, DisableRoutes,
       SuspendRulesRoutes, ProjectRuleRoutes, RerouteRuleRoutes, ToggleRuleRoutes, RemoveRuleRoutes
       DEF Configure
  <1>5. ASSUME NEW e \in Editors, NEW level \in UsedLevels, NEW cond \in Conditions,
               Describe(e, level, cond)
        PROVE  RoutesInv'
    BY <1>5, CreateRuleRoutes, ChangeRuleRoutes DEF Describe
  <1>6. QED
    BY <1>2, <1>3, <1>4, <1>5, FireAlertsRoutes, DeliverAlertRoutes DEF AlertRulesNext, Fire

\* Whatever requests create, reroute, reload and write back, an alert goes out over a
\* connection of the project whose log fired it (createRule, updateRule and
\* projectConnection, integrationapp.go).
THEOREM AlertsKeepToTheirProject == AlertRulesSpec => []AlertsStayInProject
  <1>1. RoutesInv => AlertsStayInProject
    BY DEF RoutesInv, DeliveryAtHome, Home, AlertsStayInProject
  <1>2. QED
    BY <1>1, InitRoutes, StepRoutes, PTL DEF AlertRulesSpec

-----------------------------------------------------------------------------
(* AlertRules: what a threshold counts. *)

\* A threshold that was stored has been validated.
Sound(c) == c.type = "threshold" => Validate(c)

RulesSound   == \A r \in RuleIds : Sound(rule[r].cond)
CopySound(e) == edit[e] \in RuleEdit => Sound(edit[e].row.cond)

CondsInv == /\ RoutesInv /\ RulesSound /\ (\A e \in Editors : CopySound(e))
            /\ tick \in Nat /\ ThresholdsFire

LEMMA LevelSound == ASSUME NEW level PROVE Sound(LevelCondition(level))
  BY DEF Sound, LevelCondition

LEMMA InitConds == AlertRulesInit => CondsInv
  <1> SUFFICES ASSUME AlertRulesInit PROVE CondsInv
    OBVIOUS
  <1>1. RulesSound
    BY DEF AlertRulesInit, RulesSound, Sound, NoRule
  <1>2. \A e \in Editors : CopySound(e)
    BY CopyKinds DEF AlertRulesInit, CopySound
  <1>3. tick \in Nat /\ ThresholdsFire
    BY DEF AlertRulesInit, ThresholdsFire, NoVerdict
  <1>4. QED
    BY <1>1, <1>2, <1>3, InitRoutes DEF CondsInv

\* What the stored log a condition is asked about may look like to the two predicates.
LEMMA SamePredicate ==
  ASSUME NEW c, c.type = "threshold", Validate(c), Plain(c.query), NEW log \in Logs
  PROVE  MatchesLog(c, log) <=> SqlMatches(c.query, log)
  <1>1. ~IsZero(c.query) /\ c.query.source = "none" /\ c.query.contains # "blank"
    BY DEF Validate, Plain
  <1>2. QED
    BY <1>1 DEF MatchesLog, QueryMatches, SqlMatches

\* The smaller of the cap and a number.
LEMMA MinOfTwo ==
  ASSUME NEW a \in Int, NEW b \in Int
  PROVE  Min({a, b}) = IF a <= b THEN a ELSE b
  <1> DEFINE m == IF a <= b THEN a ELSE b
  <1>1. m \in {a, b} /\ \A y \in {a, b} : m <= y
    OBVIOUS
  <1>2. ASSUME NEW x \in {a, b}, \A y \in {a, b} : x <= y PROVE x = m
    BY <1>2
  <1>3. QED
    BY <1>1, <1>2 DEF Min

\* Counting at most a cap decides every threshold below it.
LEMMA CapDecides ==
  ASSUME NEW c, c.count \in Nat, c.count < CountCap, NEW n \in Nat
  PROVE  Satisfied(c, Min({CountCap, n})) <=> IF c.comparator = "gt" THEN n > c.count ELSE n >= c.count
  <1>1. PICK cap \in Nat : cap = CountCap
    BY AlertRulesAssumption
  <1>2. PICK k \in Nat : k = c.count
    OBVIOUS
  <1>3. PICK m : m = Min({cap, n})
    OBVIOUS
  <1>4. m = IF cap <= n THEN cap ELSE n
    BY <1>3, MinOfTwo
  <1>5. (m > k <=> n > k) /\ (m >= k <=> n >= k)
    BY <1>1, <1>2, <1>4
  <1>6. Satisfied(c, m) <=> IF c.comparator = "gt" THEN m > k ELSE m >= k
    BY <1>2 DEF Satisfied
  <1>7. QED
    BY <1>1, <1>2, <1>3, <1>5, <1>6

\* The logs the statement selects are those the condition matches.
LEMMA WindowsAgree ==
  ASSUME RoutesInv, tick \in Nat, NEW row, NEW c, c = row.cond, c.type = "threshold", Validate(c),
         Plain(c.query), c.window \in Nat
  PROVE  {i \in DOMAIN logTable : /\ InWindow(logTable[i], row.project, WindowStart(c), tick)
                                  /\ SqlMatches(c.query, logTable[i])}
         = {i \in DOMAIN logTable :
              /\ logTable[i].project = row.project /\ MatchesLog(row.cond, logTable[i])
              /\ logTable[i].ts < tick /\ tick - logTable[i].ts <= row.cond.window}
  <1>1. ASSUME NEW i \in DOMAIN logTable
        PROVE  (/\ InWindow(logTable[i], row.project, WindowStart(c), tick)
                /\ SqlMatches(c.query, logTable[i]))
               <=> (/\ logTable[i].project = row.project /\ MatchesLog(row.cond, logTable[i])
                    /\ logTable[i].ts < tick /\ tick - logTable[i].ts <= row.cond.window)
    <2>1. PICK log \in Logs : log = logTable[i]
      BY <1>1 DEF RoutesInv, RowsTyped
    <2>2. PICK t \in Nat, w \in Nat, n \in Nat : t = log.ts /\ w = c.window /\ n = tick
      BY AlertRulesAssumption DEF Logs
    <2>3. (t >= n - w /\ t < n) <=> (t < n /\ n - t <= w)
      OBVIOUS
    <2>4. InWindow(log, row.project, WindowStart(c), tick)
            <=> log.project = row.project /\ log.ts < tick /\ tick - log.ts <= c.window
      BY <2>2, <2>3 DEF InWindow, WindowStart
    <2>5. MatchesLog(c, log) <=> SqlMatches(c.query, log)
      BY SamePredicate
    <2>6. QED
      BY <2>1, <2>4, <2>5
  <1>2. QED
    BY <1>1

LEMMA EvaluateFires ==
  ASSUME CondsInv, NEW r \in RuleIds, EvaluateThreshold(r)
  PROVE  ThresholdsFire'
  <1>1. PICK row, c : row = rule[r] /\ c = row.cond
    OBVIOUS
  <1>2. c.type = "threshold" /\ Validate(c)
    BY <1>1 DEF EvaluateThreshold, CondsInv, RulesSound, Sound
  <1>3. c.window \in Nat /\ c.count \in Nat
    BY <1>2, AlertRulesAssumption DEF Validate
  <1> DEFINE rows == {i \in DOMAIN logTable : /\ InWindow(logTable[i], row.project, WindowStart(c), tick)
                                              /\ SqlMatches(c.query, logTable[i])}
  <1>4. PICK n, m : n = Cardinality(rows) /\ m = Meant(row)
    OBVIOUS
  <1>5. n \in Nat
    <2>1. logTable \in Seq(Logs)
      BY DEF CondsInv, RoutesInv, RowsTyped
    <2>2. IsFiniteSet(DOMAIN logTable)
      BY <2>1, FS_Interval
    <2>3. IsFiniteSet(rows)
      BY <2>2, FS_Subset
    <2>4. QED
      BY <2>3, <1>4, FS_CardinalityType
  <1>k. PICK k : k = CountMatching(row.project, c.query, WindowStart(c), tick)
    OBVIOUS
  <1>s. Satisfied(c, k) \in BOOLEAN
    <2>1. CASE c.comparator = "gt"
      BY <2>1 DEF Satisfied
    <2>2. CASE c.comparator # "gt"
      BY <2>2 DEF Satisfied
    <2>3. QED
      BY <2>1, <2>2
  <1>6. PICK f \in BOOLEAN : f = Satisfied(c, k)
    BY <1>s
  <1>7. f <=> Satisfied(c, Min({CountCap, n}))
    BY <1>k, <1>4, <1>6 DEF CountMatching
  <1>8. verdict' = [judged |-> TRUE, cond |-> c, meant |-> m, fires |-> f]
    BY <1>k, <1>1, <1>4, <1>6 DEF EvaluateThreshold
  <1>9. ASSUME Plain(c.query), c.count < CountCap
        PROVE  f <=> IF c.comparator = "gt" THEN m > c.count ELSE m >= c.count
    <2>1. n = m
      BY <1>1, <1>2, <1>3, <1>4, <1>9, WindowsAgree DEF CondsInv, Meant
    <2>2. QED
      BY <2>1, <1>3, <1>5, <1>7, <1>9, CapDecides
  <1>10. f \in BOOLEAN
    BY <1>6
  <1>11. PICK v : v = verdict'
    OBVIOUS
  <1>12. v.cond = c /\ v.meant = m /\ v.fires = f
    BY <1>8, <1>11
  <1>13. ASSUME Plain(v.cond.query), v.cond.count < CountCap PROVE v.fires = Reached(v)
    <2>1. f <=> IF c.comparator = "gt" THEN m > c.count ELSE m >= c.count
      BY <1>9, <1>12, <1>13
    <2>2. CASE c.comparator = "gt"
      BY <2>1, <2>2, <1>10, <1>12 DEF Reached
    <2>3. CASE c.comparator # "gt"
      BY <2>1, <2>3, <1>10, <1>12 DEF Reached
    <2>4. QED
      BY <2>2, <2>3
  <1>14. QED
    BY <1>11, <1>13 DEF ThresholdsFire

\* A step that judges nothing leaves the last verdict, or takes it back.
LEMMA NotJudged ==
  ASSUME CondsInv, verdict' \in {verdict, NoVerdict} PROVE ThresholdsFire'
  <1>1. CASE verdict' = verdict
    BY <1>1 DEF CondsInv, ThresholdsFire, Reached
  <1>2. CASE verdict' = NoVerdict
    BY <1>2 DEF ThresholdsFire, NoVerdict
  <1>3. QED
    BY <1>1, <1>2

\* One rule is written.
LEMMA RuleSaved ==
  ASSUME CondsInv, NEW r \in RuleIds, NEW row, Sound(row.cond), rule' = [rule EXCEPT ![r] = row]
  PROVE  RulesSound'
  BY DEF CondsInv, RulesSound, RoutesInv, RowsTyped

\* A request is over, or has loaded a copy that is sound.
LEMMA CopySaved ==
  ASSUME CondsInv, NEW e \in Editors, NEW x, edit' = [edit EXCEPT ![e] = x],
         x \in RuleEdit => Sound(x.row.cond)
  PROVE  \A f \in Editors : CopySound(f)'
  BY DEF CondsInv, CopySound, RoutesInv, RowsTyped

LEMMA NoCopySaved ==
  ASSUME CondsInv, NEW e \in Editors, edit' = [edit EXCEPT ![e] = NoEdit]
  PROVE  \A f \in Editors : CopySound(f)'
  BY CopySaved, CopyKinds

\* The condition of the copy a request has loaded is sound.
LEMMA LoadedSound ==
  ASSUME CondsInv, NEW e \in Editors, edit[e].doing \in {"rule", "toggle", "remove"}
  PROVE  Sound(edit[e].row.cond) /\ edit[e].row \in RuleRecord /\ edit[e].id \in RuleIds
  BY RuleCopy DEF CondsInv, CopySound

LEMMA SavedSound ==
  ASSUME CondsInv, NEW e \in Editors, edit[e].doing \in {"rule", "toggle", "remove"},
         NEW row, Sound(row.cond), SaveRule(e, row)
  PROVE  RulesSound' /\ (\A f \in Editors : CopySound(f)')
  <1>1. PICK r \in RuleIds : r = edit[e].id
    BY LoadedSound
  <1>2. rule' = (IF rule[r].live THEN [rule EXCEPT ![r] = row] ELSE rule)
        /\ edit' = [edit EXCEPT ![e] = NoEdit]
    BY <1>1 DEF SaveRule
  <1>3. CASE rule[r].live
    BY <1>2, <1>3, RuleSaved, NoCopySaved
  <1>4. CASE ~rule[r].live
    <2>1. RulesSound'
      BY <1>2, <1>4 DEF CondsInv, RulesSound
    <2>2. QED
      BY <1>2, <2>1, NoCopySaved
  <1>5. QED
    BY <1>3, <1>4

\* What a rule is created with, or changed to, has been validated.
LEMMA DescribedSound ==
  ASSUME CondsInv, NEW e \in Editors, NEW level \in UsedLevels, NEW cond \in Conditions,
         Describe(e, level, cond)
  PROVE  RulesSound' /\ (\A f \in Editors : CopySound(f)') /\ UNCHANGED <<tick, verdict>>
  <1>1. ASSUME NEW p \in Teams, NEW r \in RuleIds, NEW c \in ConnIds, NEW active \in BOOLEAN,
               CreateRule(e, p, r, c, level, cond, active)
        PROVE  RulesSound' /\ (\A f \in Editors : CopySound(f)') /\ UNCHANGED <<tick, verdict>>
    <2>1. PICK row : row = NewRule(p, c, level, Asked(level, cond), active)
      OBVIOUS
    <2>2. row.cond = Asked(level, cond)
      BY <2>1 DEF NewRule
    <2>3. Sound(row.cond) /\ rule' = [rule EXCEPT ![r] = row] /\ UNCHANGED <<edit, tick, verdict>>
      BY <1>1, <2>1, <2>2 DEF CreateRule, Sound
    <2>4. \A f \in Editors : CopySound(f)'
      BY <2>3 DEF CondsInv, CopySound
    <2>5. QED
      BY <2>3, <2>4, RuleSaved
  <1>2. ASSUME ChangeRule(e, level, cond)
        PROVE  RulesSound' /\ (\A f \in Editors : CopySound(f)') /\ UNCHANGED <<tick, verdict>>
    <2>1. edit[e].doing = "rule"
      BY <1>2 DEF ChangeRule
    <2>2. PICK old \in RuleRecord : old = edit[e].row /\ Sound(old.cond)
      BY <2>1, LoadedSound
    <2>3. PICK row : row = Revised(old, level, cond)
      OBVIOUS
    <2>4. row.cond = IF cond.type # "omitted" THEN cond
                     ELSE IF old.cond.type = "level" THEN LevelCondition(level) ELSE old.cond
      BY <2>2, <2>3 DEF Revised, RuleRecord
    <2>5. Sound(row.cond)
      BY <1>2, <2>2, <2>4, LevelSound DEF ChangeRule, Sound
    <2>6. SaveRule(e, row) /\ UNCHANGED <<tick, verdict>>
      BY <1>2, <2>2, <2>3 DEF ChangeRule, SaveRule
    <2>7. QED
      BY <2>1, <2>5, <2>6, SavedSound
  <1>3. QED
    BY <1>1, <1>2 DEF Describe

\* So is what the other requests load and write back.
LEMMA ConfiguredSound ==
  ASSUME CondsInv, NEW e \in Editors, Configure(e)
  PROVE  RulesSound' /\ (\A f \in Editors : CopySound(f)') /\ UNCHANGED <<tick, verdict>>
  <1> DEFINE Goal == RulesSound' /\ (\A f \in Editors : CopySound(f)') /\ UNCHANGED <<tick, verdict>>
  <1>0. edit \in [Editors -> {NoEdit} \cup ConnEdit \cup RuleEdit] /\ rule \in [RuleIds -> RuleRecord]
        /\ conn \in [ConnIds -> ConnRow]
    BY DEF CondsInv, RoutesInv, RowsTyped
  <1>1. ASSUME NEW p \in Teams, NEW c \in ConnIds, NEW name \in 1 .. 2, CreateIntegration(e, p, c, name)
        PROVE  Goal
    BY <1>1 DEF CreateIntegration, CondsInv, RulesSound, CopySound
  <1>2. ASSUME NEW p \in Teams, NEW c \in ConnIds, NEW doing \in {"update", "disable", "test"},
               ProjectConnection(e, p, c, doing)
        PROVE  Goal
    <2>1. PICK x : x = [doing |-> doing, id |-> c, row |-> conn[c]]
      OBVIOUS
    <2>2. x \in ConnEdit
      BY <1>0, <2>1 DEF ConnEdit
    <2>3. x \notin RuleEdit
      BY <2>2, CopyKinds
    <2>4. edit' = [edit EXCEPT ![e] = x] /\ UNCHANGED <<rule, tick, verdict>>
      BY <1>2, <2>1 DEF ProjectConnection
    <2>5. RulesSound'
      BY <2>4 DEF CondsInv, RulesSound
    <2>6. QED
      BY <2>3, <2>4, <2>5, CopySaved
  <1>3. ASSUME (\E on \in BOOLEAN : SaveIntegration(e, on)) \/ TestIntegration(e) \/ GiveUpEdit(e)
        PROVE  Goal
    <2>1. edit' = [edit EXCEPT ![e] = NoEdit] /\ UNCHANGED <<rule, tick, verdict>>
      BY <1>3 DEF SaveIntegration, TestIntegration, GiveUpEdit
    <2>2. RulesSound'
      BY <2>1 DEF CondsInv, RulesSound
    <2>3. QED
      BY <2>1, <2>2, NoCopySaved
  <1>4. ASSUME Disable(e) PROVE Goal
    <2>1. PICK x : x = edit[e]
      OBVIOUS
    <2>2. x \in ConnEdit
      BY <1>4, <2>1, ConnCopy DEF Disable, CondsInv
    <2>3. PICK y : y = [x EXCEPT !.doing = "suspend"]
      OBVIOUS
    <2>4. y \in ConnEdit
      BY <2>2, <2>3 DEF ConnEdit
    <2>5. y \notin RuleEdit
      BY <2>4, CopyKinds
    <2>6. edit' = [edit EXCEPT ![e] = y] /\ UNCHANGED <<rule, tick, verdict>>
      BY <1>4, <2>1, <2>3, <1>0 DEF Disable
    <2>7. RulesSound'
      BY <2>6 DEF CondsInv, RulesSound
    <2>8. QED
      BY <2>5, <2>6, <2>7, CopySaved
  <1>5. ASSUME SuspendRules(e) PROVE Goal
    <2>1. \A x \in RuleRecord : [x EXCEPT !.active = FALSE].cond = x.cond
      BY DEF RuleRecord
    <2>2. \A r \in RuleIds : rule'[r].cond = rule[r].cond
      BY <1>0, <1>5, <2>1 DEF SuspendRules
    <2>3. RulesSound'
      BY <2>2 DEF CondsInv, RulesSound
    <2>4. edit' = [edit EXCEPT ![e] = NoEdit] /\ UNCHANGED <<tick, verdict>>
      BY <1>5 DEF SuspendRules
    <2>5. QED
      BY <2>3, <2>4, NoCopySaved
  <1>6. ASSUME NEW p \in Teams, NEW r \in RuleIds, NEW doing \in {"rule", "toggle", "remove"},
               ProjectRule(e, p, r, doing)
        PROVE  Goal
    <2>1. PICK x : x = [doing |-> doing, id |-> r, row |-> rule[r]]
      OBVIOUS
    <2>2. x.row = rule[r] /\ Sound(rule[r].cond)
      BY <2>1 DEF CondsInv, RulesSound
    <2>3. edit' = [edit EXCEPT ![e] = x] /\ UNCHANGED <<rule, tick, verdict>>
      BY <1>6, <2>1 DEF ProjectRule
    <2>4. RulesSound'
      BY <2>3 DEF CondsInv, RulesSound
    <2>5. QED
      BY <2>2, <2>3, <2>4, CopySaved
  <1>7. ASSUME NEW c \in ConnIds, RerouteRule(e, c) PROVE Goal
    <2>1. edit[e].doing = "rule"
      BY <1>7 DEF RerouteRule
    <2>2. PICK old \in RuleRecord : old = edit[e].row /\ Sound(old.cond)
      BY <2>1, LoadedSound
    <2>3. PICK row : row = [old EXCEPT !.conn = c]
      OBVIOUS
    <2>4. row.cond = old.cond
      BY <2>2, <2>3 DEF RuleRecord
    <2>5. SaveRule(e, row) /\ UNCHANGED <<tick, verdict>>
      BY <1>7, <2>2, <2>3 DEF RerouteRule, SaveRule
    <2>6. QED
      BY <2>1, <2>2, <2>4, <2>5, SavedSound
  <1>8. ASSUME NEW active \in BOOLEAN, ToggleRule(e, active) PROVE Goal
    <2>1. edit[e].doing = "toggle"
      BY <1>8 DEF ToggleRule
    <2>2. PICK old \in RuleRecord : old = edit[e].row /\ Sound(old.cond)
      BY <2>1, LoadedSound
    <2>3. PICK row : row = [old EXCEPT !.active = active]
      OBVIOUS
    <2>4. row.cond = old.cond
      BY <2>2, <2>3 DEF RuleRecord
    <2>5. SaveRule(e, row) /\ UNCHANGED <<tick, verdict>>
      BY <1>8, <2>2, <2>3 DEF ToggleRule, SaveRule
    <2>6. QED
      BY <2>1, <2>2, <2>4, <2>5, SavedSound
  <1>9. ASSUME RemoveRule(e) PROVE Goal
    <2>1. PICK r \in RuleIds : r = edit[e].id
      BY <1>9, LoadedSound DEF RemoveRule
    <2>2. Sound(Removed.cond)
      BY DEF Removed, NoRule, Sound
    <2>3. rule' = [rule EXCEPT ![r] = Removed] /\ edit' = [edit EXCEPT ![e] = NoEdit]
          /\ UNCHANGED <<tick, verdict>>
      BY <1>9, <2>1 DEF RemoveRule
    <2>4. QED
      BY <2>2, <2>3, RuleSaved, NoCopySaved
  <1>10. QED
    BY <1>1, <1>2, <1>3, <1>4, <1>5, <1>6, <1>7, <1>8, <1>9 DEF Configure

LEMMA StepConds == CondsInv /\ [AlertRulesNext]_ruleVars => CondsInv'
  <1> SUFFICES ASSUME CondsInv, [AlertRulesNext]_ruleVars PROVE CondsInv'
    OBVIOUS
  <1>1. RoutesInv'
    BY StepRoutes DEF CondsInv
  <1>2. ASSUME NEW e \in Editors,
               Configure(e) \/ \E level \in UsedLevels, cond \in Conditions : Describe(e, level, cond)
        PROVE  CondsInv'
    <2>1. RulesSound' /\ (\A f \in Editors : CopySound(f)') /\ UNCHANGED <<tick, verdict>>
      BY <1>2, ConfiguredSound, DescribedSound
    <2>2. ThresholdsFire' /\ tick' \in Nat
      BY <2>1, NotJudged DEF CondsInv
    <2>3. QED
      BY <1>1, <2>1, <2>2 DEF CondsInv
  <1>3. ASSUME UNCHANGED <<rule, edit>>, tick' \in Nat, ThresholdsFire' PROVE CondsInv'
    BY <1>1, <1>3 DEF CondsInv, RulesSound, CopySound
  <1>4. ASSUME NEW r \in RuleIds, EvaluateThreshold(r) PROVE CondsInv'
    <2>1. UNCHANGED <<rule, edit>> /\ tick' \in Nat
      BY <1>4 DEF EvaluateThreshold, CondsInv
    <2>2. QED
      BY <1>3, <1>4, <2>1, EvaluateFires
  <1>5. ASSUME \/ (\E log \in Logs : LogArrives(log)) \/ (\E i \in DOMAIN logTable : FireAlerts(i))
               \/ (\E r \in RuleIds : DeliverAlert(r)) \/ PassTick \/ UNCHANGED ruleVars
        PROVE  CondsInv'
    <2>1. UNCHANGED <<rule, edit>> /\ tick' \in {tick, tick + 1} /\ verdict' \in {verdict, NoVerdict}
      BY <1>5 DEF LogArrives, FireAlerts, DeliverAlert, PassTick, ruleVars
    <2>2. tick' \in Nat
      BY <2>1 DEF CondsInv
    <2>3. QED
      BY <1>3, <2>1, <2>2, NotJudged
  <1>6. QED
    BY <1>2, <1>4, <1>5 DEF AlertRulesNext, Fire

\* "threshold fires when the predicate matches often enough inside a window": whatever rules
\* are created, changed and loaded before, counting in SQL, up to a cap, decides as the
\* predicate of the rule asked for every log of the window, for every threshold the cap
\* exceeds (EvaluateThresholds, threshold.go, and CountMatching, alerting.go).
THEOREM ThresholdsCountTheirWindow == AlertRulesSpec => []ThresholdsFire
  <1>1. CondsInv => ThresholdsFire
    BY DEF CondsInv
  <1>2. QED
    BY <1>1, InitConds, StepConds, PTL DEF AlertRulesSpec
============================================================================

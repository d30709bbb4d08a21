---------------------------- MODULE AuditExport ----------------------------
(***************************************************************************)
(* The audit trail and its export to a SIEM (business/domain/auditbus,     *)
(* business/sdk/auditexport, the audit pass of business/sdk/retention).    *)
(*                                                                         *)
(* A request stamps its audit record with the time and inserts it in a     *)
(* later statement; concurrent requests therefore commit out of timestamp  *)
(* order.  The exporter reads a batch after its persisted cursor in        *)
(* (timestamp, id) order, posts it, and advances the cursor.               *)
(***************************************************************************)
EXTENDS Integers, FiniteSets, FiniteSetsExt

CONSTANTS
    Records,     \* ids of audit records; ids are random, so any order of creation
    BatchSize,
    AuditDays,   \* retention of the audit table, -1 to keep forever
    MaxClock,    \* bound on the clock
    MaxFailures  \* bound on failed runs

ASSUME ConstantsAssumption ==
    /\ Records \subseteq Nat \ {0}
    /\ BatchSize \in Nat \ {0}
    /\ AuditDays \in Int
    /\ MaxClock \in Nat \ {0} /\ MaxFailures \in Nat

VARIABLES
    clock,
    state,     \* "none", "stamped" (in memory), "stored" (in audit) or "purged"
    ts,        \* the record's timestamp
    cursor,    \* audit_export_cursor
    pc,        \* where runBatch is
    batch,     \* the records it has read
    last,      \* the key of the last of them
    delivered, \* the records the SIEM has
    posts,     \* history: how often each record was posted
    failures,  \* history: runs that ended in an error or a crash
    late       \* history: records committed behind a key the exporter had read

vars == <<clock, state, ts, cursor, pc, batch, last, delivered, posts, failures, late>>

Key == [ts: Nat, id: Nat]

\* (a.timestamp, a.id) > (c.ts, c.id)
After(r, c) == ts[r] > c.ts \/ (ts[r] = c.ts /\ r > c.id)

KeyOf(r) == [ts |-> ts[r], id |-> r]

Stored == {r \in Records : state[r] = "stored"}

\* The clock starts after the epoch, where the cursor's default row is.
Init ==
    /\ clock = 1
    /\ state = [r \in Records |-> "none"]
    /\ ts = [r \in Records |-> 0]
    /\ cursor = [ts |-> 0, id |-> 0]
    /\ pc = "idle"
    /\ batch = {}
    /\ last = [ts |-> 0, id |-> 0]
    /\ delivered = {}
    /\ posts = [r \in Records |-> 0]
    /\ failures = 0
    /\ late = {}
----------------------------------------------------------------------------
(* Requests. *)

\* auditbus.Create, up to the insert
Stamp(r) ==
    /\ state[r] = "none"
    /\ state' = [state EXCEPT ![r] = "stamped"]
    /\ ts' = [ts EXCEPT ![r] = clock]
    /\ UNCHANGED <<clock, cursor, pc, batch, last, delivered, posts, failures, late>>

\* The exporter has passed, or has read past, the record's key.
Behind(r) == ~After(r, cursor) \/ (pc # "idle" /\ ~After(r, last))

\* The insert commits.
Store(r) ==
    /\ state[r] = "stamped"
    /\ state' = [state EXCEPT ![r] = "stored"]
    /\ late' = IF Behind(r) THEN late \cup {r} ELSE late
    /\ UNCHANGED <<clock, ts, cursor, pc, batch, last, delivered, posts, failures>>
----------------------------------------------------------------------------
(* runBatch. *)

\* The keyset predicate over the table
Unread == {r \in Stored : After(r, cursor)}

\* A bug: the exporter waits for a full batch.
IsFirstFull(B) ==
    /\ B \subseteq Unread /\ Cardinality(B) = BatchSize
    /\ \A r \in Unread \ B, b \in B : After(r, KeyOf(b))

\* ORDER BY a.timestamp, a.id LIMIT BatchSize
IsFirst(B) ==
    /\ B \subseteq Unread /\ B # {}
    /\ Cardinality(B) = Min({BatchSize, Cardinality(Unread)})
    /\ \A r \in Unread \ B, b \in B : After(r, KeyOf(b))

\* The cursor and the rows; the greatest key is remembered.
ReadBatch ==
    /\ pc = "idle"
    /\ \E B \in SUBSET Records, l \in Records :
         /\ IsFirst(B)
         /\ l \in B /\ \A b \in B \ {l} : After(l, KeyOf(b))
         /\ batch' = B /\ last' = KeyOf(l)
    /\ pc' = "deliver"
    /\ UNCHANGED <<clock, state, ts, cursor, delivered, posts, failures, late>>

\* A bug: the batch counts as delivered whatever the destination answers.
DeliverUnchecked ==
    /\ pc = "deliver"
    /\ \/ delivered' = delivered \cup batch
       \/ UNCHANGED delivered
    /\ posts' = [r \in Records |-> posts[r] + IF r \in batch THEN 1 ELSE 0]
    /\ pc' = "advance"
    /\ UNCHANGED <<clock, state, ts, cursor, batch, last, failures, late>>

\* The destination answers 2xx.
Deliver ==
    /\ pc = "deliver"
    /\ delivered' = delivered \cup batch
    /\ posts' = [r \in Records |-> posts[r] + IF r \in batch THEN 1 ELSE 0]
    /\ pc' = "advance"
    /\ UNCHANGED <<clock, state, ts, cursor, batch, last, failures, late>>

Advance ==
    /\ pc = "advance"
    /\ cursor' = last
    /\ pc' = "idle" /\ batch' = {}
    /\ UNCHANGED <<clock, state, ts, last, delivered, posts, failures, late>>

\* The destination refuses or its answer is lost after it took the batch, the
\* cursor update fails, or the process stops: the cursor stays put.
RunFails ==
    /\ pc # "idle" /\ failures < MaxFailures
    /\ \/ /\ pc = "deliver"
          /\ delivered' = delivered \cup batch
          /\ posts' = [r \in Records |-> posts[r] + IF r \in batch THEN 1 ELSE 0]
       \/ UNCHANGED <<delivered, posts>>
    /\ failures' = failures + 1
    /\ pc' = "idle" /\ batch' = {}
    /\ UNCHANGED <<clock, state, ts, cursor, last, late>>
----------------------------------------------------------------------------
\* purgeAudit, one batch of it: expired records, exported or not
PurgeAudit(r) ==
    /\ AuditDays > -1 /\ state[r] = "stored" /\ ts[r] < clock - AuditDays
    /\ state' = [state EXCEPT ![r] = "purged"]
    /\ UNCHANGED <<clock, ts, cursor, pc, batch, last, delivered, posts, failures, late>>

Tick ==
    /\ clock < MaxClock
    /\ clock' = clock + 1
    /\ UNCHANGED <<state, ts, cursor, pc, batch, last, delivered, posts, failures, late>>
----------------------------------------------------------------------------
Next ==
    \/ \E r \in Records : Stamp(r) \/ Store(r) \/ PurgeAudit(r)
    \/ ReadBatch \/ Deliver \/ Advance \/ RunFails
    \/ Tick

Spec == Init /\ [][Next]_vars

\* runAuditExport retries on every tick; the destination is not down forever.
FairSpec == Spec /\ WF_vars(ReadBatch) /\ WF_vars(Deliver) /\ WF_vars(Advance)
----------------------------------------------------------------------------
(* Properties. *)

\* Every variable has its type.
TypeOK ==
    /\ clock \in 1 .. MaxClock
    /\ state \in [Records -> {"none", "stamped", "stored", "purged"}]
    /\ ts \in [Records -> Nat]
    /\ cursor \in Key /\ last \in Key
    /\ pc \in {"idle", "deliver", "advance"}
    /\ batch \subseteq Records /\ delivered \subseteq Records /\ late \subseteq Records
    /\ posts \in [Records -> Nat]
    /\ failures \in 0 .. MaxFailures

\* The cursor advances only past what the destination has accepted: a record the
\* cursor has passed is delivered, unless it was committed behind the exporter's
\* back.  Failures, crashes and out-of-order commits included.
PassedMeansDelivered ==
    \A r \in Records : (state[r] = "stored" /\ ~After(r, cursor)) => (r \in delivered \/ r \in late)

\* A record that was committed in time reaches the destination, unless retention
\* deletes it first.
EventuallyDelivered ==
    \A r \in Records : (state[r] = "stored" /\ r \notin late) ~> (r \in delivered \/ state[r] = "purged")

\* "the cursor does not advance past an undelivered batch, so nothing is skipped".
NothingSkipped ==
    \A r \in Records : (state[r] = "stored" /\ ~After(r, cursor)) => r \in delivered
============================================================================

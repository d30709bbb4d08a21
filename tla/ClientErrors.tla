---------------------------- MODULE ClientErrors ----------------------------
(***************************************************************************)
(* Client error monitoring (business/domain/clienterrorbus): reports are   *)
(* stored by Ingest, and a grouping worker per server process files them   *)
(* under issues.  The worker's group() is a chain of autocommit statements *)
(* with no transaction and no lease around it, so any other worker, an     *)
(* uploaded source map, an operator, the retention job and a failure may   *)
(* come between two of them.                                               *)
(*                                                                         *)
(* A fingerprint stands for a fingerprint within its scope (project, org   *)
(* or the anonymous bucket); all events are of one org.  A release has one *)
(* bundle file, hence one source map.                                      *)
(***************************************************************************)
EXTENDS Integers, Sequences, FiniteSets, Functions

CONSTANTS
    Events,         \* the reports browsers send, by their idempotency key
    Releases,
    Fingerprints,
    Workers,        \* server processes, each with one grouping worker and map cache
    ReleaseOf,      \* the release that reported the event
    RawFp,          \* the fingerprint of its minified stack
    ResolvedFp,     \* the fingerprint of its de-minified stack
    Resolvable,     \* the events whose stack a map of their release resolves
    Weight,         \* sampled_count
    BatchSize,
    MaxProcessAttempts,
    MaxCachedMaps,
    Faults,         \* whether statements may fail
    Crashes,        \* whether a batch may be abandoned half way
    Retention,      \* whether the retention job runs
    MaxIssues,      \* bound on client_error_issues rows
    MaxChanges,     \* bound on uploads (counted double), triage decisions and purges
    MaxDeliveries   \* bound on the deliveries of one event

ASSUME ConstantsAssumption ==
    /\ ReleaseOf \in [Events -> Releases]
    /\ RawFp \in [Events -> Fingerprints] /\ ResolvedFp \in [Events -> Fingerprints]
    /\ Resolvable \subseteq Events
    /\ Weight \in [Events -> Nat \ {0}]
    /\ BatchSize \in Nat \ {0} /\ MaxProcessAttempts \in Nat \ {0}
    /\ MaxCachedMaps \in Nat \ {0}
    /\ Faults \in BOOLEAN /\ Crashes \in BOOLEAN /\ Retention \in BOOLEAN
    /\ MaxIssues \in Nat /\ MaxChanges \in Nat /\ MaxDeliveries \in Nat
    /\ IsFiniteSet(Events) /\ Events # {} /\ Releases # {} /\ Fingerprints # {}

VARIABLES
    rows,      \* client_error_events
    issues,    \* client_error_issues; the index of a row is its id
    artifacts, \* client_error_artifacts: the releases with a stored map
    cache,     \* each process's sourceMapCache
    pc,        \* where each grouping worker is
    job,       \* the local variables of ProcessBatch and group
    upload,    \* each process's UploadArtifact in progress
    triage,    \* the operator's UpdateIssue in progress
    notices,   \* history: IssueOpened and IssueRegressed calls, in order
    sent,      \* history: deliveries of each event
    uploads,   \* history: uploads so far
    edits      \* history: triage decisions and purges so far

vars == <<rows, issues, artifacts, cache, pc, job, upload, triage, notices, sent, uploads, edits>>

\* Fingerprint versions: never grouped, raw frames, resolved frames.
Ungrouped == 0
FingerprintVersion == 1
ResolvedFingerprintVersion == 2

Statuses == {"unresolved", "resolved", "ignored"}
IssueIds == 1 .. MaxIssues
NoIssue  == 0

Row   == [stored: BOOLEAN, done: BOOLEAN, attempts: Nat,
          version: {Ungrouped, FingerprintVersion, ResolvedFingerprintVersion},
          issue: IssueIds \cup {NoIssue}]
Issue == [live: BOOLEAN, fp: Fingerprints, status: Statuses, regressed: BOOLEAN,
          resolvedAt: BOOLEAN, count: Nat, revived: Nat]
Job   == [todo: SUBSET Events, held: [Events -> IssueIds \cup {NoIssue}], event: Events,
          hit: BOOLEAN, fp: Fingerprints, version: {FingerprintVersion, ResolvedFingerprintVersion},
          issue: IssueIds \cup {NoIssue}, created: BOOLEAN, reopened: BOOLEAN]
PCs   == {"idle", "next", "remember", "lookup", "insert", "touch", "facets", "attach",
          "detach", "notify"}
Known == {"unknown", "map", "miss"}
Notice == [event: Events, issue: IssueIds, kind: {"opened", "regressed"}]
Edit  == [issue: IssueIds \cup {NoIssue}, want: Statuses \cup {"keep"}, status: Statuses,
          regressed: BOOLEAN, resolvedAt: BOOLEAN]
Upload == [step: {"none", "forget", "mark"}, release: Releases]

NewRow == [stored |-> FALSE, done |-> FALSE, attempts |-> 0, version |-> Ungrouped, issue |-> NoIssue]
NoJob  == [todo |-> {}, held |-> [e \in Events |-> NoIssue], event |-> CHOOSE e \in Events : TRUE,
           hit |-> FALSE, fp |-> CHOOSE f \in Fingerprints : TRUE, version |-> FingerprintVersion,
           issue |-> NoIssue, created |-> FALSE, reopened |-> FALSE]
NoEdit == [issue |-> NoIssue, want |-> "keep", status |-> "unresolved", regressed |-> FALSE,
           resolvedAt |-> FALSE]
NoUpload == [step |-> "none", release |-> CHOOSE r \in Releases : TRUE]

Init ==
    /\ rows = [e \in Events |-> NewRow]
    /\ issues = <<>>
    /\ artifacts = {}
    /\ cache = [w \in Workers |-> [r \in Releases |-> "unknown"]]
    /\ pc = [w \in Workers |-> "idle"]
    /\ job = [w \in Workers |-> NoJob]
    /\ upload = [w \in Workers |-> NoUpload]
    /\ triage = NoEdit
    /\ notices = <<>>
    /\ sent = [e \in Events |-> 0]
    /\ uploads = 0
    /\ edits = 0

Live(i) == i \in DOMAIN issues /\ issues[i].live
IssuesOf(fp) == {i \in DOMAIN issues : issues[i].live /\ issues[i].fp = fp}
Attached(i) == {e \in Events : rows[e].stored /\ rows[e].issue = i}

\* What the uploads and decisions so far take of the bound: an upload sets a whole
\* release going again.
Changes == 2 * uploads + edits

Goto(w, label) == pc' = [pc EXCEPT ![w] = label]

\* The event is dealt with: the batch's next one, or the batch is over.
Advance(w) ==
    /\ pc'  = [pc EXCEPT ![w] = IF job[w].todo = {} THEN "idle" ELSE "next"]
    /\ job' = [job EXCEPT ![w] = [NoJob EXCEPT !.todo = job[w].todo,
                    !.held = [e \in Events |-> IF e \in job[w].todo THEN job[w].held[e] ELSE NoIssue]]]
----------------------------------------------------------------------------
(* Ingest. *)

\* A worker is on the event, or has it still to do.
InHand(w, e) == e \in job[w].todo \/ (pc[w] \notin {"idle", "next"} /\ job[w].event = e)

\* A delivery, or a sendBeacon retry of one: ON CONFLICT (event_id) DO NOTHING.
\* A deleted report is not resent while a worker holds its old row.
Ingest(e) ==
    /\ sent[e] < MaxDeliveries
    /\ rows[e].stored \/ \A w \in Workers : ~InHand(w, e)
    /\ rows' = IF rows[e].stored THEN rows ELSE [rows EXCEPT ![e] = [NewRow EXCEPT !.stored = TRUE]]
    /\ sent' = [sent EXCEPT ![e] = @ + 1]
    /\ UNCHANGED <<issues, artifacts, cache, pc, job, upload, triage, notices, uploads, edits>>
----------------------------------------------------------------------------
(* The grouping worker. *)

Claimable == {e \in Events : /\ rows[e].stored /\ ~rows[e].done
                             /\ rows[e].attempts < MaxProcessAttempts}

\* A bug: the claim does not look at the attempts.
ClaimForever(w) ==
    /\ pc[w] = "idle"
    /\ \E S \in SUBSET {e \in Events : rows[e].stored /\ ~rows[e].done} :
         /\ S # {} /\ Cardinality(S) <= BatchSize
         /\ rows' = [e \in Events |-> IF e \in S THEN [rows[e] EXCEPT !.attempts = 1] ELSE rows[e]]
         /\ job' = [job EXCEPT ![w] = [NoJob EXCEPT !.todo = S,
                       !.held = [e \in Events |-> IF e \in S THEN rows[e].issue ELSE NoIssue]]]
    /\ Goto(w, "next")
    /\ UNCHANGED <<issues, artifacts, cache, upload, triage, notices, sent, uploads, edits>>

\* One autocommit statement: the row locks are gone when it returns.  SKIP LOCKED
\* leaves out rows whose lock another statement holds at that instant, and
\* RETURNING promises no order, so the batch is any set within the limit.
ClaimUnprocessed(w) ==
    /\ pc[w] = "idle"
    /\ \E S \in SUBSET Claimable :
         /\ S # {} /\ Cardinality(S) <= BatchSize
         /\ rows' = [e \in Events |-> IF e \in S THEN [rows[e] EXCEPT !.attempts = @ + 1] ELSE rows[e]]
         /\ job' = [job EXCEPT ![w] = [NoJob EXCEPT !.todo = S,
                       !.held = [e \in Events |-> IF e \in S THEN rows[e].issue ELSE NoIssue]]]
    /\ Goto(w, "next")
    /\ UNCHANGED <<issues, artifacts, cache, upload, triage, notices, sent, uploads, edits>>

\* The stack is resolved or not, and the fingerprint follows.
Fingerprinted(j, e, mapped) ==
    LET resolved == mapped /\ e \in Resolvable
    IN  [j EXCEPT !.todo = j.todo \ {e}, !.event = e, !.hit = mapped,
                  !.fp = IF resolved THEN ResolvedFp[e] ELSE RawFp[e],
                  !.version = IF resolved THEN ResolvedFingerprintVersion ELSE FingerprintVersion]

\* group() starts on an event.  MapFor answers from the cache, or reads the stored
\* map outside the lock (a failed read counts as no map).
ResolveStack(w, e) ==
    /\ pc[w] = "next" /\ e \in job[w].todo
    /\ LET known == cache[w][ReleaseOf[e]] IN
         \/ /\ known # "unknown" \/ e \notin Resolvable
            /\ job' = [job EXCEPT ![w] = Fingerprinted(job[w], e, known = "map")]
            /\ Goto(w, "lookup")
         \/ /\ known = "unknown" /\ e \in Resolvable
            /\ \E found \in {ReleaseOf[e] \in artifacts, ReleaseOf[e] \in artifacts /\ ~Faults} :
                 job' = [job EXCEPT ![w] = Fingerprinted(job[w], e, found)]
            /\ Goto(w, "remember")
    /\ UNCHANGED <<rows, issues, artifacts, cache, upload, triage, notices, sent, uploads, edits>>

\* A cache that is full of maps is cleared wholesale before the new entry goes in.
Remembered(c, r, hit) ==
    LET full == Cardinality({x \in Releases : c[x] = "map"}) >= MaxCachedMaps
        kept == IF full THEN [x \in Releases |-> "unknown"] ELSE c
    IN  [kept EXCEPT ![r] = IF hit THEN "map" ELSE "miss"]

Remember(w) ==
    /\ pc[w] = "remember"
    /\ cache' = [cache EXCEPT ![w] = Remembered(@, ReleaseOf[job[w].event], job[w].hit)]
    /\ Goto(w, "lookup")
    /\ UNCHANGED <<rows, issues, artifacts, job, upload, triage, notices, sent, uploads, edits>>

Found(j, i) == [j EXCEPT !.issue = i]

\* UpsertIssue's read.
QueryIssueByFingerprint(w) ==
    /\ pc[w] = "lookup"
    /\ \/ /\ IssuesOf(job[w].fp) = {}
          /\ Goto(w, "insert")
          /\ UNCHANGED job
       \/ \E i \in IssuesOf(job[w].fp) :
             /\ job' = [job EXCEPT ![w] = Found(job[w], i)]
             /\ Goto(w, "touch")
    /\ UNCHANGED <<rows, issues, artifacts, cache, upload, triage, notices, sent, uploads, edits>>

\* A bug: no unique index behind the insert.
UniqueIndexDropped(fp) == TRUE

\* The partial unique indexes on (scope, fingerprint).
UniqueIndex(fp) == IssuesOf(fp) = {}

\* The row UpsertIssue inserts: its count starts at 1 whatever the event weighs.
NewIssue(fp) == [live |-> TRUE, fp |-> fp, status |-> "unresolved", regressed |-> FALSE,
                 resolvedAt |-> FALSE, count |-> 1, revived |-> 0]

\* UpsertIssue's insert; a violated unique index is an error (see StepFails).
UpsertIssue(w) ==
    /\ pc[w] = "insert" /\ UniqueIndex(job[w].fp) /\ Len(issues) < MaxIssues
    /\ issues' = Append(issues, NewIssue(job[w].fp))
    /\ job' = [job EXCEPT ![w] = [job[w] EXCEPT !.issue = Len(issues) + 1, !.created = TRUE]]
    /\ Goto(w, "facets")
    /\ UNCHANGED <<rows, artifacts, cache, upload, triage, notices, sent, uploads, edits>>

\* A bug: a repeat only revives the issue.
TouchedUncounted(row, n) ==
    [row EXCEPT !.status = IF @ = "resolved" THEN "unresolved" ELSE @,
                !.regressed = @ \/ row.status = "resolved",
                !.resolvedAt = @ /\ row.status # "resolved"]

\* SET of TouchIssue; a revived issue is flagged, an ignored one stays ignored.
Touched(row, n) ==
    [row EXCEPT !.count = @ + n, !.status = IF @ = "resolved" THEN "unresolved" ELSE @,
                !.regressed = @ \/ row.status = "resolved",
                !.resolvedAt = @ /\ row.status # "resolved",
                !.revived = @ + IF row.status = "resolved" THEN 1 ELSE 0]

\* One statement; RETURNING reads the row as it is after the update.
TouchIssue(w) ==
    LET i == job[w].issue
        after == Touched(issues[i], Weight[job[w].event])
    IN  /\ pc[w] = "touch" /\ Live(i)
        /\ issues' = [issues EXCEPT ![i] = after]
        /\ job' = [job EXCEPT ![w].reopened = after.regressed /\ ~after.resolvedAt]
        /\ Goto(w, "facets")
        /\ UNCHANGED <<rows, artifacts, cache, upload, triage, notices, sent, uploads, edits>>

\* The facets themselves are only counted on display; their foreign key is what
\* the other steps can break.
RecordFacets(w) ==
    /\ pc[w] = "facets" /\ Live(job[w].issue)
    /\ Goto(w, "attach")
    /\ UNCHANGED <<rows, issues, artifacts, cache, job, upload, triage, notices, sent, uploads, edits>>

\* e.IssueID != nil, as it was when the event was claimed.
Regrouped(j) == j.held[j.event] # NoIssue

\* By id, whoever else has grouped the event meanwhile; a row that retention or a
\* purge has deleted stays deleted.
AttachToIssue(w) ==
    LET j == job[w] IN
    /\ pc[w] = "attach"
    /\ rows' = IF rows[j.event].stored
               THEN [rows EXCEPT ![j.event] = [rows[j.event] EXCEPT !.issue = j.issue,
                                                 !.version = j.version, !.done = TRUE]]
               ELSE rows
    /\ IF ~Regrouped(j) THEN Goto(w, "notify") /\ UNCHANGED job
       ELSE IF j.held[j.event] # j.issue THEN Goto(w, "detach") /\ UNCHANGED job
       ELSE Advance(w)
    /\ UNCHANGED <<issues, artifacts, cache, upload, triage, notices, sent, uploads, edits>>

\* The cleanup's NOT EXISTS.
LeftWithoutEvents(i) == Attached(i) = {}

\* GREATEST(event_count - n, 0)
Less(count, n) == IF count - n > 0 THEN count - n ELSE 0

\* One transaction: take the weight off, delete the issue when nothing is left.
DetachFromIssue(w) ==
    LET i == job[w].held[job[w].event]
    IN  /\ pc[w] = "detach"
        /\ issues' = IF Live(i)
                     THEN [issues EXCEPT ![i] = [issues[i] EXCEPT
                             !.count = Less(issues[i].count, Weight[job[w].event]),
                             !.live = ~LeftWithoutEvents(i)]]
                     ELSE issues
        /\ Advance(w)
        /\ UNCHANGED <<rows, artifacts, cache, upload, triage, notices, sent, uploads, edits>>

\* IssueOpened, IssueRegressed or nothing.
Notify(w) ==
    LET j == job[w] IN
    /\ pc[w] = "notify"
    /\ notices' = IF j.created \/ j.reopened
                  THEN Append(notices, [event |-> j.event, issue |-> j.issue,
                                        kind |-> IF j.created THEN "opened" ELSE "regressed"])
                  ELSE notices
    /\ Advance(w)
    /\ UNCHANGED <<rows, issues, artifacts, cache, upload, triage, sent, uploads, edits>>

\* The statement the worker is at must fail: the unique index, a deleted issue.
Doomed(w) ==
    \/ pc[w] = "insert" /\ ~UniqueIndex(job[w].fp)
    \/ pc[w] \in {"touch", "facets"} /\ ~Live(job[w].issue)

\* A statement of group() fails, and MarkFailed records it: the event is set aside
\* when its attempts are used up, and queued again otherwise.
StepFails(w) ==
    /\ \/ Doomed(w)
       \/ Faults /\ pc[w] \in {"lookup", "insert", "touch", "facets", "attach", "detach"}
    /\ LET e == job[w].event
       IN  rows' = IF rows[e].stored
                   THEN [rows EXCEPT ![e].done = rows[e].attempts >= MaxProcessAttempts]
                   ELSE rows
    /\ Advance(w)
    /\ UNCHANGED <<issues, artifacts, cache, upload, triage, notices, sent, uploads, edits>>

\* The process stops (its cache goes with it), or MarkFailed fails and ends the batch.
Abandon(w) ==
    /\ Crashes /\ pc[w] # "idle"
    /\ pc'  = [pc EXCEPT ![w] = "idle"]
    /\ job' = [job EXCEPT ![w] = NoJob]
    /\ cache' \in {cache, [cache EXCEPT ![w] = [r \in Releases |-> "unknown"]]}
    /\ UNCHANGED <<rows, issues, artifacts, upload, triage, notices, sent, uploads, edits>>
----------------------------------------------------------------------------
(* UploadArtifact, on process w. *)

UpsertArtifact(w, r) ==
    /\ Changes + 2 <= MaxChanges /\ upload[w].step = "none"
    /\ artifacts' = artifacts \cup {r}
    /\ upload' = [upload EXCEPT ![w] = [step |-> "forget", release |-> r]]
    /\ uploads' = uploads + 1
    /\ UNCHANGED <<rows, issues, cache, pc, job, triage, notices, sent, edits>>

Forget(w) ==
    /\ upload[w].step = "forget"
    /\ cache' = [cache EXCEPT ![w] = [r \in Releases |-> "unknown"]]
    /\ upload' = [upload EXCEPT ![w].step = "mark"]
    /\ UNCHANGED <<rows, issues, artifacts, pc, job, triage, notices, sent, uploads, edits>>

\* The last statement of the upload; when it fails, nothing is queued.
MarkReleaseForRegroup(w) ==
    /\ upload[w].step = "mark"
    /\ \/ rows' = [e \in Events |->
                     IF /\ rows[e].stored /\ rows[e].done /\ ReleaseOf[e] = upload[w].release
                        /\ rows[e].version < ResolvedFingerprintVersion
                     THEN [rows[e] EXCEPT !.done = FALSE, !.attempts = 0]
                     ELSE rows[e]]
       \/ Faults /\ UNCHANGED rows
    /\ upload' = [upload EXCEPT ![w] = NoUpload]
    /\ UNCHANGED <<issues, artifacts, cache, pc, job, triage, notices, sent, uploads, edits>>
----------------------------------------------------------------------------
(* Operators and the retention job. *)

\* The handler loads the issue and decodes what the operator wants.
LoadIssue(i) ==
    /\ Changes < MaxChanges /\ triage.issue = NoIssue /\ Live(i)
    /\ \E want \in Statuses \cup {"keep"} :
         triage' = [issue |-> i, want |-> want, status |-> issues[i].status,
                    regressed |-> issues[i].regressed, resolvedAt |-> issues[i].resolvedAt]
    /\ edits' = edits + 1
    /\ UNCHANGED <<rows, issues, artifacts, cache, pc, job, upload, notices, sent, uploads>>

\* A bug: reopening an issue keeps its resolution time.
DecidedKeepsTime(row, t) ==
    LET status == IF t.want = "keep" THEN t.status ELSE t.want
    IN  [row EXCEPT !.status = status,
                    !.regressed = t.regressed /\ status # "resolved",
                    !.resolvedAt = t.resolvedAt \/ status = "resolved"]

\* The columns UpdateIssue writes, all computed from the row it was handed.
Decided(row, t) ==
    LET status == IF t.want = "keep" THEN t.status ELSE t.want
        moved  == status # t.status
    IN  [row EXCEPT !.status = status,
                    !.regressed = t.regressed /\ ~(moved /\ status = "resolved"),
                    !.resolvedAt = IF moved THEN status = "resolved" ELSE t.resolvedAt]

UpdateIssue ==
    /\ triage.issue # NoIssue
    /\ issues' = IF Live(triage.issue)
                 THEN [issues EXCEPT ![triage.issue] = Decided(@, triage)]
                 ELSE issues
    /\ triage' = NoEdit
    /\ UNCHANGED <<rows, artifacts, cache, pc, job, upload, notices, sent, uploads, edits>>

\* One transaction over both tables.
PurgeOrg ==
    /\ Changes < MaxChanges /\ \E e \in Events : rows[e].stored
    /\ rows' = [e \in Events |-> NewRow]
    /\ issues' = [i \in DOMAIN issues |-> [issues[i] EXCEPT !.live = FALSE]]
    /\ edits' = edits + 1
    /\ UNCHANGED <<artifacts, cache, pc, job, upload, triage, notices, sent, uploads>>

\* pruneClientErrors' first statement; a report may still be queued when it expires.
PruneEvent(e) ==
    /\ Retention /\ rows[e].stored
    /\ rows' = [rows EXCEPT ![e] = NewRow]
    /\ UNCHANGED <<issues, artifacts, cache, pc, job, upload, triage, notices, sent, uploads, edits>>

\* Its second: last seen before the cutoff, which no issue a worker has in hand
\* is, and no event on it.
PruneIssue(i) ==
    /\ Retention /\ Live(i) /\ Attached(i) = {}
    /\ \A w \in Workers : job[w].issue # i
    /\ issues' = [issues EXCEPT ![i].live = FALSE]
    /\ UNCHANGED <<rows, artifacts, cache, pc, job, upload, triage, notices, sent, uploads, edits>>

\* Its third: maps of a release without events; parsed copies stay cached.
PruneArtifact(r) ==
    /\ Retention /\ r \in artifacts
    /\ \A e \in Events : rows[e].stored => ReleaseOf[e] # r
    /\ artifacts' = artifacts \ {r}
    /\ UNCHANGED <<rows, issues, cache, pc, job, upload, triage, notices, sent, uploads, edits>>
----------------------------------------------------------------------------
WorkerStep(w) ==
    \/ ClaimUnprocessed(w)
    \/ \E e \in Events : ResolveStack(w, e)
    \/ Remember(w)
    \/ QueryIssueByFingerprint(w)
    \/ UpsertIssue(w)
    \/ TouchIssue(w)
    \/ RecordFacets(w)
    \/ AttachToIssue(w)
    \/ DetachFromIssue(w)
    \/ Notify(w)
    \/ StepFails(w)

Uploader(w) == (\E r \in Releases : UpsertArtifact(w, r)) \/ Forget(w) \/ MarkReleaseForRegroup(w)

Operator == (\E i \in DOMAIN issues : LoadIssue(i)) \/ UpdateIssue \/ PurgeOrg

RetentionJob ==
    \/ \E e \in Events : PruneEvent(e)
    \/ \E i \in DOMAIN issues : PruneIssue(i)
    \/ \E r \in Releases : PruneArtifact(r)

Next ==
    \/ \E e \in Events : Ingest(e)
    \/ \E w \in Workers : WorkerStep(w) \/ Abandon(w) \/ Uploader(w)
    \/ Operator
    \/ RetentionJob

Spec == Init /\ [][Next]_vars

\* runClientErrorGrouping's ticker claims and drains for as long as the process
\* runs; an upload that has begun runs to its end.
FairSpec == Spec /\ \A w \in Workers : WF_vars(WorkerStep(w)) /\ WF_vars(Forget(w) \/ MarkReleaseForRegroup(w))
----------------------------------------------------------------------------
(* Properties. *)

\* Every variable has its type.
TypeOK ==
    /\ rows \in [Events -> Row]
    /\ issues \in Seq(Issue) /\ Len(issues) <= MaxIssues
    /\ artifacts \subseteq Releases
    /\ cache \in [Workers -> [Releases -> Known]]
    /\ pc \in [Workers -> PCs]
    /\ job \in [Workers -> Job]
    /\ upload \in [Workers -> Upload]
    /\ triage \in Edit
    /\ notices \in Seq(Notice)
    /\ sent \in [Events -> 0 .. MaxDeliveries]
    /\ uploads \in 0 .. MaxChanges
    /\ edits \in 0 .. MaxChanges

\* UpsertIssue reads and then inserts: two workers, a re-group and a deletion in
\* between still leave one issue per fingerprint.
OneIssuePerFingerprint ==
    \A i, j \in DOMAIN issues :
        (Live(i) /\ Live(j) /\ issues[i].fp = issues[j].fp) => i = j

\* The regressed flag and the resolution time agree with the status whatever
\* stale copy of the row UpdateIssue writes back over TouchIssue's changes.
TriageConsistent ==
    \A i \in DOMAIN issues :
        /\ issues[i].resolvedAt <=> issues[i].status = "resolved"
        /\ issues[i].regressed => issues[i].status # "resolved"

Regressions(i) == {n \in DOMAIN notices : notices[n].issue = i /\ notices[n].kind = "regressed"}

\* The events an issue's count is made of.
WeightOn(i) == SumFunction([e \in Attached(i) |-> Weight[e]])

\* No worker is between counting an event and attaching or detaching it.
Quiet == \A w \in Workers : pc[w] \in {"idle", "next"}

\* Failures, retries and re-groups never lose an occurrence: between events an
\* issue's count covers what is attached to it.
CountCoversEvents == Quiet => \A i \in DOMAIN issues : Live(i) => issues[i].count >= WeightOn(i)

\* An event leaves the queue: it is grouped, set aside after its attempts, pruned,
\* or abandoned by a worker that stopped on the last attempt.
EventuallyDone ==
    \A e \in Events :
        rows[e].stored ~> \/ rows[e].done \/ ~rows[e].stored
                          \/ /\ rows[e].attempts >= MaxProcessAttempts
                             /\ \A w \in Workers : ~InHand(w, e)
----------------------------------------------------------------------------
(* What comments and documents say and the code does not do (README, section 4). *)

\* "Totals stay honest": between events an issue's count is what is attached to it.
CountExact == Quiet => \A i \in DOMAIN issues : Live(i) => issues[i].count = WeightOn(i)

\* "reports whether the event revived a resolved issue": a regression is announced
\* no more often than the issue was revived.
RegressedOncePerRevival == \A i \in DOMAIN issues : Cardinality(Regressions(i)) <= issues[i].revived

\* "Resolving clears the regressed flag": no other triage decision does.
OnlyResolvingClearsRegressed ==
    [][\A i \in DOMAIN issues :
         (issues[i].regressed /\ ~issues'[i].regressed) => triage.want = "resolved"]_vars

\* "so a newly uploaded map is picked up rather than shadowed by a remembered
\* miss": with no upload in progress a process remembers no miss for a stored map.
NoShadowedMap ==
    (\A w \in Workers : upload[w].step = "none")
        => \A w \in Workers, r \in artifacts : cache[w][r] # "miss"
============================================================================

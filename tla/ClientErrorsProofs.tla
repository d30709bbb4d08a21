------------------------- MODULE ClientErrorsProofs -------------------------
(***************************************************************************)
(* Proofs about ClientErrors: its types, that a fingerprint has one issue, *)
(* that an issue's triage columns agree, and that its count covers its     *)
(* events; and about ClientIntake: a report reaches one team, whoever      *)
(* waits as told is served, a crash has one issue, and a pass finds the    *)
(* issues that stand out. For every set of events, workers, releases and   *)
(* reports, however their statements interleave.                           *)
(***************************************************************************)
EXTENDS ClientErrors, ClientIntake, SumLemmas, TLAPS

\* Where a worker has an issue in hand.
WithIssue == {"touch", "facets", "attach", "detach", "notify"}

\* A worker that is past the lookup knows the issue.
IssueInHand == \A w \in Workers : pc[w] \in WithIssue => job[w].issue # NoIssue

\* The columns of a row, or of the copy an operator's request loaded, agree.
Consistent(row) ==
    /\ row.resolvedAt <=> row.status = "resolved"
    /\ row.regressed => row.status # "resolved"

\* UpdateIssue writes what it computes from the copy, so the copy must be consistent too.
CopyConsistent == triage.issue # NoIssue => Consistent(triage)

\* The inductive invariant.
IssuesInv ==
    /\ TypeOK /\ IssueInHand
    /\ OneIssuePerFingerprint /\ TriageConsistent /\ CopyConsistent

LEMMA ChosenOK == (CHOOSE e \in Events : TRUE) \in Events /\ (CHOOSE f \in Fingerprints : TRUE) \in Fingerprints
                  /\ (CHOOSE r \in Releases : TRUE) \in Releases
  BY ConstantsAssumption

LEMMA NewOK == NewRow \in Row /\ NoJob \in Job /\ NoEdit \in Edit /\ NoUpload \in Upload
  <1>1. NewRow \in Row
    BY DEF NewRow, Row, Ungrouped
  <1>2. NoJob \in Job
    BY ChosenOK DEF NoJob, Job
  <1>3. NoEdit \in Edit
    BY DEF NoEdit, Edit, Statuses
  <1>4. NoUpload \in Upload
    BY ChosenOK DEF NoUpload, Upload
  <1>5. QED
    BY <1>1, <1>2, <1>3, <1>4

LEMMA IssuesInitOK == Init => IssuesInv
  <1> SUFFICES ASSUME Init PROVE IssuesInv
    OBVIOUS
  <1>1. TypeOK
    <2>1. "idle" \in PCs /\ "unknown" \in Known
      BY DEF PCs, Known
    <2>2. issues \in Seq(Issue) /\ Len(issues) <= MaxIssues /\ notices \in Seq(Notice)
      BY ConstantsAssumption DEF Init
    <2>3. 0 \in 0 .. MaxDeliveries /\ 0 \in 0 .. MaxChanges
      BY ConstantsAssumption
    <2>4. QED
      BY <2>1, <2>2, <2>3, NewOK DEF TypeOK, Init
  <1>2. IssueInHand
    BY DEF Init, IssueInHand, WithIssue
  <1>3. DOMAIN issues = {}
    BY DEF Init
  <1>4. CopyConsistent
    BY DEF Init, CopyConsistent, NoEdit
  <1>5. QED
    BY <1>1, <1>2, <1>3, <1>4 DEF IssuesInv, OneIssuePerFingerprint, TriageConsistent

\* What an issue's row and a worker's job hold.
LEMMA IssueFields ==
  ASSUME TypeOK, NEW i \in DOMAIN issues
  PROVE  /\ issues[i] \in Issue /\ issues[i].live \in BOOLEAN /\ issues[i].fp \in Fingerprints
         /\ issues[i].status \in Statuses /\ issues[i].regressed \in BOOLEAN
         /\ issues[i].resolvedAt \in BOOLEAN /\ issues[i].count \in Nat /\ issues[i].revived \in Nat
         /\ i \in IssueIds /\ i # NoIssue
  <1>1. issues[i] \in Issue /\ i \in 1 .. Len(issues) /\ Len(issues) \in Nat /\ Len(issues) <= MaxIssues
    BY DEF TypeOK
  <1>2. i \in IssueIds /\ i # NoIssue
    BY <1>1, ConstantsAssumption DEF IssueIds, NoIssue
  <1>3. QED
    BY <1>1, <1>2 DEF Issue

LEMMA RowFields ==
  ASSUME TypeOK, NEW e \in Events
  PROVE  /\ rows[e] \in Row /\ rows[e].stored \in BOOLEAN /\ rows[e].done \in BOOLEAN
         /\ rows[e].attempts \in Nat /\ rows[e].issue \in IssueIds \cup {NoIssue}
  BY DEF TypeOK, Row

LEMMA JobFields ==
  ASSUME TypeOK, NEW w \in Workers
  PROVE  /\ job[w] \in Job /\ job[w].todo \subseteq Events /\ job[w].event \in Events
         /\ job[w].held \in [Events -> IssueIds \cup {NoIssue}]
         /\ job[w].fp \in Fingerprints /\ job[w].issue \in IssueIds \cup {NoIssue}
         /\ job[w].version \in {FingerprintVersion, ResolvedFingerprintVersion}
         /\ job[w].created \in BOOLEAN /\ job[w].reopened \in BOOLEAN /\ job[w].hit \in BOOLEAN
  BY DEF TypeOK, Job

\* One row of the table changes and keeps its fingerprint.
LEMMA IssueChanged ==
  ASSUME TypeOK, OneIssuePerFingerprint, TriageConsistent, NEW i \in DOMAIN issues, NEW row \in Issue,
         issues' = [issues EXCEPT ![i] = row], row.fp = issues[i].fp,
         row.live => issues[i].live, Consistent(row)
  PROVE  /\ issues' \in Seq(Issue) /\ Len(issues') = Len(issues) /\ Len(issues') <= MaxIssues
         /\ OneIssuePerFingerprint' /\ TriageConsistent'
  <1>1. issues \in Seq(Issue) /\ Len(issues) <= MaxIssues
    BY DEF TypeOK
  <1>2. issues' \in Seq(Issue) /\ Len(issues') = Len(issues) /\ DOMAIN issues' = DOMAIN issues
    BY <1>1
  <1>3. issues'[i] = row /\ \A k \in DOMAIN issues : k # i => issues'[k] = issues[k]
    BY <1>1
  <1>4. \A k \in DOMAIN issues : issues'[k].fp = issues[k].fp /\ (issues'[k].live => issues[k].live)
    BY <1>3
  <1>5. OneIssuePerFingerprint'
    BY <1>2, <1>4 DEF OneIssuePerFingerprint, Live
  <1>6. TriageConsistent'
    BY <1>2, <1>3 DEF TriageConsistent, Consistent
  <1>7. QED
    BY <1>1, <1>2, <1>5, <1>6

\* The table of issues is left alone, and nothing of the triage.
LEMMA IssuesKept ==
  ASSUME IssuesInv, UNCHANGED <<issues, triage>>, TypeOK', IssueInHand' PROVE IssuesInv'
  BY DEF IssuesInv, OneIssuePerFingerprint, TriageConsistent, CopyConsistent, Consistent, Live

\* A worker goes on with a job.
LEMMA WorkerGoesOn ==
  ASSUME TypeOK, IssueInHand, NEW w \in Workers, NEW label \in PCs, NEW j \in Job,
         pc' = [pc EXCEPT ![w] = label], job' = [job EXCEPT ![w] = j],
         label \in WithIssue => j.issue # NoIssue
  PROVE  pc' \in [Workers -> PCs] /\ job' \in [Workers -> Job] /\ IssueInHand'
  BY DEF TypeOK, IssueInHand

LEMMA AdvanceOK ==
  ASSUME TypeOK, IssueInHand, NEW w \in Workers, Advance(w)
  PROVE  pc' \in [Workers -> PCs] /\ job' \in [Workers -> Job] /\ IssueInHand'
  <1> DEFINE j == [NoJob EXCEPT !.todo = job[w].todo,
                     !.held = [e \in Events |-> IF e \in job[w].todo THEN job[w].held[e] ELSE NoIssue]]
             label == IF job[w].todo = {} THEN "idle" ELSE "next"
  <1>1. j \in Job
    <2>1. [e \in Events |-> IF e \in job[w].todo THEN job[w].held[e] ELSE NoIssue]
             \in [Events -> IssueIds \cup {NoIssue}]
      BY JobFields
    <2>2. QED
      BY <2>1, JobFields, NewOK DEF Job
  <1>2. label \in PCs /\ label \notin WithIssue
    BY DEF PCs, WithIssue
  <1>3. pc' = [pc EXCEPT ![w] = label] /\ job' = [job EXCEPT ![w] = j]
    BY DEF Advance
  <1> HIDE DEF j, label
  <1>4. QED
    BY <1>1, <1>2, <1>3, WorkerGoesOn

LEMMA IngestOK == ASSUME IssuesInv, NEW e \in Events, Ingest(e) PROVE IssuesInv'
  <1>1. rows' \in [Events -> Row]
    <2>1. [NewRow EXCEPT !.stored = TRUE] \in Row
      BY NewOK DEF Row
    <2>2. QED
      BY <2>1 DEF IssuesInv, TypeOK, Ingest
  <1>2. sent' \in [Events -> 0 .. MaxDeliveries]
    <2>1. sent[e] \in 0 .. MaxDeliveries /\ sent[e] < MaxDeliveries
      BY DEF IssuesInv, TypeOK, Ingest
    <2>2. sent[e] + 1 \in 0 .. MaxDeliveries
      BY <2>1, ConstantsAssumption
    <2>3. QED
      BY <2>2 DEF IssuesInv, TypeOK, Ingest
  <1>3. TypeOK' /\ IssueInHand'
    BY <1>1, <1>2 DEF IssuesInv, TypeOK, IssueInHand, Ingest
  <1>4. QED
    BY <1>3, IssuesKept DEF Ingest

LEMMA ClaimOK == ASSUME IssuesInv, NEW w \in Workers, ClaimUnprocessed(w) PROVE IssuesInv'
  <1>0. TypeOK /\ IssueInHand
    BY DEF IssuesInv
  <1>1. PICK S \in SUBSET Claimable :
          /\ rows' = [e \in Events |-> IF e \in S THEN [rows[e] EXCEPT !.attempts = @ + 1] ELSE rows[e]]
          /\ job' = [job EXCEPT ![w] = [NoJob EXCEPT !.todo = S,
                       !.held = [e \in Events |-> IF e \in S THEN rows[e].issue ELSE NoIssue]]]
    BY DEF ClaimUnprocessed
  <1>2. S \subseteq Events
    BY <1>1 DEF Claimable
  <1>3. rows' \in [Events -> Row]
    <2>1. \A e \in Events : [rows[e] EXCEPT !.attempts = @ + 1] \in Row
      BY <1>0, RowFields DEF Row
    <2>2. QED
      BY <1>0, <1>1, <2>1 DEF TypeOK
  <1> DEFINE j == [NoJob EXCEPT !.todo = S,
                     !.held = [e \in Events |-> IF e \in S THEN rows[e].issue ELSE NoIssue]]
  <1>4. j \in Job
    <2>1. [e \in Events |-> IF e \in S THEN rows[e].issue ELSE NoIssue] \in [Events -> IssueIds \cup {NoIssue}]
      BY <1>0 DEF TypeOK, Row
    <2>2. QED
      BY <1>2, <2>1, NewOK DEF Job
  <1>5. /\ job' = [job EXCEPT ![w] = j] /\ pc' = [pc EXCEPT ![w] = "next"]
        /\ "next" \in PCs /\ "next" \notin WithIssue
    BY <1>1 DEF ClaimUnprocessed, Goto, PCs, WithIssue
  <1> HIDE DEF j
  <1>6. pc' \in [Workers -> PCs] /\ job' \in [Workers -> Job] /\ IssueInHand'
    BY <1>0, <1>4, <1>5, WorkerGoesOn
  <1>7. TypeOK'
    BY <1>0, <1>3, <1>6 DEF TypeOK, ClaimUnprocessed
  <1>8. QED
    BY <1>6, <1>7, IssuesKept DEF ClaimUnprocessed

\* The stack is resolved or not, and the map remembered or not.
LEMMA ResolveStackMoves ==
  ASSUME NEW w \in Workers, NEW e \in Events, ResolveStack(w, e)
  PROVE  \E mapped \in BOOLEAN, label \in {"lookup", "remember"} :
           /\ job' = [job EXCEPT ![w] = Fingerprinted(job[w], e, mapped)]
           /\ pc' = [pc EXCEPT ![w] = label]
  <1>1. CASE /\ job' = [job EXCEPT ![w] = Fingerprinted(job[w], e, cache[w][ReleaseOf[e]] = "map")]
             /\ pc' = [pc EXCEPT ![w] = "lookup"]
    <2>1. PICK m \in BOOLEAN : m = (cache[w][ReleaseOf[e]] = "map")
      BY (cache[w][ReleaseOf[e]] = "map") \in BOOLEAN
    <2>2. QED
      BY <1>1, <2>1
  <1>2. ASSUME NEW found \in {ReleaseOf[e] \in artifacts, ReleaseOf[e] \in artifacts /\ ~Faults},
               job' = [job EXCEPT ![w] = Fingerprinted(job[w], e, found)],
               pc' = [pc EXCEPT ![w] = "remember"]
        PROVE  \E mapped \in BOOLEAN, label \in {"lookup", "remember"} :
                 /\ job' = [job EXCEPT ![w] = Fingerprinted(job[w], e, mapped)]
                 /\ pc' = [pc EXCEPT ![w] = label]
    <2>1. (ReleaseOf[e] \in artifacts) \in BOOLEAN /\ (ReleaseOf[e] \in artifacts /\ ~Faults) \in BOOLEAN
      OBVIOUS
    <2>2. found \in BOOLEAN
      BY <1>2, <2>1
    <2>3. QED
      BY <1>2, <2>2
  <1>3. QED
    BY <1>1, <1>2 DEF ResolveStack, Goto

LEMMA ResolveStackOK ==
  ASSUME IssuesInv, NEW w \in Workers, NEW e \in Events, ResolveStack(w, e) PROVE IssuesInv'
  <1>0. TypeOK /\ IssueInHand
    BY DEF IssuesInv
  <1>1. PICK mapped \in BOOLEAN, label \in {"lookup", "remember"} :
          /\ job' = [job EXCEPT ![w] = Fingerprinted(job[w], e, mapped)]
          /\ pc' = [pc EXCEPT ![w] = label]
    BY ResolveStackMoves
  <1> DEFINE j == Fingerprinted(job[w], e, mapped)
  <1>2. j \in Job
    BY <1>0, JobFields, ConstantsAssumption DEF Fingerprinted, Job
  <1>3. label \in PCs /\ label \notin WithIssue
    BY DEF PCs, WithIssue
  <1>4. job' = [job EXCEPT ![w] = j]
    BY <1>1
  <1> HIDE DEF j
  <1>5. pc' \in [Workers -> PCs] /\ job' \in [Workers -> Job] /\ IssueInHand'
    BY <1>0, <1>1, <1>2, <1>3, <1>4, WorkerGoesOn
  <1>6. TypeOK'
    BY <1>0, <1>5 DEF TypeOK, ResolveStack
  <1>7. QED
    BY <1>5, <1>6, IssuesKept DEF ResolveStack

LEMMA RememberOK == ASSUME IssuesInv, NEW w \in Workers, Remember(w) PROVE IssuesInv'
  <1>0. TypeOK /\ IssueInHand
    BY DEF IssuesInv
  <1>1. \A c \in [Releases -> Known], r \in Releases, hit \in BOOLEAN :
           Remembered(c, r, hit) \in [Releases -> Known]
    BY DEF Remembered, Known
  <1>2. cache' \in [Workers -> [Releases -> Known]]
    <2>1. cache[w] \in [Releases -> Known] /\ ReleaseOf[job[w].event] \in Releases
      BY <1>0, JobFields, ConstantsAssumption DEF TypeOK
    <2>2. Remembered(cache[w], ReleaseOf[job[w].event], job[w].hit) \in [Releases -> Known]
      BY <1>0, <1>1, <2>1, JobFields
    <2>3. QED
      BY <1>0, <2>2 DEF TypeOK, Remember
  <1>3. pc' = [pc EXCEPT ![w] = "lookup"] /\ "lookup" \in PCs /\ "lookup" \notin WithIssue /\ job' = job
    BY DEF Remember, Goto, PCs, WithIssue
  <1>4. TypeOK' /\ IssueInHand'
    BY <1>0, <1>2, <1>3 DEF TypeOK, IssueInHand, Remember
  <1>5. QED
    BY <1>4, IssuesKept DEF Remember

LEMMA QueryIssueOK ==
  ASSUME IssuesInv, NEW w \in Workers, QueryIssueByFingerprint(w) PROVE IssuesInv'
  <1>0. TypeOK /\ IssueInHand
    BY DEF IssuesInv
  <1>1. CASE pc' = [pc EXCEPT ![w] = "insert"] /\ UNCHANGED job
    <2>1. "insert" \in PCs /\ "insert" \notin WithIssue
      BY DEF PCs, WithIssue
    <2>2. TypeOK' /\ IssueInHand'
      BY <1>0, <1>1, <2>1 DEF TypeOK, IssueInHand, QueryIssueByFingerprint
    <2>3. QED
      BY <2>2, IssuesKept DEF QueryIssueByFingerprint
  <1>2. ASSUME NEW i \in IssuesOf(job[w].fp), job' = [job EXCEPT ![w] = Found(job[w], i)],
               pc' = [pc EXCEPT ![w] = "touch"]
        PROVE  IssuesInv'
    <2>1. i \in IssueIds /\ i # NoIssue
      BY <1>0, IssueFields DEF IssuesOf
    <2>2. PICK j : j = Found(job[w], i)
      OBVIOUS
    <2>3. j \in Job /\ j.issue # NoIssue
      BY <1>0, <2>1, <2>2, JobFields DEF Found, Job
    <2>4. "touch" \in PCs
      BY DEF PCs
    <2>5. pc' \in [Workers -> PCs] /\ job' \in [Workers -> Job] /\ IssueInHand'
      BY <1>0, <1>2, <2>2, <2>3, <2>4, WorkerGoesOn
    <2>6. TypeOK'
      BY <1>0, <2>5 DEF TypeOK, QueryIssueByFingerprint
    <2>7. QED
      BY <2>5, <2>6, IssuesKept DEF QueryIssueByFingerprint
  <1>3. QED
    BY <1>1, <1>2 DEF QueryIssueByFingerprint, Goto

LEMMA UpsertIssueOK == ASSUME IssuesInv, NEW w \in Workers, UpsertIssue(w) PROVE IssuesInv'
  <1>0. /\ TypeOK /\ IssueInHand /\ OneIssuePerFingerprint /\ TriageConsistent /\ CopyConsistent
        /\ issues \in Seq(Issue) /\ Len(issues) \in Nat /\ Len(issues) < MaxIssues
    BY DEF IssuesInv, TypeOK, UpsertIssue
  <1>f. PICK fp : fp = job[w].fp
    OBVIOUS
  <1>1. fp \in Fingerprints /\ IssuesOf(fp) = {} /\ issues' = Append(issues, NewIssue(fp))
    BY <1>0, <1>f, JobFields DEF UpsertIssue, UniqueIndex
  <1>2. NewIssue(fp) \in Issue /\ NewIssue(fp).fp = fp /\ Consistent(NewIssue(fp))
    BY <1>1 DEF NewIssue, Issue, Statuses, Consistent
  <1>3. /\ issues' \in Seq(Issue) /\ Len(issues') = Len(issues) + 1
        /\ issues'[Len(issues) + 1] = NewIssue(fp)
        /\ \A k \in DOMAIN issues : k \in DOMAIN issues' /\ issues'[k] = issues[k]
        /\ \A k \in DOMAIN issues' : k \in DOMAIN issues \/ k = Len(issues) + 1
    BY <1>0, <1>1, <1>2
  <1>4. Len(issues) + 1 \in IssueIds /\ Len(issues) + 1 # NoIssue /\ Len(issues') <= MaxIssues
    BY <1>0, <1>3, ConstantsAssumption DEF IssueIds, NoIssue
  <1>5. OneIssuePerFingerprint'
    <2>1. ASSUME NEW i \in DOMAIN issues', NEW k \in DOMAIN issues',
                 issues'[i].live, issues'[k].live, issues'[i].fp = issues'[k].fp
          PROVE  i = k
      <3>1. CASE i \in DOMAIN issues /\ k \in DOMAIN issues
        BY <1>0, <1>3, <2>1, <3>1 DEF OneIssuePerFingerprint, Live
      <3>2. CASE i \in DOMAIN issues /\ k = Len(issues) + 1
        <4>1. i \in IssuesOf(fp)
          BY <1>2, <1>3, <2>1, <3>2 DEF IssuesOf
        <4>2. QED
          BY <1>1, <4>1
      <3>3. CASE k \in DOMAIN issues /\ i = Len(issues) + 1
        <4>1. k \in IssuesOf(fp)
          BY <1>2, <1>3, <2>1, <3>3 DEF IssuesOf
        <4>2. QED
          BY <1>1, <4>1
      <3>4. QED
        BY <1>3, <3>1, <3>2, <3>3
    <2>2. QED
      BY <2>1 DEF OneIssuePerFingerprint, Live
  <1>6. TriageConsistent'
    BY <1>0, <1>2, <1>3 DEF TriageConsistent, Consistent
  <1>7. PICK j : j = [job[w] EXCEPT !.issue = Len(issues) + 1, !.created = TRUE]
    OBVIOUS
  <1>8. j \in Job /\ j.issue # NoIssue
    BY <1>0, <1>4, <1>7, JobFields DEF Job
  <1>9. job' = [job EXCEPT ![w] = j] /\ pc' = [pc EXCEPT ![w] = "facets"] /\ "facets" \in PCs
    BY <1>7 DEF UpsertIssue, Goto, PCs
  <1>10. pc' \in [Workers -> PCs] /\ job' \in [Workers -> Job] /\ IssueInHand'
    BY <1>0, <1>8, <1>9, WorkerGoesOn
  <1>11. TypeOK'
    BY <1>0, <1>3, <1>4, <1>10 DEF TypeOK, UpsertIssue
  <1>12. CopyConsistent'
    BY <1>0 DEF CopyConsistent, Consistent, UpsertIssue
  <1>13. QED
    BY <1>5, <1>6, <1>10, <1>11, <1>12 DEF IssuesInv

\* A repeat revives a resolved issue and clears its resolution time with it.
LEMMA TouchedOK ==
  ASSUME NEW row \in Issue, Consistent(row), NEW n \in Nat
  PROVE  /\ Touched(row, n) \in Issue /\ Touched(row, n).fp = row.fp
         /\ Touched(row, n).live = row.live /\ Consistent(Touched(row, n))
  <1>1. /\ row.count \in Nat /\ row.revived \in Nat /\ row.status \in Statuses
        /\ row.regressed \in BOOLEAN /\ row.resolvedAt \in BOOLEAN /\ row.live \in BOOLEAN
        /\ row.fp \in Fingerprints
    BY DEF Issue
  <1>2. row.count + n \in Nat /\ row.revived + (IF row.status = "resolved" THEN 1 ELSE 0) \in Nat
    BY <1>1
  <1>3. /\ Touched(row, n).fp = row.fp /\ Touched(row, n).live = row.live
        /\ Touched(row, n).status = (IF row.status = "resolved" THEN "unresolved" ELSE row.status)
        /\ Touched(row, n).regressed = (row.regressed \/ row.status = "resolved")
        /\ Touched(row, n).resolvedAt = (row.resolvedAt /\ row.status # "resolved")
    BY DEF Touched, Issue
  <1>4. Touched(row, n) \in Issue
    BY <1>1, <1>2, <1>3 DEF Touched, Issue, Statuses
  <1>5. Consistent(Touched(row, n))
    BY <1>3 DEF Consistent
  <1>6. QED
    BY <1>3, <1>4, <1>5

LEMMA TouchIssueOK == ASSUME IssuesInv, NEW w \in Workers, TouchIssue(w) PROVE IssuesInv'
  <1>0. /\ TypeOK /\ IssueInHand /\ OneIssuePerFingerprint /\ TriageConsistent /\ CopyConsistent
    BY DEF IssuesInv
  <1>i. PICK i, n : i = job[w].issue /\ n = Weight[job[w].event]
    OBVIOUS
  <1>1. i \in DOMAIN issues /\ n \in Nat /\ issues' = [issues EXCEPT ![i] = Touched(issues[i], n)]
    BY <1>0, <1>i, JobFields, ConstantsAssumption DEF TouchIssue, Live
  <1>2. issues[i] \in Issue /\ Consistent(issues[i]) /\ i # NoIssue
    BY <1>0, <1>1, IssueFields DEF TriageConsistent, Consistent
  <1>3. PICK after : after = Touched(issues[i], n)
    OBVIOUS
  <1>4. after \in Issue /\ after.fp = issues[i].fp /\ after.live = issues[i].live /\ Consistent(after)
    BY <1>1, <1>2, <1>3, TouchedOK
  <1>5. /\ issues' \in Seq(Issue) /\ Len(issues') <= MaxIssues
        /\ OneIssuePerFingerprint' /\ TriageConsistent'
    BY <1>0, <1>1, <1>3, <1>4, IssueChanged
  <1>6. PICK reopened \in BOOLEAN : reopened = (after.regressed /\ ~after.resolvedAt)
    BY (after.regressed /\ ~after.resolvedAt) \in BOOLEAN
  <1>7. PICK j : j = [job[w] EXCEPT !.reopened = reopened]
    OBVIOUS
  <1>8. j \in Job /\ j.issue # NoIssue
    BY <1>0, <1>i, <1>2, <1>7, JobFields DEF Job
  <1>9. job' = [job EXCEPT ![w] = j] /\ pc' = [pc EXCEPT ![w] = "facets"] /\ "facets" \in PCs
    BY <1>i, <1>3, <1>6, <1>7 DEF TouchIssue, Goto, PCs
  <1>10. pc' \in [Workers -> PCs] /\ job' \in [Workers -> Job] /\ IssueInHand'
    BY <1>0, <1>8, <1>9, WorkerGoesOn
  <1>11. TypeOK'
    BY <1>0, <1>5, <1>10 DEF TypeOK, TouchIssue
  <1>12. CopyConsistent'
    BY <1>0 DEF CopyConsistent, Consistent, TouchIssue
  <1>13. QED
    BY <1>5, <1>10, <1>11, <1>12 DEF IssuesInv

LEMMA RecordFacetsOK == ASSUME IssuesInv, NEW w \in Workers, RecordFacets(w) PROVE IssuesInv'
  <1>0. TypeOK /\ IssueInHand
    BY DEF IssuesInv
  <1>1. pc[w] = "facets" /\ pc' = [pc EXCEPT ![w] = "attach"] /\ "attach" \in PCs
    BY DEF RecordFacets, Goto, PCs
  <1>2. job[w].issue # NoIssue
    BY <1>0, <1>1 DEF IssueInHand, WithIssue
  <1>3. TypeOK' /\ IssueInHand'
    BY <1>0, <1>1, <1>2 DEF TypeOK, IssueInHand, RecordFacets
  <1>4. QED
    BY <1>3, IssuesKept DEF RecordFacets

LEMMA AttachOK == ASSUME IssuesInv, NEW w \in Workers, AttachToIssue(w) PROVE IssuesInv'
  <1>0. TypeOK /\ IssueInHand
    BY DEF IssuesInv
  <1>1. job[w].issue # NoIssue /\ pc[w] = "attach"
    BY <1>0 DEF AttachToIssue, IssueInHand, WithIssue
  <1>2. rows' \in [Events -> Row]
    <2>1. [rows[job[w].event] EXCEPT !.issue = job[w].issue, !.version = job[w].version, !.done = TRUE]
             \in Row
      <3>1. rows[job[w].event] \in Row
        BY <1>0, JobFields, RowFields
      <3>2. QED
        BY <1>0, <3>1, JobFields DEF Row
    <2>2. QED
      BY <1>0, <2>1, JobFields DEF TypeOK, AttachToIssue
  <1>3. pc' \in [Workers -> PCs] /\ job' \in [Workers -> Job] /\ IssueInHand'
    <2>1. CASE Advance(w)
      BY <1>0, <2>1, AdvanceOK
    <2>2. CASE UNCHANGED job /\ \E label \in {"notify", "detach"} : Goto(w, label)
      <3>1. "notify" \in PCs /\ "detach" \in PCs
        BY DEF PCs
      <3>2. QED
        BY <1>0, <1>1, <2>2, <3>1 DEF Goto, TypeOK, IssueInHand
    <2>3. QED
      BY <2>1, <2>2 DEF AttachToIssue
  <1>4. TypeOK'
    BY <1>0, <1>2, <1>3 DEF TypeOK, AttachToIssue
  <1>5. QED
    BY <1>3, <1>4, IssuesKept DEF AttachToIssue

LEMMA DetachOK == ASSUME IssuesInv, NEW w \in Workers, DetachFromIssue(w) PROVE IssuesInv'
  <1>0. /\ TypeOK /\ IssueInHand /\ OneIssuePerFingerprint /\ TriageConsistent /\ CopyConsistent
    BY DEF IssuesInv
  <1>1. pc' \in [Workers -> PCs] /\ job' \in [Workers -> Job] /\ IssueInHand'
    BY <1>0, AdvanceOK DEF DetachFromIssue
  <1>i. PICK i, n, left : /\ i = job[w].held[job[w].event] /\ n = Weight[job[w].event]
                          /\ left = LeftWithoutEvents(i)
    OBVIOUS
  <1>2. CASE Live(i)
    <2>1. i \in DOMAIN issues /\ issues[i].live /\ n \in Nat
      BY <1>0, <1>i, <1>2, JobFields, ConstantsAssumption DEF Live
    <2>2. PICK row : row = [issues[i] EXCEPT !.count = Less(issues[i].count, n), !.live = ~left]
      OBVIOUS
    <2>3. issues' = [issues EXCEPT ![i] = row]
      BY <1>i, <1>2, <2>2 DEF DetachFromIssue
    <2>4. issues[i] \in Issue /\ Consistent(issues[i]) /\ issues[i].count \in Nat
      BY <1>0, <2>1, IssueFields DEF TriageConsistent, Consistent
    <2>5. Less(issues[i].count, n) \in Nat
      BY <2>1, <2>4 DEF Less
    <2>6. row \in Issue /\ row.fp = issues[i].fp /\ Consistent(row)
      BY <2>2, <2>4, <2>5 DEF Issue, Consistent
    <2>7. /\ issues' \in Seq(Issue) /\ Len(issues') <= MaxIssues
          /\ OneIssuePerFingerprint' /\ TriageConsistent'
      BY <1>0, <2>1, <2>3, <2>6, IssueChanged
    <2>8. TypeOK' /\ CopyConsistent'
      BY <1>0, <1>1, <2>7 DEF TypeOK, CopyConsistent, Consistent, DetachFromIssue
    <2>9. QED
      BY <1>1, <2>7, <2>8 DEF IssuesInv
  <1>3. CASE ~Live(i)
    <2>1. issues' = issues
      BY <1>i, <1>3 DEF DetachFromIssue
    <2>2. TypeOK'
      BY <1>0, <1>1, <2>1 DEF TypeOK, DetachFromIssue
    <2>3. QED
      BY <1>1, <2>1, <2>2, IssuesKept DEF DetachFromIssue
  <1>4. QED
    BY <1>2, <1>3

LEMMA NotifyOK == ASSUME IssuesInv, NEW w \in Workers, Notify(w) PROVE IssuesInv'
  <1>0. TypeOK /\ IssueInHand
    BY DEF IssuesInv
  <1>1. job[w].issue \in IssueIds /\ job[w].event \in Events
    BY <1>0, JobFields DEF Notify, IssueInHand, WithIssue
  <1>2. notices' \in Seq(Notice)
    <2>1. \A kind \in {"opened", "regressed"} :
             [event |-> job[w].event, issue |-> job[w].issue, kind |-> kind] \in Notice
      BY <1>1 DEF Notice
    <2>2. notices \in Seq(Notice)
      BY <1>0 DEF TypeOK
    <2>3. QED
      BY <2>1, <2>2 DEF Notify
  <1>3. pc' \in [Workers -> PCs] /\ job' \in [Workers -> Job] /\ IssueInHand'
    BY <1>0, AdvanceOK DEF Notify
  <1>4. TypeOK'
    BY <1>0, <1>2, <1>3 DEF TypeOK, Notify
  <1>5. QED
    BY <1>3, <1>4, IssuesKept DEF Notify

LEMMA StepFailsOK == ASSUME IssuesInv, NEW w \in Workers, StepFails(w) PROVE IssuesInv'
  <1>0. TypeOK /\ IssueInHand
    BY DEF IssuesInv
  <1>1. rows' \in [Events -> Row]
    <2>0. PICK e \in Events : e = job[w].event
      BY <1>0, JobFields
    <2>1. PICK late \in BOOLEAN : late = (rows[e].attempts >= MaxProcessAttempts)
      BY (rows[e].attempts >= MaxProcessAttempts) \in BOOLEAN
    <2>2. e \in Events
      OBVIOUS
    <2>3. [rows[e] EXCEPT !.done = late] \in Row
      BY <1>0, <2>2, RowFields DEF Row
    <2>4. rows' = IF rows[e].stored THEN [rows EXCEPT ![e] = [rows[e] EXCEPT !.done = late]] ELSE rows
      BY <1>0, <2>0, <2>1, <2>2 DEF StepFails, TypeOK
    <2>5. QED
      BY <1>0, <2>2, <2>3, <2>4 DEF TypeOK
  <1>2. pc' \in [Workers -> PCs] /\ job' \in [Workers -> Job] /\ IssueInHand'
    BY <1>0, AdvanceOK DEF StepFails
  <1>3. TypeOK'
    BY <1>0, <1>1, <1>2 DEF TypeOK, StepFails
  <1>4. QED
    BY <1>2, <1>3, IssuesKept DEF StepFails

LEMMA AbandonOK == ASSUME IssuesInv, NEW w \in Workers, Abandon(w) PROVE IssuesInv'
  <1>0. TypeOK /\ IssueInHand
    BY DEF IssuesInv
  <1>1. "idle" \in PCs /\ "idle" \notin WithIssue /\ "unknown" \in Known
    BY DEF PCs, WithIssue, Known
  <1>2. pc' \in [Workers -> PCs] /\ job' \in [Workers -> Job] /\ IssueInHand'
    BY <1>0, <1>1, NewOK, WorkerGoesOn DEF Abandon
  <1>3. cache' \in [Workers -> [Releases -> Known]]
    BY <1>0, <1>1 DEF Abandon, TypeOK
  <1>4. TypeOK'
    BY <1>0, <1>2, <1>3 DEF TypeOK, Abandon
  <1>5. QED
    BY <1>2, <1>4, IssuesKept DEF Abandon

LEMMA UploaderOK == ASSUME IssuesInv, NEW w \in Workers, Uploader(w) PROVE IssuesInv'
  <1>0. TypeOK /\ IssueInHand /\ upload[w] \in Upload /\ uploads \in 0 .. MaxChanges /\ edits \in 0 .. MaxChanges
    BY DEF IssuesInv, TypeOK
  <1>1. ASSUME NEW r \in Releases, UpsertArtifact(w, r) PROVE TypeOK' /\ IssueInHand'
    <2>1. [step |-> "forget", release |-> r] \in Upload
      BY DEF Upload
    <2>2. uploads + 1 \in 0 .. MaxChanges
      BY <1>0, <1>1, ConstantsAssumption DEF UpsertArtifact, Changes
    <2>3. QED
      BY <1>0, <1>1, <2>1, <2>2 DEF TypeOK, IssueInHand, UpsertArtifact
  <1>2. CASE Forget(w)
    <2>1. [upload[w] EXCEPT !.step = "mark"] \in Upload /\ [r \in Releases |-> "unknown"] \in [Releases -> Known]
      BY <1>0 DEF Upload, Known
    <2>2. TypeOK' /\ IssueInHand'
      BY <1>0, <1>2, <2>1 DEF TypeOK, IssueInHand, Forget
    <2>3. QED
      BY <1>2, <2>2, IssuesKept DEF Forget
  <1>3. CASE MarkReleaseForRegroup(w)
    <2>1. \A e \in Events : [rows[e] EXCEPT !.done = FALSE, !.attempts = 0] \in Row
      BY <1>0, RowFields DEF Row
    <2>2. rows' \in [Events -> Row]
      BY <1>0, <1>3, <2>1 DEF TypeOK, MarkReleaseForRegroup
    <2>3. TypeOK' /\ IssueInHand'
      BY <1>0, <1>3, <2>2, NewOK DEF TypeOK, IssueInHand, MarkReleaseForRegroup
    <2>4. QED
      BY <1>3, <2>3, IssuesKept DEF MarkReleaseForRegroup
  <1>4. QED
    BY <1>1, <1>2, <1>3, IssuesKept DEF Uploader, UpsertArtifact

\* UpdateIssue writes consistent columns from a consistent copy, whatever it overwrites.
LEMMA DecidedOK ==
  ASSUME NEW row \in Issue, NEW t \in Edit, Consistent(t)
  PROVE  /\ Decided(row, t) \in Issue /\ Decided(row, t).fp = row.fp
         /\ Decided(row, t).live = row.live /\ Consistent(Decided(row, t))
  <1>1. /\ t.want \in Statuses \cup {"keep"} /\ t.status \in Statuses /\ t.regressed \in BOOLEAN
        /\ t.resolvedAt \in BOOLEAN
    BY DEF Edit
  <1>2. PICK status : status = IF t.want = "keep" THEN t.status ELSE t.want
    OBVIOUS
  <1>3. status \in Statuses
    BY <1>1, <1>2 DEF Statuses
  <1>4. PICK row2 : row2 = Decided(row, t)
    OBVIOUS
  <1>5. /\ row2.fp = row.fp /\ row2.live = row.live /\ row2.status = status
        /\ row2.regressed = (t.regressed /\ ~(status # t.status /\ status = "resolved"))
        /\ row2.resolvedAt = (IF status # t.status THEN status = "resolved" ELSE t.resolvedAt)
        /\ row2 \in Issue
    BY <1>1, <1>2, <1>3, <1>4 DEF Decided, Issue
  <1>6. Consistent(row2)
    BY <1>5 DEF Consistent
  <1>7. QED
    BY <1>4, <1>5, <1>6

LEMMA OperatorOK == ASSUME IssuesInv, Operator PROVE IssuesInv'
  <1>0. /\ TypeOK /\ IssueInHand /\ OneIssuePerFingerprint /\ TriageConsistent /\ CopyConsistent
        /\ issues \in Seq(Issue) /\ Len(issues) <= MaxIssues
        /\ uploads \in 0 .. MaxChanges /\ edits \in 0 .. MaxChanges
    BY DEF IssuesInv, TypeOK
  <1>1. ASSUME NEW i \in DOMAIN issues, LoadIssue(i) PROVE IssuesInv'
    <2>1. PICK want \in Statuses \cup {"keep"} :
             triage' = [issue |-> i, want |-> want, status |-> issues[i].status,
                        regressed |-> issues[i].regressed, resolvedAt |-> issues[i].resolvedAt]
      BY <1>1 DEF LoadIssue
    <2>2. triage' \in Edit /\ CopyConsistent'
      BY <1>0, <2>1, IssueFields DEF Edit, CopyConsistent, Consistent, TriageConsistent
    <2>3. edits + 1 \in 0 .. MaxChanges
      BY <1>0, <1>1, ConstantsAssumption DEF LoadIssue, Changes
    <2>4. TypeOK' /\ IssueInHand'
      BY <1>0, <1>1, <2>2, <2>3 DEF TypeOK, IssueInHand, LoadIssue
    <2>5. OneIssuePerFingerprint' /\ TriageConsistent'
      BY <1>0, <1>1 DEF OneIssuePerFingerprint, TriageConsistent, Live, LoadIssue
    <2>6. QED
      BY <2>2, <2>4, <2>5 DEF IssuesInv
  <1>2. CASE UpdateIssue
    <2>i. PICK i, t : i = triage.issue /\ t = triage
      OBVIOUS
    <2>1. i # NoIssue /\ t \in Edit /\ Consistent(t)
      BY <1>0, <1>2, <2>i DEF UpdateIssue, CopyConsistent, TypeOK
    <2>2. triage' = NoEdit /\ CopyConsistent'
      BY <1>2 DEF UpdateIssue, CopyConsistent, NoEdit
    <2>3. CASE Live(i)
      <3>1. i \in DOMAIN issues /\ issues[i] \in Issue
        BY <1>0, <2>3, IssueFields DEF Live
      <3>2. PICK row : row = Decided(issues[i], t)
        OBVIOUS
      <3>3. row \in Issue /\ row.fp = issues[i].fp /\ row.live = issues[i].live /\ Consistent(row)
        BY <2>1, <3>1, <3>2, DecidedOK
      <3>4. issues' = [issues EXCEPT ![i] = row]
        BY <1>2, <2>i, <2>3, <3>2 DEF UpdateIssue
      <3>5. /\ issues' \in Seq(Issue) /\ Len(issues') <= MaxIssues
            /\ OneIssuePerFingerprint' /\ TriageConsistent'
        BY <1>0, <3>1, <3>3, <3>4, IssueChanged
      <3>6. TypeOK' /\ IssueInHand'
        BY <1>0, <1>2, <2>2, <3>5, NewOK DEF TypeOK, IssueInHand, UpdateIssue
      <3>7. QED
        BY <2>2, <3>5, <3>6 DEF IssuesInv
    <2>4. CASE ~Live(i)
      <3>1. issues' = issues
        BY <1>2, <2>i, <2>4 DEF UpdateIssue
      <3>2. TypeOK' /\ IssueInHand'
        BY <1>0, <1>2, <2>2, <3>1, NewOK DEF TypeOK, IssueInHand, UpdateIssue
      <3>3. OneIssuePerFingerprint' /\ TriageConsistent'
        BY <1>0, <3>1 DEF OneIssuePerFingerprint, TriageConsistent, Live
      <3>4. QED
        BY <2>2, <3>2, <3>3 DEF IssuesInv
    <2>5. QED
      BY <2>3, <2>4
  <1>3. CASE PurgeOrg
    <2>1. /\ issues' = [i \in DOMAIN issues |-> [issues[i] EXCEPT !.live = FALSE]]
          /\ rows' = [e \in Events |-> NewRow] /\ edits' = edits + 1
      BY <1>3 DEF PurgeOrg
    <2>2. \A i \in DOMAIN issues : [issues[i] EXCEPT !.live = FALSE] \in Issue
      BY <1>0, IssueFields DEF Issue
    <2>3. DOMAIN issues = 1 .. Len(issues) /\ Len(issues) \in Nat
      BY <1>0
    <2>4. issues' \in Seq(Issue) /\ Len(issues') = Len(issues) /\ DOMAIN issues' = DOMAIN issues
      BY <2>1, <2>2, <2>3
    <2>5. edits + 1 \in 0 .. MaxChanges
      BY <1>0, <1>3, ConstantsAssumption DEF PurgeOrg, Changes
    <2>6. TypeOK' /\ IssueInHand'
      BY <1>0, <1>3, <2>1, <2>4, <2>5, NewOK DEF TypeOK, IssueInHand, PurgeOrg
    <2>7. \A i \in DOMAIN issues : /\ ~issues'[i].live /\ issues'[i].status = issues[i].status
                                   /\ issues'[i].regressed = issues[i].regressed
                                   /\ issues'[i].resolvedAt = issues[i].resolvedAt
      BY <1>0, <2>1, IssueFields DEF Issue
    <2>8. OneIssuePerFingerprint' /\ TriageConsistent'
      BY <1>0, <2>4, <2>7 DEF OneIssuePerFingerprint, TriageConsistent, Live
    <2>9. CopyConsistent'
      BY <1>0, <1>3 DEF CopyConsistent, Consistent, PurgeOrg
    <2>10. QED
      BY <2>6, <2>8, <2>9 DEF IssuesInv
  <1>4. QED
    BY <1>1, <1>2, <1>3 DEF Operator

LEMMA RetentionOK == ASSUME IssuesInv, RetentionJob PROVE IssuesInv'
  <1>0. /\ TypeOK /\ IssueInHand /\ OneIssuePerFingerprint /\ TriageConsistent /\ CopyConsistent
    BY DEF IssuesInv
  <1>1. ASSUME NEW e \in Events, PruneEvent(e) PROVE IssuesInv'
    <2>1. TypeOK' /\ IssueInHand'
      BY <1>0, <1>1, NewOK DEF TypeOK, IssueInHand, PruneEvent
    <2>2. QED
      BY <1>1, <2>1, IssuesKept DEF PruneEvent
  <1>2. ASSUME NEW i \in DOMAIN issues, PruneIssue(i) PROVE IssuesInv'
    <2>1. PICK row : row = [issues[i] EXCEPT !.live = FALSE]
      OBVIOUS
    <2>2. row \in Issue /\ row.fp = issues[i].fp /\ ~row.live /\ Consistent(row)
      BY <1>0, <2>1, IssueFields DEF Issue, Consistent, TriageConsistent
    <2>3. issues' = [issues EXCEPT ![i] = row]
      BY <1>2, <2>1 DEF PruneIssue
    <2>4. /\ issues' \in Seq(Issue) /\ Len(issues') <= MaxIssues
          /\ OneIssuePerFingerprint' /\ TriageConsistent'
      BY <1>0, <2>2, <2>3, IssueChanged
    <2>5. TypeOK' /\ IssueInHand' /\ CopyConsistent'
      BY <1>0, <1>2, <2>4 DEF TypeOK, IssueInHand, CopyConsistent, Consistent, PruneIssue
    <2>6. QED
      BY <2>4, <2>5 DEF IssuesInv
  <1>3. ASSUME NEW r \in Releases, PruneArtifact(r) PROVE IssuesInv'
    <2>1. TypeOK' /\ IssueInHand'
      BY <1>0, <1>3 DEF TypeOK, IssueInHand, PruneArtifact
    <2>2. QED
      BY <1>3, <2>1, IssuesKept DEF PruneArtifact
  <1>4. QED
    BY <1>1, <1>2, <1>3 DEF RetentionJob

LEMMA IssuesNextOK == IssuesInv /\ [Next]_vars => IssuesInv'
  <1> SUFFICES ASSUME IssuesInv, [Next]_vars PROVE IssuesInv'
    OBVIOUS
  <1>1. CASE UNCHANGED vars
    <2>1. TypeOK' /\ IssueInHand'
      BY <1>1 DEF IssuesInv, TypeOK, IssueInHand, vars
    <2>2. QED
      BY <1>1, <2>1, IssuesKept DEF vars
  <1>2. ASSUME NEW w \in Workers, WorkerStep(w) PROVE IssuesInv'
    BY <1>2, ClaimOK, ResolveStackOK, RememberOK, QueryIssueOK, UpsertIssueOK, TouchIssueOK,
       RecordFacetsOK, AttachOK, DetachOK, NotifyOK, StepFailsOK DEF WorkerStep
  <1>3. QED
    BY <1>1, <1>2, IngestOK, AbandonOK, UploaderOK, OperatorOK, RetentionOK DEF Next

\* Every variable keeps its type.
THEOREM IssuesTyped == Spec => []TypeOK
  <1>1. IssuesInv => TypeOK
    BY DEF IssuesInv
  <1>2. QED
    BY <1>1, IssuesInitOK, IssuesNextOK, PTL DEF Spec

\* Two workers that both find no issue and both insert one, a re-group and a deletion in
\* between still leave one issue per fingerprint (UpsertIssue and the partial unique index).
THEOREM FingerprintsHaveOneIssue == Spec => []OneIssuePerFingerprint
  <1>1. IssuesInv => OneIssuePerFingerprint
    BY DEF IssuesInv
  <1>2. QED
    BY <1>1, IssuesInitOK, IssuesNextOK, PTL DEF Spec

\* The status, the regressed flag and the resolution time of an issue agree, although
\* UpdateIssue writes all three from a copy that TouchIssue may have made stale.
THEOREM TriageStaysConsistent == Spec => []TriageConsistent
  <1>1. IssuesInv => TriageConsistent
    BY DEF IssuesInv
  <1>2. QED
    BY <1>1, IssuesInitOK, IssuesNextOK, PTL DEF Spec

-----------------------------------------------------------------------------
(* An issue's count covers its events. *)

\* Between reading that the event was on issue i, or counting it there, and attaching
\* or detaching it.
Awaits(w, e, i) ==
    \/ InHand(w, e) /\ job[w].held[e] = i
    \/ pc[w] \in {"facets", "attach"} /\ job[w].event = e /\ job[w].issue = i

\* The events an issue's count has to cover: those on it and those on their way to it or from it.
Owing(i) == {e \in Events : \/ rows[e].stored /\ rows[e].issue = i
                            \/ \E w \in Workers : Awaits(w, e, i)}

Covered == \A i \in DOMAIN issues : Live(i) => issues[i].count >= Cardinality(Owing(i))

\* Rows and workers name issues of the table.
Shelf == DOMAIN issues \cup {NoIssue}
RowsOnShelf == \A e \in Events : rows[e].issue \in Shelf

\* The worker has the event only once, and when it comes to detach it the row has moved.
HandOK(w) ==
    /\ job[w].issue \in Shelf /\ \A e \in Events : job[w].held[e] \in Shelf
    /\ pc[w] \notin {"idle", "next"} => job[w].event \notin job[w].todo
    /\ pc[w] = "detach" =>
         /\ job[w].held[job[w].event] # job[w].issue
         /\ rows[job[w].event].stored => rows[job[w].event].issue = job[w].issue

CoverInv == IssuesInv /\ RowsOnShelf /\ (\A w \in Workers : HandOK(w)) /\ Covered

\* What the invariant says of sizes: the sets are finite.
LEMMA OwingSize ==
  ASSUME NEW i
  PROVE  /\ IsFiniteSet(Owing(i)) /\ Cardinality(Owing(i)) \in Nat
         /\ \A T \in SUBSET Owing(i) : IsFiniteSet(T) /\ Cardinality(T) <= Cardinality(Owing(i))
                                       /\ Cardinality(T) \in Nat
  <1>1. Owing(i) \in SUBSET Events
    BY DEF Owing
  <1>2. IsFiniteSet(Owing(i))
    BY <1>1, FS_Subset, ConstantsAssumption
  <1>3. ASSUME NEW T \in SUBSET Owing(i)
        PROVE  IsFiniteSet(T) /\ Cardinality(T) <= Cardinality(Owing(i)) /\ Cardinality(T) \in Nat
    <2>1. IsFiniteSet(T) /\ Cardinality(T) <= Cardinality(Owing(i))
      BY <1>2, FS_Subset
    <2>2. QED
      BY <2>1, FS_CardinalityType
  <1>4. QED
    BY <1>2, <1>3, FS_CardinalityType

\* One event more.
LEMMA OneMoreSize ==
  ASSUME NEW i, NEW e, NEW T, T \subseteq Owing(i) \cup {e}
  PROVE  Cardinality(T) \in Nat /\ Cardinality(T) <= Cardinality(Owing(i)) + 1
  <1>1. PICK S : S = Owing(i) \cup {e}
    OBVIOUS
  <1>2. IsFiniteSet(S) /\ Cardinality(S) \in Nat /\ Cardinality(S) <= Cardinality(Owing(i)) + 1
    <2>1. IsFiniteSet(Owing(i)) /\ Cardinality(Owing(i)) \in Nat
      BY OwingSize
    <2>2. IsFiniteSet(S) /\ Cardinality(S) = IF e \in Owing(i) THEN Cardinality(Owing(i)) ELSE Cardinality(Owing(i)) + 1
      BY <1>1, <2>1, FS_AddElement
    <2>3. QED
      BY <2>1, <2>2
  <1>3. T \in SUBSET S
    BY <1>1
  <1>4. IsFiniteSet(T) /\ Cardinality(T) <= Cardinality(S)
    BY <1>2, <1>3, FS_Subset
  <1>5. Cardinality(T) \in Nat
    BY <1>4, FS_CardinalityType
  <1>6. QED
    BY <1>2, <1>4, <1>5, OwingSize

\* One event less.
LEMMA OneLessSize ==
  ASSUME NEW i, NEW e \in Owing(i), NEW T, T \subseteq Owing(i) \ {e}
  PROVE  Cardinality(T) \in Nat /\ Cardinality(T) <= Cardinality(Owing(i)) - 1
  <1>1. PICK S : S = Owing(i) \ {e}
    OBVIOUS
  <1>2. IsFiniteSet(S) /\ Cardinality(S) = Cardinality(Owing(i)) - 1
    <2>1. IsFiniteSet(Owing(i))
      BY OwingSize
    <2>2. QED
      BY <1>1, <2>1, FS_RemoveElement
  <1>3. T \in SUBSET S
    BY <1>1
  <1>4. IsFiniteSet(T) /\ Cardinality(T) <= Cardinality(S)
    BY <1>2, <1>3, FS_Subset
  <1>5. Cardinality(T) \in Nat
    BY <1>4, FS_CardinalityType
  <1>6. QED
    BY <1>2, <1>4, <1>5

\* An issue whose count did not fall and that owes no more than before stays covered.
LEMMA StaysCovered ==
  ASSUME TypeOK, TypeOK', Covered, NEW i \in DOMAIN issues, i \in DOMAIN issues',
         issues'[i].live => issues[i].live, issues'[i].count >= issues[i].count,
         Owing(i)' \subseteq Owing(i), issues'[i].live
  PROVE  issues'[i].count >= Cardinality(Owing(i)')
  <1>1. issues[i].count \in Nat /\ issues'[i].count \in Nat
    <2>1. issues[i] \in Issue /\ issues'[i] \in Issue
      BY DEF TypeOK
    <2>2. QED
      BY <2>1 DEF Issue
  <1>2. issues[i].count >= Cardinality(Owing(i))
    BY DEF Covered, Live
  <1>3. PICK T : T = Owing(i)'
    OBVIOUS
  <1>4. Cardinality(T) <= Cardinality(Owing(i)) /\ Cardinality(T) \in Nat /\ Cardinality(Owing(i)) \in Nat
    BY <1>3, OwingSize
  <1>5. QED
    BY <1>1, <1>2, <1>3, <1>4

\* A step that leaves the issues alone and takes on no debt.
LEMMA NoDebtTaken ==
  ASSUME TypeOK, TypeOK', Covered, UNCHANGED issues, \A i \in DOMAIN issues : Owing(i)' \subseteq Owing(i)
  PROVE  Covered'
  <1> SUFFICES ASSUME NEW i \in DOMAIN issues, issues[i].live
               PROVE  issues[i].count >= Cardinality(Owing(i)')
    BY DEF Covered, Live
  <1>1. issues[i].count \in Nat
    BY IssueFields
  <1>2. issues'[i].count >= Cardinality(Owing(i)')
    BY <1>1, StaysCovered
  <1>3. QED
    BY <1>2

\* A worker's event is one it awaits.
LEMMA WorkerRows ==
  ASSUME CoverInv, NEW w \in Workers
  PROVE  /\ TypeOK /\ HandOK(w) /\ job[w] \in Job /\ job[w].event \in Events /\ job[w].todo \subseteq Events
         /\ NoIssue \notin DOMAIN issues
  <1>1. TypeOK /\ HandOK(w)
    BY DEF CoverInv, IssuesInv
  <1>2. NoIssue \notin DOMAIN issues
    BY <1>1 DEF TypeOK, NoIssue
  <1>3. QED
    BY <1>1, <1>2, JobFields

\* The next event, or the end of the batch: what remains in hand was there before.
LEMMA AdvanceHand ==
  ASSUME TypeOK, NEW w \in Workers, Advance(w)
  PROVE  /\ pc'[w] \in {"idle", "next"} /\ job'[w].todo = job[w].todo /\ job'[w].issue = NoIssue
         /\ \A e \in Events : job'[w].held[e] = IF e \in job[w].todo THEN job[w].held[e] ELSE NoIssue
         /\ \A v \in Workers : v # w => pc'[v] = pc[v] /\ job'[v] = job[v]
  BY DEF TypeOK, Advance, NoJob

LEMMA AdvanceKeepsHands ==
  ASSUME CoverInv, NEW w \in Workers, Workers = {w}, Advance(w),
         \A k \in DOMAIN issues : k \in DOMAIN issues'
  PROVE  /\ \A v \in Workers : HandOK(v)'
         /\ \A i, e : Awaits(w, e, i)' => (i \in DOMAIN issues => e \in job[w].todo /\ Awaits(w, e, i))
  <1>1. TypeOK /\ HandOK(w)
    BY WorkerRows
  <1>2. /\ pc'[w] \in {"idle", "next"} /\ job'[w].todo = job[w].todo /\ job'[w].issue = NoIssue
        /\ \A e \in Events : job'[w].held[e] = IF e \in job[w].todo THEN job[w].held[e] ELSE NoIssue
    BY <1>1, AdvanceHand
  <1>3. HandOK(w)'
    BY <1>1, <1>2 DEF HandOK, Shelf
  <1>4. job[w].todo \subseteq Events
    BY <1>1, JobFields
  <1>5. \A i, e : Awaits(w, e, i)' => (i \in DOMAIN issues => e \in job[w].todo /\ Awaits(w, e, i))
    BY <1>2, <1>4 DEF Awaits, InHand
  <1>6. QED
    BY <1>3, <1>5

\* A worker's step that leaves the issues, the rows and who is on them alone.
LEMMA PlainStepCovers ==
  ASSUME CoverInv, TypeOK', NEW w \in Workers, Workers = {w}, HandOK(w)', UNCHANGED <<issues, rows>>,
         \A i \in DOMAIN issues, e \in Events : Awaits(w, e, i)' => e \in Owing(i)
  PROVE  RowsOnShelf' /\ (\A v \in Workers : HandOK(v)') /\ Covered'
  <1>1. RowsOnShelf'
    BY DEF CoverInv, RowsOnShelf, Shelf
  <1>2. \A i \in DOMAIN issues : Owing(i)' \subseteq Owing(i)
    BY DEF Owing
  <1>3. Covered'
    BY <1>2, NoDebtTaken DEF CoverInv, IssuesInv
  <1>4. QED
    BY <1>1, <1>3

\* The claim reads where each event is.
LEMMA ClaimCovers ==
  ASSUME CoverInv, TypeOK', NEW w \in Workers, Workers = {w}, ClaimUnprocessed(w)
  PROVE  RowsOnShelf' /\ (\A v \in Workers : HandOK(v)') /\ Covered'
  <1>0. TypeOK /\ NoIssue \notin DOMAIN issues /\ RowsOnShelf
    BY WorkerRows DEF CoverInv
  <1>1. PICK S \in SUBSET Claimable :
          /\ rows' = [e \in Events |-> IF e \in S THEN [rows[e] EXCEPT !.attempts = @ + 1] ELSE rows[e]]
          /\ job' = [job EXCEPT ![w] = [NoJob EXCEPT !.todo = S,
                       !.held = [e \in Events |-> IF e \in S THEN rows[e].issue ELSE NoIssue]]]
    BY DEF ClaimUnprocessed
  <1>2. S \subseteq Events /\ \A e \in S : rows[e].stored
    BY <1>1 DEF Claimable
  <1>3. \A e \in Events : rows'[e].stored = rows[e].stored /\ rows'[e].issue = rows[e].issue
    BY <1>0, <1>1, RowFields DEF Row
  <1>4. /\ pc'[w] = "next" /\ job'[w].todo = S /\ job'[w].issue = NoIssue
        /\ \A e \in Events : job'[w].held[e] = IF e \in S THEN rows[e].issue ELSE NoIssue
        /\ issues' = issues
    BY <1>0, <1>1 DEF ClaimUnprocessed, Goto, TypeOK, NoJob
  <1>5. RowsOnShelf'
    BY <1>0, <1>3, <1>4 DEF RowsOnShelf, Shelf
  <1>6. HandOK(w)'
    BY <1>0, <1>4 DEF HandOK, RowsOnShelf, Shelf
  <1>7. ASSUME NEW i \in DOMAIN issues PROVE Owing(i)' \subseteq Owing(i)
    <2> SUFFICES ASSUME NEW e \in Events, e \in Owing(i)' PROVE e \in Owing(i)
      BY DEF Owing
    <2>1. CASE rows'[e].stored /\ rows'[e].issue = i
      BY <2>1, <1>3 DEF Owing
    <2>2. CASE Awaits(w, e, i)'
      <3>1. e \in S /\ rows[e].issue = i
        BY <2>2, <1>0, <1>4 DEF Awaits, InHand
      <3>2. QED
        BY <3>1, <1>2 DEF Owing
    <2>3. QED
      BY <2>1, <2>2 DEF Owing
  <1>8. Covered'
    BY <1>0, <1>4, <1>7, NoDebtTaken DEF CoverInv
  <1>9. QED
    BY <1>5, <1>6, <1>8

\* Up to the lookup an event is only fetched from the batch.
LEMMA FetchCovers ==
  ASSUME CoverInv, TypeOK', NEW w \in Workers, Workers = {w},
         \/ \E e \in Events : ResolveStack(w, e)
         \/ Remember(w) \/ QueryIssueByFingerprint(w) \/ RecordFacets(w)
  PROVE  RowsOnShelf' /\ (\A v \in Workers : HandOK(v)') /\ Covered'
  <1>0. TypeOK /\ HandOK(w) /\ NoIssue \notin DOMAIN issues /\ UNCHANGED <<issues, rows>> /\ job[w] \in Job
    BY WorkerRows DEF ResolveStack, Remember, QueryIssueByFingerprint, RecordFacets
  <1>1. HandOK(w)' /\ \A i \in DOMAIN issues, e \in Events : Awaits(w, e, i)' => Awaits(w, e, i)
    <2>1. ASSUME NEW e \in Events, ResolveStack(w, e)
          PROVE  HandOK(w)' /\ \A i \in DOMAIN issues, f \in Events : Awaits(w, f, i)' => Awaits(w, f, i)
      <3>1. PICK mapped \in BOOLEAN, label \in {"lookup", "remember"} :
               job' = [job EXCEPT ![w] = Fingerprinted(job[w], e, mapped)] /\ pc' = [pc EXCEPT ![w] = label]
        BY <2>1, ResolveStackMoves
      <3>2. /\ pc'[w] = label /\ job'[w].todo = job[w].todo \ {e} /\ job'[w].event = e
            /\ job'[w].held = job[w].held /\ job'[w].issue = job[w].issue /\ e \in job[w].todo
        BY <3>1, <2>1, <1>0 DEF TypeOK, Fingerprinted, Job, ResolveStack
      <3>3. QED
        BY <3>2, <1>0 DEF HandOK, Shelf, Awaits, InHand
    <2>2. CASE Remember(w)
      <3>1. pc[w] = "remember" /\ pc'[w] = "lookup" /\ job' = job
        BY <2>2, <1>0 DEF Remember, Goto, TypeOK
      <3>2. QED
        BY <3>1, <1>0 DEF HandOK, Shelf, Awaits, InHand
    <2>3. CASE QueryIssueByFingerprint(w)
      <3>1. PICK i \in DOMAIN issues \cup {job[w].issue}, label \in {"insert", "touch"} :
               job'[w] = [job[w] EXCEPT !.issue = i] /\ pc'[w] = label /\ pc[w] = "lookup"
        <4>1. CASE job' = job /\ pc' = [pc EXCEPT ![w] = "insert"]
          BY <4>1, <2>3, <1>0 DEF QueryIssueByFingerprint, TypeOK, Job
        <4>2. ASSUME NEW i \in IssuesOf(job[w].fp), job' = [job EXCEPT ![w] = Found(job[w], i)],
                     pc' = [pc EXCEPT ![w] = "touch"]
              PROVE  \E k \in DOMAIN issues \cup {job[w].issue}, label \in {"insert", "touch"} :
                       job'[w] = [job[w] EXCEPT !.issue = k] /\ pc'[w] = label /\ pc[w] = "lookup"
          BY <4>2, <2>3, <1>0 DEF QueryIssueByFingerprint, TypeOK, Found, IssuesOf
        <4>3. QED
          BY <4>1, <4>2, <2>3 DEF QueryIssueByFingerprint, Goto
      <3>2. /\ job'[w].todo = job[w].todo /\ job'[w].event = job[w].event
            /\ job'[w].held = job[w].held /\ job'[w].issue = i
        BY <3>1, <1>0 DEF Job
      <3>3. QED
        BY <3>1, <3>2, <1>0 DEF HandOK, Shelf, Awaits, InHand
    <2>4. CASE RecordFacets(w)
      <3>1. pc[w] = "facets" /\ pc'[w] = "attach" /\ job' = job
        BY <2>4, <1>0 DEF RecordFacets, Goto, TypeOK
      <3>2. QED
        BY <3>1, <1>0 DEF HandOK, Shelf, Awaits, InHand
    <2>5. QED
      BY <2>1, <2>2, <2>3, <2>4
  <1>2. \A i \in DOMAIN issues, e \in Events : Awaits(w, e, i)' => e \in Owing(i)
    BY <1>1 DEF Owing
  <1>3. QED
    BY <1>0, <1>1, <1>2, PlainStepCovers

\* The worker is done with the event, one way or another.
LEMMA DoneCovers ==
  ASSUME CoverInv, TypeOK', NEW w \in Workers, Workers = {w}, Notify(w) \/ StepFails(w) \/ Abandon(w)
  PROVE  RowsOnShelf' /\ (\A v \in Workers : HandOK(v)') /\ Covered'
  <1>0. TypeOK /\ HandOK(w) /\ NoIssue \notin DOMAIN issues /\ issues' = issues /\ RowsOnShelf
    BY WorkerRows DEF CoverInv, Notify, StepFails, Abandon
  <1>1. (\A v \in Workers : HandOK(v)') /\ \A i \in DOMAIN issues, e \in Events : Awaits(w, e, i)' => Awaits(w, e, i)
    <2>1. CASE Notify(w) \/ StepFails(w)
      BY <2>1, <1>0, AdvanceKeepsHands DEF Notify, StepFails
    <2>2. CASE Abandon(w)
      <3>1. /\ pc'[w] = "idle" /\ job'[w].todo = {} /\ job'[w].issue = NoIssue
            /\ \A e \in Events : job'[w].held[e] = NoIssue
        BY <2>2, <1>0 DEF Abandon, TypeOK, NoJob
      <3>2. QED
        BY <3>1, <1>0 DEF HandOK, Shelf, Awaits, InHand
    <2>3. QED
      BY <2>1, <2>2
  <1>2. \A e \in Events : rows'[e].stored = rows[e].stored /\ rows'[e].issue = rows[e].issue
    <2>1. CASE rows' = rows
      BY <2>1
    <2>2. CASE StepFails(w)
      BY <2>2, <1>0, RowFields DEF StepFails, TypeOK, Row
    <2>3. QED
      BY <2>1, <2>2 DEF Notify, Abandon
  <1>3. RowsOnShelf'
    BY <1>0, <1>2 DEF RowsOnShelf, Shelf
  <1>4. \A i \in DOMAIN issues : Owing(i)' \subseteq Owing(i)
    BY <1>1, <1>2 DEF Owing
  <1>5. Covered'
    BY <1>0, <1>4, NoDebtTaken DEF CoverInv
  <1>6. QED
    BY <1>1, <1>3, <1>5

\* A new issue counts the event that opened it, which weighs one.
LEMMA UpsertCovers ==
  ASSUME CoverInv, TypeOK', NEW w \in Workers, Workers = {w}, UpsertIssue(w)
  PROVE  RowsOnShelf' /\ (\A v \in Workers : HandOK(v)') /\ Covered'
  <1>0. /\ TypeOK /\ HandOK(w) /\ NoIssue \notin DOMAIN issues /\ RowsOnShelf /\ Covered /\ job[w] \in Job
        /\ issues \in Seq(Issue) /\ Len(issues) \in Nat /\ job[w].event \in Events
    BY WorkerRows DEF CoverInv, TypeOK
  <1>n. PICK new : new = Len(issues) + 1
    OBVIOUS
  <1>1. /\ new \notin DOMAIN issues /\ DOMAIN issues' = DOMAIN issues \cup {new} /\ new \in Nat /\ new # NoIssue
        /\ issues'[new].count = 1
        /\ \A i \in DOMAIN issues : issues'[i] = issues[i]
    <2>1. PICK fp \in Fingerprints : fp = job[w].fp
      BY <1>0 DEF Job
    <2>2. issues' = Append(issues, NewIssue(fp)) /\ NewIssue(fp) \in Issue /\ NewIssue(fp).count = 1
      BY <2>1 DEF UpsertIssue, NewIssue, Issue, Statuses
    <2>3. /\ Len(issues') = new /\ issues'[new] = NewIssue(fp) /\ issues' \in Seq(Issue)
          /\ \A i \in DOMAIN issues : issues'[i] = issues[i]
      BY <1>0, <1>n, <2>2
    <2>4. DOMAIN issues = 1 .. Len(issues) /\ DOMAIN issues' = 1 .. new
      BY <1>0, <2>3
    <2>5. QED
      BY <1>0, <1>n, <2>2, <2>3, <2>4 DEF NoIssue
  <1>2. /\ pc[w] = "insert" /\ pc'[w] = "facets" /\ rows' = rows
        /\ job'[w].todo = job[w].todo /\ job'[w].event = job[w].event
        /\ job'[w].held = job[w].held /\ job'[w].issue = new
    BY <1>0, <1>n DEF UpsertIssue, Goto, TypeOK, Job
  <1>3. RowsOnShelf'
    BY <1>0, <1>1, <1>2 DEF RowsOnShelf, Shelf
  <1>4. HandOK(w)'
    BY <1>0, <1>1, <1>2 DEF HandOK, Shelf
  <1>5. \A i \in DOMAIN issues : Owing(i)' \subseteq Owing(i)
    BY <1>1, <1>2 DEF Owing, Awaits, InHand
  <1>6. Owing(new)' \subseteq {job[w].event}
    BY <1>0, <1>1, <1>2 DEF Owing, Awaits, InHand, RowsOnShelf, HandOK, Shelf
  <1>7. Cardinality(Owing(new)') <= 1
    <2>1. PICK T, e : T = Owing(new)' /\ e = job[w].event
      OBVIOUS
    <2>2. T = {} \/ T = {e}
      BY <2>1, <1>6
    <2>3. Cardinality({e}) = 1 /\ Cardinality({}) = 0
      BY FS_Singleton, FS_EmptySet
    <2>4. QED
      BY <2>1, <2>2, <2>3
  <1>8. Covered'
    <2> SUFFICES ASSUME NEW i \in DOMAIN issues', issues'[i].live
                 PROVE  issues'[i].count >= Cardinality(Owing(i)')
      BY DEF Covered, Live
    <2>1. CASE i = new
      <3>1. Cardinality(Owing(new)') \in Nat
        <4>1. PICK T : T = Owing(new)'
          OBVIOUS
        <4>2. T \in SUBSET Events
          BY <4>1 DEF Owing
        <4>3. IsFiniteSet(T)
          BY <4>2, FS_Subset, ConstantsAssumption
        <4>4. QED
          BY <4>1, <4>3, FS_CardinalityType
      <3>2. QED
        BY <2>1, <3>1, <1>1, <1>7
    <2>2. CASE i \in DOMAIN issues
      <3>1. issues[i].count \in Nat
        BY <2>2, <1>0, IssueFields
      <3>2. QED
        BY <2>2, <3>1, <1>0, <1>1, <1>5, StaysCovered
    <2>3. QED
      BY <2>1, <2>2, <1>1
  <1>9. QED
    BY <1>3, <1>4, <1>8

\* A repeat adds the event's weight, which is at least one, before the event is attached.
LEMMA TouchCovers ==
  ASSUME CoverInv, TypeOK', NEW w \in Workers, Workers = {w}, TouchIssue(w)
  PROVE  RowsOnShelf' /\ (\A v \in Workers : HandOK(v)') /\ Covered'
  <1>0. /\ TypeOK /\ HandOK(w) /\ NoIssue \notin DOMAIN issues /\ RowsOnShelf /\ Covered /\ job[w] \in Job
        /\ issues \in Seq(Issue) /\ job[w].event \in Events
    BY WorkerRows DEF CoverInv, TypeOK
  <1>i. PICK i, n : i = job[w].issue /\ n = Weight[job[w].event]
    OBVIOUS
  <1>1. /\ i \in DOMAIN issues /\ issues[i].live /\ n \in Nat \ {0} /\ issues[i] \in Issue /\ issues[i].count \in Nat
    BY <1>0, <1>i, IssueFields, ConstantsAssumption DEF TouchIssue, Live
  <1>2. /\ DOMAIN issues' = DOMAIN issues
        /\ issues'[i].count = issues[i].count + n
        /\ \A k \in DOMAIN issues : k # i => issues'[k] = issues[k]
    <2>1. PICK row : row = Touched(issues[i], n)
      OBVIOUS
    <2>2. issues' = [issues EXCEPT ![i] = row]
      BY <1>i, <2>1 DEF TouchIssue
    <2>3. row.count = issues[i].count + n
      BY <1>1, <2>1 DEF Touched, Issue
    <2>4. QED
      BY <1>0, <1>1, <2>2, <2>3
  <1>3. /\ pc[w] = "touch" /\ pc'[w] = "facets" /\ rows' = rows
        /\ job'[w].todo = job[w].todo /\ job'[w].event = job[w].event
        /\ job'[w].held = job[w].held /\ job'[w].issue = i
    BY <1>0, <1>i DEF TouchIssue, Goto, TypeOK, Job
  <1>4. RowsOnShelf'
    BY <1>0, <1>2, <1>3 DEF RowsOnShelf, Shelf
  <1>5. HandOK(w)'
    BY <1>0, <1>1, <1>2, <1>3 DEF HandOK, Shelf
  <1>6. /\ Owing(i)' \subseteq Owing(i) \cup {job[w].event}
        /\ \A k \in DOMAIN issues : k # i => Owing(k)' \subseteq Owing(k)
    BY <1>3 DEF Owing, Awaits, InHand
  <1>7. Covered'
    <2> SUFFICES ASSUME NEW k \in DOMAIN issues, issues'[k].live
                 PROVE  issues'[k].count >= Cardinality(Owing(k)')
      BY <1>2 DEF Covered, Live
    <2>1. CASE k = i
      <3>1. PICK T, e : T = Owing(i)' /\ e = job[w].event
        OBVIOUS
      <3>2. Cardinality(T) \in Nat /\ Cardinality(T) <= Cardinality(Owing(i)) + 1
        BY <3>1, <1>6, OneMoreSize
      <3>3. issues[i].count >= Cardinality(Owing(i)) /\ Cardinality(Owing(i)) \in Nat
        BY <1>0, <1>1, OwingSize DEF Covered, Live
      <3>4. QED
        BY <2>1, <3>1, <3>2, <3>3, <1>1, <1>2
    <2>2. CASE k # i
      <3>1. issues[k].count \in Nat
        BY <1>0, IssueFields
      <3>2. QED
        BY <2>2, <3>1, <1>0, <1>2, <1>6, StaysCovered
    <2>3. QED
      BY <2>1, <2>2
  <1>8. QED
    BY <1>4, <1>5, <1>7

\* Attaching moves the event; the issue it was on is owed until it is detached.
LEMMA AttachCovers ==
  ASSUME CoverInv, TypeOK', NEW w \in Workers, Workers = {w}, AttachToIssue(w)
  PROVE  RowsOnShelf' /\ (\A v \in Workers : HandOK(v)') /\ Covered'
  <1>0. /\ TypeOK /\ HandOK(w) /\ NoIssue \notin DOMAIN issues /\ RowsOnShelf /\ Covered /\ job[w] \in Job
        /\ job[w].event \in Events /\ issues' = issues
    BY WorkerRows DEF CoverInv, TypeOK, AttachToIssue
  <1>j. PICK e, i : e \in Events /\ e = job[w].event /\ i = job[w].issue
    BY <1>0
  <1>1. /\ pc[w] = "attach" /\ i \in Shelf
        /\ rows'[e].stored = rows[e].stored
        /\ rows[e].stored => rows'[e].issue = i
        /\ ~rows[e].stored => rows'[e].issue = rows[e].issue
        /\ \A f \in Events : f # e => rows'[f] = rows[f]
    BY <1>0, <1>j, RowFields DEF AttachToIssue, TypeOK, Row, HandOK
  <1>2. RowsOnShelf'
    BY <1>0, <1>1 DEF RowsOnShelf, Shelf
  <1>3. (\A v \in Workers : HandOK(v)') /\ \A k \in DOMAIN issues, f \in Events : Awaits(w, f, k)' => Awaits(w, f, k)
    <2>1. CASE Advance(w)
      BY <2>1, <1>0, AdvanceKeepsHands
    <2>2. CASE job' = job /\ \E label \in {"notify", "detach"} :
                 pc' = [pc EXCEPT ![w] = label] /\ (label = "detach" => job[w].held[e] # i)
      <3>1. PICK label \in {"notify", "detach"} : pc'[w] = label /\ (label = "detach" => job[w].held[e] # i)
        BY <2>2, <1>0 DEF TypeOK
      <3>2. QED
        BY <2>2, <3>1, <1>0, <1>1, <1>j DEF HandOK, Shelf, Awaits, InHand
    <2>3. QED
      BY <2>1, <2>2, <1>j DEF AttachToIssue, Goto
  <1>4. ASSUME NEW k \in DOMAIN issues PROVE Owing(k)' \subseteq Owing(k)
    <2> SUFFICES ASSUME NEW f \in Events, f \in Owing(k)' PROVE f \in Owing(k)
      BY DEF Owing
    <2>1. CASE rows'[f].stored /\ rows'[f].issue = k
      <3>1. CASE f = e
        BY <2>1, <3>1, <1>1, <1>j DEF Owing, Awaits
      <3>2. CASE f # e
        BY <2>1, <3>2, <1>1 DEF Owing
      <3>3. QED
        BY <3>1, <3>2
    <2>2. CASE Awaits(w, f, k)'
      BY <2>2, <1>3 DEF Owing
    <2>3. QED
      BY <2>1, <2>2 DEF Owing
  <1>5. Covered'
    BY <1>0, <1>4, NoDebtTaken
  <1>6. QED
    BY <1>2, <1>3, <1>5

\* Detaching takes off the one event that the issue was still owed.
LEMMA DetachCovers ==
  ASSUME CoverInv, TypeOK', NEW w \in Workers, Workers = {w}, \A e \in Events : Weight[e] = 1,
         DetachFromIssue(w)
  PROVE  RowsOnShelf' /\ (\A v \in Workers : HandOK(v)') /\ Covered'
  <1>0. /\ TypeOK /\ HandOK(w) /\ NoIssue \notin DOMAIN issues /\ RowsOnShelf /\ Covered /\ job[w] \in Job
        /\ issues \in Seq(Issue) /\ job[w].event \in Events /\ rows' = rows /\ pc[w] = "detach"
    BY WorkerRows DEF CoverInv, TypeOK, DetachFromIssue
  <1>i. PICK e, i, left : e \in Events /\ e = job[w].event /\ i = job[w].held[e] /\ left = LeftWithoutEvents(i)
    BY <1>0
  <1>1. /\ DOMAIN issues' = DOMAIN issues
        /\ \A k \in DOMAIN issues : k # i => issues'[k] = issues[k]
        /\ i \in DOMAIN issues /\ issues[i].live =>
             issues[i].count \in Nat /\ issues'[i].count = Less(issues[i].count, 1)
        /\ i \in DOMAIN issues /\ ~issues[i].live => ~issues'[i].live
    <2>1. CASE Live(i)
      <3>1. i \in DOMAIN issues /\ issues[i] \in Issue /\ issues[i].count \in Nat
        BY <2>1, <1>0, IssueFields DEF Live
      <3>2. PICK row : row = [issues[i] EXCEPT !.count = Less(issues[i].count, 1), !.live = ~left]
        OBVIOUS
      <3>3. issues' = [issues EXCEPT ![i] = row]
        BY <2>1, <3>2, <1>0, <1>i DEF DetachFromIssue
      <3>4. row.count = Less(issues[i].count, 1)
        BY <3>1, <3>2 DEF Issue
      <3>5. QED
        BY <2>1, <3>1, <3>3, <3>4, <1>0 DEF Live
    <2>2. CASE ~Live(i)
      <3>1. issues' = issues
        BY <2>2, <1>i DEF DetachFromIssue
      <3>2. QED
        BY <2>2, <3>1 DEF Live
    <2>3. QED
      BY <2>1, <2>2
  <1>2. RowsOnShelf'
    BY <1>0, <1>1 DEF RowsOnShelf, Shelf
  <1>3. (\A v \in Workers : HandOK(v)')
        /\ \A k \in DOMAIN issues, f \in Events : Awaits(w, f, k)' => f \in job[w].todo /\ Awaits(w, f, k)
    BY <1>0, <1>1, AdvanceKeepsHands DEF DetachFromIssue
  <1>4. \A k \in DOMAIN issues : Owing(k)' \subseteq Owing(k)
    BY <1>0, <1>3 DEF Owing
  <1>5. i \in DOMAIN issues => e \in Owing(i) /\ Owing(i)' \subseteq Owing(i) \ {e}
    <2> SUFFICES ASSUME i \in DOMAIN issues PROVE e \in Owing(i) /\ Owing(i)' \subseteq Owing(i) \ {e}
      OBVIOUS
    <2>1. e \in Owing(i)
      BY <1>0, <1>i DEF Owing, Awaits, InHand
    <2>2. e \notin Owing(i)'
      BY <1>0, <1>3, <1>i DEF Owing, HandOK
    <2>3. QED
      BY <2>1, <2>2, <1>4
  <1>6. Covered'
    <2> SUFFICES ASSUME NEW k \in DOMAIN issues, issues'[k].live
                 PROVE  issues'[k].count >= Cardinality(Owing(k)')
      BY <1>1 DEF Covered, Live
    <2>1. CASE k = i
      <3>1. PICK T : T = Owing(i)'
        OBVIOUS
      <3>2. Cardinality(T) \in Nat /\ Cardinality(T) <= Cardinality(Owing(i)) - 1
        BY <2>1, <3>1, <1>5, OneLessSize
      <3>3. issues[i].live /\ issues[i].count >= Cardinality(Owing(i)) /\ Cardinality(Owing(i)) \in Nat
        BY <2>1, <1>0, <1>1, OwingSize DEF Covered, Live
      <3>4. QED
        BY <2>1, <3>1, <3>2, <3>3, <1>1 DEF Less
    <2>2. CASE k # i
      <3>1. issues[k].count \in Nat
        BY <1>0, IssueFields
      <3>2. QED
        BY <2>2, <3>1, <1>0, <1>1, <1>4, StaysCovered
    <2>3. QED
      BY <2>1, <2>2
  <1>7. QED
    BY <1>2, <1>3, <1>6

\* A report that arrives is on no issue, and no worker awaits it.
LEMMA IngestCovers ==
  ASSUME CoverInv, TypeOK', NEW e \in Events, Ingest(e)
  PROVE  RowsOnShelf' /\ (\A v \in Workers : HandOK(v)') /\ Covered'
  <1>0. TypeOK /\ RowsOnShelf /\ NoIssue \notin DOMAIN issues /\ UNCHANGED <<issues, pc, job>> /\ Covered
        /\ \A v \in Workers : HandOK(v)
    BY DEF CoverInv, IssuesInv, Ingest, TypeOK, NoIssue
  <1>1. \/ rows' = rows
        \/ /\ \A v \in Workers : ~InHand(v, e)
           /\ rows'[e].issue = NoIssue /\ \A f \in Events : f # e => rows'[f] = rows[f]
    BY <1>0 DEF Ingest, TypeOK, NewRow
  <1>2. RowsOnShelf'
    BY <1>0, <1>1 DEF RowsOnShelf, Shelf
  <1>3. \A v \in Workers : HandOK(v)'
    <2> TAKE v \in Workers
    <2>1. HandOK(v)
      BY <1>0
    <2>2. pc[v] = "detach" => \/ rows' = rows
                              \/ job[v].event # e /\ job[v].event \in Events
      BY <1>0, <1>1, JobFields DEF InHand
    <2>3. QED
      BY <2>1, <2>2, <1>0, <1>1 DEF HandOK, Shelf
  <1>4. \A i \in DOMAIN issues : Owing(i)' \subseteq Owing(i)
    BY <1>0, <1>1 DEF Owing, Awaits, InHand
  <1>5. Covered'
    BY <1>0, <1>4, NoDebtTaken
  <1>6. QED
    BY <1>2, <1>3, <1>5

\* Reports may be deleted, and issues may be deleted: nobody is owed more.
LEMMA ForgettingCovers ==
  ASSUME CoverInv, TypeOK', UNCHANGED <<pc, job>>, DOMAIN issues' = DOMAIN issues,
         \A i \in DOMAIN issues : (issues'[i].live => issues[i].live) /\ issues'[i].count = issues[i].count,
         \A e \in Events : \/ rows'[e].stored = rows[e].stored /\ rows'[e].issue = rows[e].issue
                           \/ ~rows'[e].stored /\ rows'[e].issue = NoIssue
  PROVE  RowsOnShelf' /\ (\A v \in Workers : HandOK(v)') /\ Covered'
  <1>0. TypeOK /\ RowsOnShelf /\ Covered /\ \A v \in Workers : HandOK(v) /\ job[v].event \in Events
    BY JobFields DEF CoverInv, IssuesInv
  <1>1. RowsOnShelf'
    BY <1>0 DEF RowsOnShelf, Shelf
  <1>2. \A v \in Workers : HandOK(v)'
    BY <1>0 DEF HandOK, Shelf
  <1>3. \A i \in DOMAIN issues : Owing(i)' \subseteq Owing(i)
    BY DEF Owing, Awaits, InHand
  <1>4. ASSUME NEW i \in DOMAIN issues, issues'[i].live PROVE issues'[i].count >= Cardinality(Owing(i)')
    <2>1. issues[i].count \in Nat
      BY <1>0, IssueFields
    <2>2. QED
      BY <1>0, <1>3, <1>4, <2>1, StaysCovered
  <1>5. QED
    BY <1>1, <1>2, <1>4 DEF Covered, Live

LEMMA OthersCover ==
  ASSUME CoverInv, TypeOK',
         \/ \E w \in Workers : Uploader(w)
         \/ Operator \/ RetentionJob \/ UNCHANGED vars
  PROVE  RowsOnShelf' /\ (\A v \in Workers : HandOK(v)') /\ Covered'
  <1>0. TypeOK /\ issues \in Seq(Issue) /\ \A i \in DOMAIN issues : issues[i] \in Issue
    BY DEF CoverInv, IssuesInv, TypeOK
  <1> DEFINE IssuesForget == /\ DOMAIN issues' = DOMAIN issues
                             /\ \A i \in DOMAIN issues : /\ issues'[i].live => issues[i].live
                                                         /\ issues'[i].count = issues[i].count
             RowsForget == \A e \in Events : \/ rows'[e].stored = rows[e].stored /\ rows'[e].issue = rows[e].issue
                                             \/ ~rows'[e].stored /\ rows'[e].issue = NoIssue
  <1>1. UNCHANGED issues => IssuesForget
    OBVIOUS
  <1>2. UNCHANGED rows => RowsForget
    OBVIOUS
  <1>3. ASSUME NEW w \in Workers, Uploader(w) PROVE RowsForget /\ IssuesForget /\ UNCHANGED <<pc, job>>
    <2>1. CASE MarkReleaseForRegroup(w)
      <3>1. ASSUME NEW e \in Events PROVE rows'[e].stored = rows[e].stored /\ rows'[e].issue = rows[e].issue
        <4>1. rows[e] \in Row
          BY <1>0, RowFields
        <4>2. rows'[e] \in {rows[e], [rows[e] EXCEPT !.done = FALSE, !.attempts = 0]}
          BY <2>1 DEF MarkReleaseForRegroup
        <4>3. QED
          BY <4>1, <4>2 DEF Row
      <3>2. QED
        BY <2>1, <3>1, <1>1 DEF MarkReleaseForRegroup
    <2>2. CASE ~MarkReleaseForRegroup(w)
      BY <2>2, <1>1, <1>2, <1>3 DEF Uploader, UpsertArtifact, Forget
    <2>3. QED
      BY <2>1, <2>2
  <1>4. ASSUME Operator PROVE RowsForget /\ IssuesForget /\ UNCHANGED <<pc, job>>
    <2>1. CASE UpdateIssue
      <3>1. IssuesForget
        <4>1. CASE issues' = issues
          BY <4>1
        <4>2. CASE Live(triage.issue)
          <5>1. PICK i \in DOMAIN issues : i = triage.issue
            BY <4>2 DEF Live
          <5>2. PICK row : row = Decided(issues[i], triage)
            OBVIOUS
          <5>3. issues' = [issues EXCEPT ![i] = row]
            BY <2>1, <4>2, <5>1, <5>2 DEF UpdateIssue
          <5>4. row.live = issues[i].live /\ row.count = issues[i].count
            BY <1>0, <5>2 DEF Decided, Issue
          <5>5. QED
            BY <5>3, <5>4, <1>0
        <4>3. QED
          BY <2>1, <4>1, <4>2 DEF UpdateIssue
      <3>2. QED
        BY <2>1, <3>1, <1>2 DEF UpdateIssue
    <2>2. CASE PurgeOrg
      <3>1. RowsForget
        BY <2>2, <1>0 DEF PurgeOrg, NewRow
      <3>2. IssuesForget
        BY <2>2, <1>0 DEF PurgeOrg, Issue
      <3>3. QED
        BY <2>2, <3>1, <3>2 DEF PurgeOrg
    <2>3. ASSUME NEW i \in DOMAIN issues, LoadIssue(i) PROVE RowsForget /\ IssuesForget /\ UNCHANGED <<pc, job>>
      BY <2>3, <1>1, <1>2 DEF LoadIssue
    <2>4. QED
      BY <2>1, <2>2, <2>3, <1>4 DEF Operator
  <1>5. ASSUME RetentionJob PROVE RowsForget /\ IssuesForget /\ UNCHANGED <<pc, job>>
    <2>1. ASSUME NEW e \in Events, PruneEvent(e) PROVE RowsForget /\ IssuesForget /\ UNCHANGED <<pc, job>>
      <3>1. RowsForget
        BY <2>1, <1>0 DEF PruneEvent, NewRow, TypeOK
      <3>2. QED
        BY <2>1, <3>1, <1>1 DEF PruneEvent
    <2>2. ASSUME NEW i \in DOMAIN issues, PruneIssue(i) PROVE RowsForget /\ IssuesForget /\ UNCHANGED <<pc, job>>
      <3>1. issues' = [issues EXCEPT ![i] = [issues[i] EXCEPT !.live = FALSE]]
        BY <2>2, <1>0 DEF PruneIssue
      <3>2. IssuesForget
        BY <3>1, <1>0 DEF Issue
      <3>3. QED
        BY <2>2, <3>2, <1>2 DEF PruneIssue
    <2>3. ASSUME NEW r \in Releases, PruneArtifact(r) PROVE RowsForget /\ IssuesForget /\ UNCHANGED <<pc, job>>
      BY <2>3, <1>1, <1>2 DEF PruneArtifact
    <2>4. QED
      BY <2>1, <2>2, <2>3, <1>5 DEF RetentionJob
  <1>6. UNCHANGED vars => RowsForget /\ IssuesForget /\ UNCHANGED <<pc, job>>
    BY <1>1, <1>2 DEF vars
  <1>7. RowsForget /\ IssuesForget /\ UNCHANGED <<pc, job>>
    BY <1>3, <1>4, <1>5, <1>6
  <1>8. QED
    BY <1>7, ForgettingCovers

LEMMA InitCovers == Init => CoverInv
  <1> SUFFICES ASSUME Init PROVE CoverInv
    OBVIOUS
  <1>1. IssuesInv
    BY IssuesInitOK
  <1>2. DOMAIN issues = {} /\ (\A e \in Events : rows[e].issue = NoIssue)
        /\ \A w \in Workers : /\ pc[w] = "idle" /\ job[w].issue = NoIssue
                              /\ \A e \in Events : job[w].held[e] = NoIssue
    BY DEF Init, NewRow, NoJob
  <1>3. QED
    BY <1>1, <1>2 DEF CoverInv, RowsOnShelf, Shelf, HandOK, Covered

LEMMA StepCovers ==
  ASSUME NEW w, Workers = {w}, \A e \in Events : Weight[e] = 1
  PROVE  CoverInv /\ [Next]_vars => CoverInv'
  <1> SUFFICES ASSUME CoverInv, [Next]_vars PROVE CoverInv'
    OBVIOUS
  <1>1. IssuesInv' /\ TypeOK' /\ w \in Workers
    BY IssuesNextOK DEF CoverInv, IssuesInv
  <1> DEFINE Kept == RowsOnShelf' /\ (\A v \in Workers : HandOK(v)') /\ Covered'
  <1>2. WorkerStep(w) => Kept
    BY <1>1, ClaimCovers, FetchCovers, UpsertCovers, TouchCovers, AttachCovers, DetachCovers, DoneCovers
       DEF WorkerStep
  <1>3. Abandon(w) => Kept
    BY <1>1, DoneCovers
  <1>4. \A e \in Events : Ingest(e) => Kept
    BY <1>1, IngestCovers
  <1>5. (\E v \in Workers : Uploader(v)) \/ Operator \/ RetentionJob \/ UNCHANGED vars => Kept
    BY <1>1, OthersCover
  <1>6. Kept
    BY <1>2, <1>3, <1>4, <1>5 DEF Next
  <1>7. QED
    BY <1>1, <1>6 DEF CoverInv

\* Events on an issue that weigh one each weigh no more than the issue's count.
LEMMA CoveredCounts ==
  ASSUME CoverInv, \A e \in Events : Weight[e] = 1
  PROVE  CountCoversEvents
  <1> SUFFICES ASSUME NEW i \in DOMAIN issues, Live(i) PROVE issues[i].count >= WeightOn(i)
    BY DEF CountCoversEvents
  <1>1. issues[i].count \in Nat /\ issues[i].count >= Cardinality(Owing(i)) /\ Cardinality(Owing(i)) \in Nat
    BY IssueFields, OwingSize DEF CoverInv, IssuesInv, Covered
  <1>2. PICK S : S = Attached(i)
    OBVIOUS
  <1>3. S \in SUBSET Owing(i) /\ S \subseteq Events
    BY <1>2 DEF Attached, Owing
  <1>4. IsFiniteSet(S) /\ Cardinality(S) <= Cardinality(Owing(i)) /\ Cardinality(S) \in Nat
    BY <1>3, OwingSize
  <1>5. PICK f : f = [e \in S |-> Weight[e]]
    OBVIOUS
  <1>6. f \in [S -> Int] /\ (\A e \in S : f[e] \in 0 .. 1)
    BY <1>3, <1>5
  <1>7. SumFunction(f) \in Nat /\ SumFunction(f) <= Cardinality(S) * 1
    <2>1. 1 \in Nat
      OBVIOUS
    <2>2. QED
      BY <1>4, <1>6, <2>1, SumBounded
  <1>8. QED
    BY <1>1, <1>2, <1>4, <1>5, <1>7 DEF WeightOn

\* With one grouping process and reports that were not sampled, failures, retries and
\* re-groups never lose an occurrence: between events an issue's count covers what is
\* attached to it (UpsertIssue, AttachToIssue and DetachFromIssue, issues.go).  An issue is
\* opened with count 1 whatever the report weighs, and two processes that claimed the same
\* event may both detach it, so neither hypothesis can be dropped.
THEOREM CountsCoverTheirEvents ==
  ASSUME NEW w, Workers = {w}, \A e \in Events : Weight[e] = 1
  PROVE  Spec => []CountCoversEvents
  <1>1. CoverInv => CountCoversEvents
    BY CoveredCounts
  <1>2. CoverInv /\ [Next]_vars => CoverInv'
    BY StepCovers
  <1>3. QED
    BY <1>1, <1>2, InitCovers, PTL DEF Spec

-----------------------------------------------------------------------------
(* ClientIntake: whose a report is. *)

\* A sequence, of whatever it holds.
IsSeq(s) == s \in Seq({s[i] : i \in DOMAIN s})

LEMMA FunctionSeq ==
  ASSUME NEW n \in Nat, NEW S, NEW f \in [1 .. n -> S]
  PROVE  IsSeq(f) /\ Len(f) = n
  <1>1. f \in [1 .. n -> {f[i] : i \in DOMAIN f}]
    OBVIOUS
  <1>2. QED
    BY <1>1 DEF IsSeq

LEMMA SeqFacts ==
  ASSUME NEW s, IsSeq(s)
  PROVE  Len(s) \in Nat /\ DOMAIN s = 1 .. Len(s)
  BY DEF IsSeq

LEMMA IsSequence ==
  ASSUME NEW S, NEW s \in Seq(S)
  PROVE  IsSeq(s) /\ Len(s) \in Nat /\ DOMAIN s = 1 .. Len(s)
  <1>1. Len(s) \in Nat /\ DOMAIN s = 1 .. Len(s) /\ s \in [1 .. Len(s) -> S]
    OBVIOUS
  <1>2. QED
    BY <1>1, FunctionSeq

LEMMA AppendSeq ==
  ASSUME NEW s, IsSeq(s), NEW x
  PROVE  /\ IsSeq(Append(s, x)) /\ DOMAIN Append(s, x) = DOMAIN s \cup {Len(s) + 1}
         /\ Len(s) + 1 \notin DOMAIN s /\ Len(s) + 1 \in Nat /\ Len(s) + 1 > 0
         /\ \A i \in DOMAIN s : Append(s, x)[i] = s[i]
         /\ Append(s, x)[Len(s) + 1] = x
  <1> DEFINE S == {s[i] : i \in DOMAIN s} \cup {x}
  <1>1. s \in Seq(S) /\ x \in S
    BY DEF IsSeq
  <1> HIDE DEF S
  <1>2. /\ Append(s, x) \in Seq(S) /\ Len(s) \in Nat /\ DOMAIN s = 1 .. Len(s)
        /\ Len(Append(s, x)) = Len(s) + 1 /\ DOMAIN Append(s, x) = 1 .. Len(s) + 1
        /\ \A i \in 1 .. Len(s) : Append(s, x)[i] = s[i]
        /\ Append(s, x)[Len(s) + 1] = x
    BY <1>1
  <1>3. IsSeq(Append(s, x))
    BY <1>2, IsSequence
  <1>4. QED
    BY <1>2, <1>3

LEMMA ConcatSeq ==
  ASSUME NEW s, IsSeq(s), NEW t, IsSeq(t)
  PROVE  /\ IsSeq(s \o t) /\ DOMAIN s \subseteq DOMAIN (s \o t)
         /\ \A i \in DOMAIN s : (s \o t)[i] = s[i]
         /\ \A i \in DOMAIN (s \o t) : i \notin DOMAIN s => \E k \in DOMAIN t : (s \o t)[i] = t[k]
  <1> DEFINE S == {s[i] : i \in DOMAIN s} \cup {t[i] : i \in DOMAIN t}
  <1>1. s \in Seq(S) /\ t \in Seq(S)
    BY DEF IsSeq
  <1> HIDE DEF S
  <1>2. /\ s \o t \in Seq(S) /\ Len(s) \in Nat /\ Len(t) \in Nat
        /\ DOMAIN s = 1 .. Len(s) /\ DOMAIN t = 1 .. Len(t)
        /\ Len(s \o t) = Len(s) + Len(t) /\ DOMAIN (s \o t) = 1 .. Len(s) + Len(t)
        /\ \A i \in 1 .. Len(s) + Len(t) : (s \o t)[i] = IF i <= Len(s) THEN s[i] ELSE t[i - Len(s)]
    BY <1>1
  <1>4. IsSeq(s \o t)
    BY <1>2, IsSequence
  <1>5. ASSUME NEW i \in DOMAIN (s \o t), i \notin DOMAIN s
        PROVE  \E k \in DOMAIN t : (s \o t)[i] = t[k]
    <2>1. i - Len(s) \in DOMAIN t /\ (s \o t)[i] = t[i - Len(s)]
      BY <1>2, <1>5
    <2>2. QED
      BY <2>1
  <1>6. QED
    BY <1>2, <1>4, <1>5

LEMMA SeqExcept ==
  ASSUME NEW s, IsSeq(s), NEW i \in DOMAIN s, NEW x
  PROVE  IsSeq([s EXCEPT ![i] = x]) /\ DOMAIN [s EXCEPT ![i] = x] = DOMAIN s
  <1>1. PICK n \in Nat : n = Len(s) /\ DOMAIN s = 1 .. n
    BY SeqFacts
  <1>2. PICK t : t = [s EXCEPT ![i] = x]
    OBVIOUS
  <1>3. s \in [1 .. n -> {s[k] : k \in DOMAIN s}]
    BY <1>1 DEF IsSeq
  <1>4. t \in [1 .. n -> {s[k] : k \in DOMAIN s} \cup {x}]
    BY <1>1, <1>2, <1>3
  <1>5. IsSeq(t)
    BY <1>4, FunctionSeq
  <1>6. QED
    BY <1>1, <1>2, <1>4, <1>5

LEMMA MappedSeq ==
  ASSUME NEW s, IsSeq(s), NEW f, f = [i \in DOMAIN s |-> f[i]]
  PROVE  IsSeq(f) /\ DOMAIN f = DOMAIN s
  <1>1. Len(s) \in Nat /\ DOMAIN s = 1 .. Len(s)
    BY SeqFacts
  <1>2. f \in [1 .. Len(s) -> {f[i] : i \in DOMAIN s}]
    BY <1>1
  <1>3. QED
    BY <1>1, <1>2, FunctionSeq

\* What the rows of the tables and a request's variables are made of.
IsReport(r) == r = [org |-> r.org, site |-> r.site, user |-> r.user, sight |-> r.sight,
                    at |-> r.at, sampled |-> r.sampled, group |-> r.group]
IsGroup(g)  == g = [org |-> g.org, site |-> g.site, crash |-> g.crash, first |-> g.first,
                    last |-> g.last, count |-> g.count, status |-> g.status,
                    regressed |-> g.regressed, opened |-> g.opened]
IsPost(x)   == x = [step |-> x.step, batch |-> x.batch,
                    who |-> [user |-> x.who.user, org |-> x.who.org, site |-> x.who.site]]

\* Somebody whose team and project have been checked as far as they are named.
WhoOK(user, org, site) ==
    /\ org # "none" => user \in Supers \/ <<user, org>> \in everBelonged
    /\ site # "none" => CompanyOf[site] = org

ReportOK(r) ==
    /\ IsReport(r) /\ WhoOK(r.user, r.org, r.site) /\ r.group \in Int
    /\ r.group > 0 => /\ r.group \in DOMAIN groups
                      /\ groups[r.group].org = r.org /\ groups[r.group].site = r.site

GroupOK(g) == IsGroup(g) /\ (g.site # "none" => CompanyOf[g.site] = g.org)

PostOK(x) ==
    /\ IsPost(x) /\ WhoOK(x.who.user, x.who.org, x.who.site)
    /\ x.step \in {"reporter", "project"} => x.who.site = "none"
    /\ x.batch \in Reports \cup {<<>>}

PageOK(a) == a.group \in DOMAIN groups /\ groups[a.group].site = a.site

ReportsOK == IsSeq(reports) /\ \A i \in DOMAIN reports : ReportOK(reports[i])
GroupsOK  == IsSeq(groups) /\ \A g \in DOMAIN groups : GroupOK(groups[g])
PostsOK   == post = [p \in Posts |-> post[p]] /\ \A p \in Posts : PostOK(post[p])
PagesOK   == \A a \in paged : PageOK(a)
PassOK    == pass.todo \subseteq DOMAIN groups

TeamInv == ReportsOK /\ GroupsOK /\ PostsOK /\ PagesOK /\ PassOK /\ belongs \subseteq everBelonged

\* The issues stay: they keep their organization and project.
GroupsStay ==
    /\ DOMAIN groups \subseteq DOMAIN groups'
    /\ \A g \in DOMAIN groups : groups'[g].org = groups[g].org /\ groups'[g].site = groups[g].site

LEMMA ReportStays ==
  ASSUME GroupsStay, UNCHANGED everBelonged, NEW r, ReportOK(r)
  PROVE  ReportOK(r)'
  BY DEF GroupsStay, ReportOK, WhoOK, IsReport

LEMMA PostStays ==
  ASSUME UNCHANGED everBelonged, NEW x, PostOK(x)
  PROVE  PostOK(x)'
  BY DEF PostOK, WhoOK, IsPost

LEMMA PageStays ==
  ASSUME GroupsStay, NEW a, PageOK(a)
  PROVE  PageOK(a)'
  BY DEF GroupsStay, PageOK

\* The tables after a step, row by row.
LEMMA NextReports ==
  ASSUME IsSeq(reports'), \A i \in DOMAIN reports' : \E r : r = reports'[i] /\ ReportOK(r)'
  PROVE  ReportsOK'
  <1>1. IsSeq(reports)'
    BY DEF IsSeq
  <1>2. ASSUME NEW i \in DOMAIN reports' PROVE ReportOK(reports[i])'
    <2>1. PICK r : r = reports'[i] /\ ReportOK(r)'
      OBVIOUS
    <2>2. QED
      BY <2>1 DEF ReportOK, IsReport, WhoOK
  <1>3. QED
    BY <1>1, <1>2 DEF ReportsOK

LEMMA NextPosts ==
  ASSUME PostsOK, UNCHANGED everBelonged, NEW p \in Posts, NEW x, post' = [post EXCEPT ![p] = x], PostOK(x)
  PROVE  PostsOK'
  <1>1. post' = [q \in Posts |-> post'[q]]
    BY DEF PostsOK
  <1>2. ASSUME NEW q \in Posts PROVE PostOK(post[q])'
    <2>1. PICK y : y = post'[q] /\ PostOK(y)
      BY DEF PostsOK
    <2>2. PostOK(y)'
      BY <2>1, PostStays
    <2>3. QED
      BY <2>1, <2>2 DEF PostOK, IsPost, WhoOK
  <1>3. QED
    BY <1>1, <1>2 DEF PostsOK

LEMMA NextGroups ==
  ASSUME IsSeq(groups'), \A g \in DOMAIN groups' : \E r : r = groups'[g] /\ GroupOK(r)
  PROVE  GroupsOK'
  BY DEF GroupsOK, IsSeq, GroupOK, IsGroup

\* What a step does not touch stays in order.
LEMMA SameReports ==
  ASSUME ReportsOK, GroupsStay, UNCHANGED <<reports, everBelonged>>
  PROVE  ReportsOK'
  <1>1. \A i \in DOMAIN reports' : \E r : r = reports'[i] /\ ReportOK(r)'
    BY ReportStays DEF ReportsOK
  <1>2. QED
    BY <1>1, NextReports DEF ReportsOK

LEMMA SamePosts ==
  ASSUME PostsOK, UNCHANGED <<post, everBelonged>>
  PROVE  PostsOK'
  BY DEF PostsOK, PostOK, IsPost, WhoOK

LEMMA SameGroups ==
  ASSUME GroupsOK, UNCHANGED groups
  PROVE  GroupsOK' /\ GroupsStay
  BY DEF GroupsOK, GroupsStay, IsSeq, GroupOK, IsGroup

LEMMA SamePages ==
  ASSUME PagesOK, GroupsStay, UNCHANGED paged
  PROVE  PagesOK'
  BY DEF PagesOK, PageOK, GroupsStay

LEMMA SamePass ==
  ASSUME PassOK, GroupsStay, pass'.todo \subseteq pass.todo
  PROVE  PassOK'
  BY DEF PassOK, GroupsStay

\* A request moves, and nothing else.
LEMMA PostMoves ==
  ASSUME TeamInv, NEW p \in Posts, NEW x, post' = [post EXCEPT ![p] = x], PostOK(x),
         UNCHANGED <<tenants, tables>>
  PROVE  TeamInv'
  <1>1. UNCHANGED <<reports, groups, paged, pass, belongs, everBelonged>>
    BY DEF tenants, tables
  <1>2. GroupsStay /\ GroupsOK'
    BY <1>1, SameGroups DEF TeamInv
  <1>3. ReportsOK' /\ PagesOK' /\ PassOK'
    BY <1>1, <1>2, SameReports, SamePages, SamePass DEF TeamInv
  <1>4. PostsOK'
    BY <1>1, NextPosts DEF TeamInv
  <1>5. QED
    BY <1>1, <1>2, <1>3, <1>4 DEF TeamInv

LEMMA ReceiveKeepsTeams ==
  ASSUME TeamInv, NEW p \in Posts, NEW a \in Addresses, NEW u \in Members \cup {"none"}, NEW b \in Reports,
         Receive(p, a, u, b)
  PROVE  TeamInv'
  <1>1. PICK x : x = [step |-> "reporter", batch |-> b, who |-> [Nobody EXCEPT !.user = u]]
    OBVIOUS
  <1>2. x = [step |-> "reporter", batch |-> b, who |-> [user |-> u, org |-> "none", site |-> "none"]]
    BY <1>1 DEF Nobody
  <1>3. PostOK(x)
    BY <1>2 DEF PostOK, IsPost, WhoOK
  <1>4. UNCHANGED <<tenants, tables>> /\ (post' = [post EXCEPT ![p] = x] \/ post' = post)
    BY <1>1 DEF Receive
  <1>5. post[p] = post[p] /\ PostOK(post[p]) /\ post = [post EXCEPT ![p] = post[p]]
    BY DEF TeamInv, PostsOK
  <1>6. QED
    BY <1>3, <1>4, <1>5, PostMoves

LEMMA PostChanges ==
  ASSUME NEW y, IsPost(y), NEW next, NEW w
  PROVE  [y EXCEPT !.step = next, !.who = w] = [step |-> next, batch |-> y.batch, who |-> w]
  <1>1. PICK st, b, v : st = y.step /\ b = y.batch /\ v = [user |-> y.who.user, org |-> y.who.org, site |-> y.who.site]
    OBVIOUS
  <1>2. y = [step |-> st, batch |-> b, who |-> v]
    BY <1>1, Zenon DEF IsPost
  <1>3. PICK y1 : y1 = [y EXCEPT !.step = next]
    OBVIOUS
  <1>4. y1 = [step |-> next, batch |-> b, who |-> v]
    BY <1>2, <1>3
  <1>5. [y1 EXCEPT !.who = w] = [step |-> next, batch |-> b, who |-> w]
    BY <1>4
  <1>6. [y EXCEPT !.step = next, !.who = w] = [y1 EXCEPT !.who = w]
    BY <1>3
  <1>7. QED
    BY <1>1, <1>5, <1>6, Zenon

\* The reporter's organization, once resolved, is one he belongs to.
LEMMA ReporterKeepsTeams ==
  ASSUME TeamInv, NEW p \in Posts, Reporter(p)
  PROVE  TeamInv'
  <1>1. PICK y : y = post[p] /\ PostOK(y)
    BY DEF TeamInv, PostsOK
  <1>2. y.step = "reporter" /\ UNCHANGED <<tenants, tables>> /\ belongs \subseteq everBelonged
    BY <1>1 DEF Reporter, TeamInv
  <1>3. PICK u, o, next :
           /\ post' = [post EXCEPT ![p].step = next, ![p].who = [Nobody EXCEPT !.user = u, !.org = o]]
           /\ o # "none" => u \in Supers \/ <<u, o>> \in everBelonged
           /\ next \in {"store", "project"}
    <2>1. CASE post' = [post EXCEPT ![p].step = "store", ![p].who = [Nobody EXCEPT !.user = "none", !.org = "none"]]
      BY <2>1
    <2>2. CASE post' # [post EXCEPT ![p].step = "store", ![p].who = [Nobody EXCEPT !.user = "none", !.org = "none"]]
      <3>1. PICK u, h : u = y.who.user /\ h = FirstOrgHint(y.batch)
        OBVIOUS
      <3>2. \/ /\ u \in Supers \/ <<u, h>> \in belongs
               /\ post' = [post EXCEPT ![p].step = "project", ![p].who = [Nobody EXCEPT !.user = u, !.org = h]]
            \/ post' = [post EXCEPT ![p].step = "store", ![p].who = [Nobody EXCEPT !.user = u, !.org = "none"]]
        BY <2>2, <3>1, <1>1 DEF Reporter
      <3>3. QED
        BY <3>2, <1>2
    <2>3. QED
      BY <2>1, <2>2
  <1>4. PICK w : w = [Nobody EXCEPT !.user = u, !.org = o]
    OBVIOUS
  <1>5. w.user = u /\ w.org = o /\ w.site = "none" /\ w = [user |-> w.user, org |-> w.org, site |-> w.site]
    BY <1>4 DEF Nobody
  <1>6. PICK x : x = [step |-> next, batch |-> y.batch, who |-> w]
    OBVIOUS
  <1>7. PostOK(x)
    <2>1. x.step = next /\ x.batch = y.batch /\ x.who = w
      BY <1>6
    <2>2. IsPost(x)
      BY <1>5, <1>6, <2>1, Zenon DEF IsPost
    <2>3. QED
      BY <2>1, <2>2, <1>1, <1>3, <1>5 DEF PostOK, WhoOK
  <1>8. post' = [post EXCEPT ![p] = x]
    <2>1. post = [q \in Posts |-> post[q]] /\ IsPost(y)
      BY <1>1 DEF TeamInv, PostsOK, PostOK
    <2>2. [y EXCEPT !.step = next, !.who = w] = x
      BY <1>6, <2>1, PostChanges, Zenon
    <2>3. [post EXCEPT ![p].step = next, ![p].who = w] = [post EXCEPT ![p] = [post[p] EXCEPT !.step = next, !.who = w]]
      BY <2>1
    <2>4. post' = [post EXCEPT ![p].step = next, ![p].who = w]
      BY <1>3, <1>4
    <2>5. QED
      BY <1>1, <2>2, <2>3, <2>4, Zenon
  <1>9. QED
    BY <1>2, <1>7, <1>8, PostMoves

LEMMA ResolveProjectKeepsTeams ==
  ASSUME TeamInv, NEW p \in Posts, ResolveProject(p)
  PROVE  TeamInv'
  <1>1. PICK y : y = post[p] /\ PostOK(y)
    BY DEF TeamInv, PostsOK
  <1>2. PICK s : s = Believed(p)
    OBVIOUS
  <1>3. s # "none" => CompanyOf[s] = y.who.org
    BY <1>1, <1>2 DEF Believed
  <1>4. PICK x : x = [step |-> "store", batch |-> y.batch,
                      who |-> [user |-> y.who.user, org |-> y.who.org, site |-> s]]
    OBVIOUS
  <1>5. IsPost(y) /\ y.batch \in Reports \cup {<<>>} /\ WhoOK(y.who.user, y.who.org, y.who.site)
    BY <1>1 DEF PostOK
  <1>6. PostOK(x)
    <2>1. x.step = "store" /\ x.batch = y.batch /\ x.who.user = y.who.user /\ x.who.org = y.who.org
          /\ x.who.site = s
      BY <1>4
    <2>2. IsPost(x)
      BY <1>4, <2>1 DEF IsPost
    <2>3. QED
      BY <2>1, <2>2, <1>3, <1>5 DEF PostOK, WhoOK
  <1>7. post' = [post EXCEPT ![p] = x]
    <2>0. PICK w : w = [user |-> y.who.user, org |-> y.who.org, site |-> s]
      OBVIOUS
    <2>1. post = [q \in Posts |-> post[q]]
      BY DEF TeamInv, PostsOK
    <2>2. [y.who EXCEPT !.site = s] = w
      BY <1>5, <2>0 DEF IsPost
    <2>3. [y EXCEPT !.step = "store", !.who = w] = x
      BY <1>4, <1>5, <2>0, PostChanges, Zenon
    <2>4. [post EXCEPT ![p].step = "store", ![p].who.site = s]
             = [post EXCEPT ![p] = [post[p] EXCEPT !.step = "store", !.who = [post[p].who EXCEPT !.site = s]]]
      BY <2>1
    <2>5. post' = [post EXCEPT ![p].step = "store", ![p].who.site = s]
      BY <1>2 DEF ResolveProject
    <2>6. QED
      BY <1>1, <2>2, <2>3, <2>4, <2>5, Zenon
  <1>8. QED
    BY <1>6, <1>7, PostMoves DEF ResolveProject

\* The rows of a batch are its reporter's.
LEMMA StoreReportsKeepsTeams ==
  ASSUME TeamInv, NEW p \in Posts, StoreReports(p)
  PROVE  TeamInv'
  <1>1. PICK y : y = post[p] /\ PostOK(y)
    BY DEF TeamInv, PostsOK
  <1>2. IsPost(y) /\ y.batch \in Reports \cup {<<>>} /\ WhoOK(y.who.user, y.who.org, y.who.site)
    BY <1>1 DEF PostOK
  <1>3. PICK t : t = [i \in DOMAIN y.batch |-> NewReport(y.who, y.batch[i])]
    OBVIOUS
  <1>4. IsSeq(t)
    <2>1. PICK n \in Nat : DOMAIN y.batch = 1 .. n
      <3>1. CASE y.batch \in Reports
        BY <3>1, IntakeAssumption
      <3>2. CASE y.batch = <<>>
        <4>1. DOMAIN y.batch = 1 .. 0
          BY <3>2
        <4>2. QED
          BY <4>1
      <3>3. QED
        BY <3>1, <3>2, <1>2
    <2>2. t \in [1 .. n -> {t[i] : i \in DOMAIN t}]
      BY <2>1, <1>3
    <2>3. QED
      BY <2>2, FunctionSeq
  <1>5. ASSUME NEW i \in DOMAIN t PROVE ReportOK(t[i])
    <2>1. PICK at, sampled, sight : t[i] = [org |-> y.who.org, site |-> y.who.site, user |-> y.who.user,
                                            sight |-> sight, at |-> at, sampled |-> sampled, group |-> 0]
      BY <1>3 DEF NewReport
    <2>2. QED
      BY <2>1, <1>2 DEF ReportOK, IsReport
  <1>6. reports' \in {reports, reports \o t} /\ post' = [post EXCEPT ![p] = NoPost]
        /\ UNCHANGED <<tenants, groups, paged, pass>>
    BY <1>1, <1>3 DEF StoreReports
  <1>7. GroupsOK' /\ GroupsStay /\ UNCHANGED <<belongs, everBelonged>>
    BY <1>6, SameGroups DEF TeamInv, tenants
  <1>8. ReportsOK'
    <2>1. CASE reports' = reports
      BY <2>1, <1>7, SameReports DEF TeamInv
    <2>2. CASE reports' = reports \o t
      <3>1. IsSeq(reports') /\ \A i \in DOMAIN reports' :
               \/ i \in DOMAIN reports /\ reports'[i] = reports[i]
               \/ \E k \in DOMAIN t : reports'[i] = t[k]
        BY <2>2, <1>4, ConcatSeq DEF TeamInv, ReportsOK
      <3>2. \A i \in DOMAIN reports' : \E r : r = reports'[i] /\ ReportOK(r)
        BY <3>1, <1>5 DEF TeamInv, ReportsOK
      <3>3. \A i \in DOMAIN reports' : \E r : r = reports'[i] /\ ReportOK(r)'
        BY <3>2, <1>7, ReportStays
      <3>4. QED
        BY <3>1, <3>3, NextReports
    <2>3. QED
      BY <2>1, <2>2, <1>6
  <1>9. PostOK(NoPost)
    BY DEF PostOK, IsPost, WhoOK, NoPost, Nobody
  <1>10. PostsOK'
    BY <1>6, <1>7, <1>9, NextPosts DEF TeamInv
  <1>11. PagesOK' /\ PassOK'
    BY <1>6, <1>7, SamePages, SamePass DEF TeamInv
  <1>12. QED
    BY <1>7, <1>8, <1>10, <1>11 DEF TeamInv

\* Changing what an issue says of its reports leaves it where it is.
LEMMA GroupEdits ==
  ASSUME NEW g, GroupOK(g), NEW v
  PROVE  /\ GroupOK([g EXCEPT !.first = v]) /\ [g EXCEPT !.first = v].org = g.org /\ [g EXCEPT !.first = v].site = g.site
         /\ GroupOK([g EXCEPT !.last = v]) /\ [g EXCEPT !.last = v].org = g.org /\ [g EXCEPT !.last = v].site = g.site
         /\ GroupOK([g EXCEPT !.count = v]) /\ [g EXCEPT !.count = v].org = g.org /\ [g EXCEPT !.count = v].site = g.site
         /\ GroupOK([g EXCEPT !.status = v]) /\ [g EXCEPT !.status = v].org = g.org
         /\ [g EXCEPT !.status = v].site = g.site
         /\ GroupOK([g EXCEPT !.regressed = v]) /\ [g EXCEPT !.regressed = v].org = g.org
         /\ [g EXCEPT !.regressed = v].site = g.site
  BY DEF GroupOK, IsGroup

LEMMA TouchedStays ==
  ASSUME NEW g, GroupOK(g), NEW r
  PROVE  GroupOK(TouchedGroup(g, r)) /\ TouchedGroup(g, r).org = g.org /\ TouchedGroup(g, r).site = g.site
  <1>1. PICK g1 : g1 = [g EXCEPT !.first = Min({g.first, r.at})]
    OBVIOUS
  <1>2. PICK g2 : g2 = [g1 EXCEPT !.last = Max({g.last, r.at})]
    OBVIOUS
  <1>3. PICK g3 : g3 = [g2 EXCEPT !.count = g.count + r.sampled]
    OBVIOUS
  <1>s. PICK status : status = IF g.status = "resolved" THEN "unresolved" ELSE g.status
    OBVIOUS
  <1>b. PICK back \in BOOLEAN : back = (g.regressed \/ g.status = "resolved")
    BY (g.regressed \/ g.status = "resolved") \in BOOLEAN
  <1>4. PICK g4 : g4 = [g3 EXCEPT !.status = status]
    OBVIOUS
  <1>5. PICK g5 : g5 = [g4 EXCEPT !.regressed = back]
    OBVIOUS
  <1>6. TouchedGroup(g, r) = g5
    <2>1. TouchedGroup(g, r) = [g EXCEPT !.first = Min({g.first, r.at}), !.last = Max({g.last, r.at}),
                                         !.count = g.count + r.sampled, !.status = status, !.regressed = back]
      BY <1>s, <1>b, Zenon DEF TouchedGroup
    <2>2. QED
      BY <1>1, <1>2, <1>3, <1>4, <1>5, <2>1, Zenon
  <1>7. GroupOK(g1) /\ g1.org = g.org /\ g1.site = g.site
    BY <1>1, GroupEdits, Zenon
  <1>8. GroupOK(g2) /\ g2.org = g.org /\ g2.site = g.site
    BY <1>2, <1>7, GroupEdits, Zenon
  <1>9. GroupOK(g3) /\ g3.org = g.org /\ g3.site = g.site
    BY <1>3, <1>8, GroupEdits, Zenon
  <1>10. GroupOK(g4) /\ g4.org = g.org /\ g4.site = g.site
    BY <1>4, <1>9, GroupEdits, Zenon
  <1>11. GroupOK(g5) /\ g5.org = g.org /\ g5.site = g.site
    BY <1>5, <1>10, GroupEdits, Zenon
  <1>12. QED
    BY <1>6, <1>11

\* The report is filed under the issue; the pages are of that issue.
FiledUnder(i, id) == reports' = [reports EXCEPT ![i].group = id]
PagesOf(id, site) == \A a \in paged' : a \in paged \/ (a.group = id /\ a.site = site)

\* A report that is filed under an issue of its scope, and the pages that go with it.
LEMMA Filed ==
  ASSUME TeamInv, NEW i \in DOMAIN reports, NEW id, NEW new, GroupOK(new),
         IsSeq(groups'), DOMAIN groups \subseteq DOMAIN groups', id \in DOMAIN groups', groups'[id] = new,
         \A g \in DOMAIN groups' : g # id => g \in DOMAIN groups /\ groups'[g] = groups[g],
         id \in DOMAIN groups => new.org = groups[id].org /\ new.site = groups[id].site,
         new.org = reports[i].org, new.site = reports[i].site,
         FiledUnder(i, id), PagesOf(id, new.site),
         UNCHANGED <<tenants, post, pass>>
  PROVE  TeamInv'
  <1>1. GroupsStay /\ UNCHANGED <<belongs, everBelonged>>
    BY DEF GroupsStay, tenants
  <1>2. GroupsOK'
    <2>1. \A g \in DOMAIN groups' : \E x : x = groups'[g] /\ GroupOK(x)
      BY DEF TeamInv, GroupsOK
    <2>2. QED
      BY <2>1, NextGroups
  <1>3. PICK r : r = reports[i] /\ ReportOK(r)
    BY DEF TeamInv, ReportsOK
  <1>4. PICK x : x = [r EXCEPT !.group = id]
    OBVIOUS
  <1>5. ReportOK(x)'
    <2>0. id \in Int
      <3>1. PICK t : t = groups'
        OBVIOUS
      <3>2. IsSeq(t) /\ id \in DOMAIN t
        BY <3>1
      <3>3. QED
        BY <3>2, SeqFacts
    <2>1. IsReport(x) /\ x.org = r.org /\ x.site = r.site /\ x.user = r.user /\ x.group = id
      BY <1>3, <1>4 DEF ReportOK, IsReport
    <2>2. QED
      BY <1>1, <1>3, <2>0, <2>1 DEF ReportOK, WhoOK, IsReport
  <1>6. reports' = [reports EXCEPT ![i] = x] /\ IsSeq(reports)
    BY <1>3, <1>4 DEF TeamInv, ReportsOK, FiledUnder
  <1>7. ReportsOK'
    <2>0. PICK s : s = [reports EXCEPT ![i] = x]
      OBVIOUS
    <2>1. IsSeq(reports') /\ DOMAIN reports' = DOMAIN reports
      <3>1. IsSeq(s) /\ DOMAIN s = DOMAIN reports
        BY <1>6, <2>0, SeqExcept
      <3>2. QED
        BY <1>6, <2>0, <3>1
    <2>2. \A k \in DOMAIN reports : reports'[k] = IF k = i THEN x ELSE reports[k]
      BY <1>6
    <2>3. ASSUME NEW k \in DOMAIN reports' PROVE \E y : y = reports'[k] /\ ReportOK(y)'
      <3>1. CASE k = i
        BY <1>5, <2>1, <2>2, <3>1
      <3>2. CASE k # i
        <4>1. PICK y : y = reports'[k] /\ ReportOK(y)
          BY <2>1, <2>2, <3>2 DEF TeamInv, ReportsOK
        <4>2. ReportOK(y)'
          BY <1>1, <4>1, ReportStays
        <4>3. QED
          BY <4>1, <4>2
      <3>3. QED
        BY <3>1, <3>2
    <2>4. QED
      BY <2>1, <2>3, NextReports
  <1>8. PagesOK'
    <2>1. ASSUME NEW a \in paged' PROVE PageOK(a)'
      <3>1. CASE a \in paged
        BY <1>1, <3>1, PageStays DEF TeamInv, PagesOK
      <3>2. CASE a.group = id /\ a.site = new.site
        BY <3>2 DEF PageOK
      <3>3. QED
        BY <3>1, <3>2 DEF PagesOf
    <2>2. QED
      BY <2>1 DEF PagesOK
  <1>9. PostsOK' /\ PassOK'
    BY <1>1, SamePosts, SamePass DEF TeamInv
  <1>10. QED
    BY <1>1, <1>2, <1>7, <1>8, <1>9 DEF TeamInv

LEMMA FileKeepsTeams ==
  ASSUME TeamInv, NEW i \in DOMAIN reports, File(i)
  PROVE  TeamInv'
  <1>1. PICK r : r = reports[i] /\ ReportOK(r)
    BY DEF TeamInv, ReportsOK
  <1>2. PICK alike : alike = {g \in DOMAIN groups : /\ groups[g].status # "deleted"
                                                   /\ SameScope(groups[g], r)
                                                   /\ groups[g].crash = Fingerprint(r.sight)}
    OBVIOUS
  <1>3. PICK id : id = IF alike = {} THEN Len(groups) + 1 ELSE CHOOSE g \in alike : TRUE
    OBVIOUS
  <1>4. PICK new : new = IF alike = {} THEN OpenedGroup(r) ELSE TouchedGroup(groups[id], r)
    OBVIOUS
  <1>5. /\ groups' = IF alike = {} THEN Append(groups, new) ELSE [groups EXCEPT ![id] = new]
        /\ FiledUnder(i, id)
        /\ paged' = paged \cup (IF alike = {} THEN Fire(new, id, "opened")
                                ELSE IF new.regressed THEN Fire(new, id, "regressed") ELSE {})
        /\ UNCHANGED <<tenants, post, pass>>
    BY <1>1, <1>2, <1>3, <1>4 DEF File, FiledUnder
  <1>6. PagesOf(id, new.site)
    BY <1>5 DEF Fire, PagesOf
  <1>7. IsSeq(groups) /\ \A g \in DOMAIN groups : GroupOK(groups[g])
    BY DEF TeamInv, GroupsOK
  <1>8. WhoOK(r.user, r.org, r.site)
    BY <1>1 DEF ReportOK
  <1>9. CASE alike = {}
    <2>1. id = Len(groups) + 1 /\ groups' = Append(groups, new) /\ new = OpenedGroup(r)
      BY <1>3, <1>4, <1>5, <1>9
    <2>2. /\ IsSeq(groups') /\ DOMAIN groups' = DOMAIN groups \cup {id} /\ id \in Int /\ groups'[id] = new
          /\ id \notin DOMAIN groups /\ \A g \in DOMAIN groups : groups'[g] = groups[g]
      BY <1>7, <2>1, AppendSeq
    <2>3. GroupOK(new) /\ new.org = r.org /\ new.site = r.site
      BY <1>8, <2>1 DEF OpenedGroup, GroupOK, IsGroup, WhoOK
    <2>4. /\ DOMAIN groups \subseteq DOMAIN groups' /\ id \in DOMAIN groups'
          /\ \A g \in DOMAIN groups' : g # id => g \in DOMAIN groups /\ groups'[g] = groups[g]
          /\ id \in DOMAIN groups => new.org = groups[id].org /\ new.site = groups[id].site
          /\ new.org = reports[i].org /\ new.site = reports[i].site
      BY <1>1, <2>2, <2>3
    <2>5. QED
      BY <1>5, <1>6, <2>2, <2>3, <2>4, Filed
  <1>10. CASE alike # {}
    <2>1. id \in alike /\ groups' = [groups EXCEPT ![id] = new] /\ new = TouchedGroup(groups[id], r)
      BY <1>3, <1>4, <1>5, <1>10
    <2>2. id \in DOMAIN groups /\ SameScope(groups[id], r) /\ id \in Int
      BY <1>2, <1>7, <2>1, SeqFacts
    <2>3. PICK old : old = groups[id] /\ GroupOK(old)
      BY <1>7, <2>2
    <2>4. GroupOK(new) /\ new.org = old.org /\ new.site = old.site
      BY <2>1, <2>3, TouchedStays
    <2>5. old.org = r.org /\ old.site = r.site
      BY <1>8, <2>2, <2>3 DEF GroupOK, WhoOK, SameScope
    <2>6. IsSeq(groups') /\ DOMAIN groups' = DOMAIN groups
      BY <1>7, <2>1, <2>2, SeqExcept
    <2>7. groups'[id] = new /\ \A k \in DOMAIN groups : k # id => groups'[k] = groups[k]
      BY <2>1, <2>2
    <2>8. /\ IsSeq(groups') /\ DOMAIN groups \subseteq DOMAIN groups' /\ id \in DOMAIN groups'
          /\ groups'[id] = new
          /\ \A g \in DOMAIN groups' : g # id => g \in DOMAIN groups /\ groups'[g] = groups[g]
          /\ id \in DOMAIN groups => new.org = groups[id].org /\ new.site = groups[id].site
          /\ new.org = reports[i].org /\ new.site = reports[i].site
      BY <1>1, <2>2, <2>3, <2>4, <2>5, <2>6, <2>7
    <2>9. QED
      <3>1. GroupOK(new) /\ FiledUnder(i, id) /\ UNCHANGED <<tenants, post, pass>>
        BY <1>5, <2>4
      <3>2. QED
        BY <3>1, <1>6, <2>8, Filed
  <1>11. QED
    BY <1>9, <1>10

\* The evaluator pages for issues there are, of their project.
LEMMA SpikesKeepTeams ==
  ASSUME TeamInv, EvaluateSpikes \/ \E g \in pass.todo : IssueSpiked(g)
  PROVE  TeamInv'
  <1>1. UNCHANGED <<reports, groups, post, belongs, everBelonged>>
    BY DEF EvaluateSpikes, IssueSpiked, tenants
  <1>2. GroupsStay /\ GroupsOK' /\ ReportsOK' /\ PostsOK'
    BY <1>1, SameGroups, SameReports, SamePosts DEF TeamInv
  <1>3. PassOK' /\ PagesOK'
    <2>1. CASE EvaluateSpikes
      <3>1. PICK spiking : spiking = QuerySpikes(instant)
        OBVIOUS
      <3>2. spiking \subseteq DOMAIN groups
        BY <3>1 DEF QuerySpikes
      <3>3. pass' = [at |-> instant, found |-> spiking, todo |-> spiking] /\ paged' = paged
        BY <2>1, <3>1 DEF EvaluateSpikes
      <3>4. PassOK'
        BY <1>1, <3>2, <3>3 DEF PassOK
      <3>5. QED
        BY <1>2, <3>3, <3>4, SamePages DEF TeamInv
    <2>2. ASSUME NEW g \in pass.todo, IssueSpiked(g) PROVE PassOK' /\ PagesOK'
      <3>1. g \in DOMAIN groups
        BY DEF TeamInv, PassOK
      <3>2. pass' = [pass EXCEPT !.todo = pass.todo \ {g}] /\ paged' = paged \cup Fire(groups[g], g, "spiked")
        BY <2>2 DEF IssueSpiked
      <3>3. pass'.todo \subseteq pass.todo
        BY <3>2
      <3>4. PassOK'
        BY <1>2, <3>3, SamePass DEF TeamInv
      <3>5. ASSUME NEW a \in paged' PROVE PageOK(a)'
        <4>1. a \in paged \/ (a.group = g /\ a.site = groups[g].site)
          BY <3>2 DEF Fire
        <4>2. PageOK(a)
          BY <3>1, <4>1 DEF TeamInv, PagesOK, PageOK
        <4>3. QED
          BY <1>2, <4>2, PageStays
      <3>6. QED
        BY <3>4, <3>5 DEF PagesOK
    <2>3. QED
      BY <2>1, <2>2
  <1>4. QED
    BY <1>1, <1>2, <1>3 DEF TeamInv

\* An edit of one issue or of all of them leaves them where they are.
LEMMA TriageKeepsTeams ==
  ASSUME TeamInv, NEW g \in DOMAIN groups, NEW status, Triage(g, status)
  PROVE  TeamInv'
  <1>1. PICK old : old = groups[g] /\ GroupOK(old)
    BY DEF TeamInv, GroupsOK
  <1>2. PICK flag \in BOOLEAN : flag = (old.regressed /\ status # "resolved")
    BY (old.regressed /\ status # "resolved") \in BOOLEAN
  <1>3. PICK row : row = [old EXCEPT !.status = status]
    OBVIOUS
  <1>4. PICK new : new = [row EXCEPT !.regressed = flag]
    OBVIOUS
  <1>5. GroupOK(row) /\ row.org = old.org /\ row.site = old.site
    <2>1. GroupOK(old)
      BY <1>1
    <2>2. QED
      BY <1>3, <2>1, GroupEdits, Zenon
  <1>6. GroupOK(new) /\ new.org = old.org /\ new.site = old.site
    BY <1>4, <1>5, GroupEdits, Zenon
  <1>7. groups' = [groups EXCEPT ![g] = new]
    <2>1. groups' = [groups EXCEPT ![g].status = status, ![g].regressed = flag]
      BY <1>1, <1>2 DEF Triage
    <2>2. [groups EXCEPT ![g].status = status, ![g].regressed = flag]
             = [groups EXCEPT ![g] = [[groups[g] EXCEPT !.status = status] EXCEPT !.regressed = flag]]
      BY DEF TeamInv, GroupsOK, IsSeq
    <2>3. QED
      BY <1>1, <1>3, <1>4, <2>1, <2>2, Zenon
  <1>8. IsSeq(groups') /\ DOMAIN groups' = DOMAIN groups
    BY <1>7, SeqExcept DEF TeamInv, GroupsOK
  <1>9. \A k \in DOMAIN groups : groups'[k] = IF k = g THEN new ELSE groups[k]
    BY <1>7
  <1>10. GroupsStay
    BY <1>1, <1>6, <1>8, <1>9 DEF GroupsStay
  <1>11. \A k \in DOMAIN groups' : \E x : x = groups'[k] /\ GroupOK(x)
    BY <1>6, <1>8, <1>9 DEF TeamInv, GroupsOK
  <1>12. GroupsOK'
    BY <1>8, <1>11, NextGroups
  <1>13. UNCHANGED <<reports, post, paged, pass, belongs, everBelonged>>
    BY DEF Triage, tenants
  <1>14. ReportsOK' /\ PostsOK' /\ PagesOK' /\ PassOK'
    BY <1>10, <1>13, SameReports, SamePosts, SamePages, SamePass DEF TeamInv
  <1>15. QED
    BY <1>12, <1>13, <1>14 DEF TeamInv

LEMMA CloseSiteKeepsTeams ==
  ASSUME TeamInv, NEW s \in Sites, CloseSite(s)
  PROVE  TeamInv'
  <1>1. /\ groups'  = [g \in DOMAIN groups |->
                      IF groups[g].site = s THEN [groups[g] EXCEPT !.status = "deleted"] ELSE groups[g]]
        /\ reports' = [i \in DOMAIN reports |->
                      IF reports[i].site = s THEN [reports[i] EXCEPT !.group = -1] ELSE reports[i]]
        /\ UNCHANGED <<belongs, everBelonged, post, paged, pass>>
    BY DEF CloseSite
  <1>2. IsSeq(groups) /\ IsSeq(reports)
    BY DEF TeamInv, GroupsOK, ReportsOK
  <1>3. IsSeq(groups') /\ DOMAIN groups' = DOMAIN groups /\ IsSeq(reports') /\ DOMAIN reports' = DOMAIN reports
    <2>1. PICK gs, rs : gs = groups' /\ rs = reports'
      OBVIOUS
    <2>2. gs = [g \in DOMAIN groups |-> gs[g]] /\ rs = [i \in DOMAIN reports |-> rs[i]]
      BY <1>1, <2>1
    <2>3. IsSeq(gs) /\ DOMAIN gs = DOMAIN groups
      BY <1>2, <2>2, MappedSeq
    <2>4. IsSeq(rs) /\ DOMAIN rs = DOMAIN reports
      BY <1>2, <2>2, MappedSeq
    <2>5. QED
      BY <2>1, <2>3, <2>4
  <1>4. ASSUME NEW g \in DOMAIN groups
        PROVE  \E x : x = groups'[g] /\ GroupOK(x) /\ x.org = groups[g].org /\ x.site = groups[g].site
    <2>1. PICK old : old = groups[g] /\ GroupOK(old)
      BY DEF TeamInv, GroupsOK
    <2>2. PICK x : x = groups'[g]
      OBVIOUS
    <2>3. x = old \/ x = [old EXCEPT !.status = "deleted"]
      BY <1>1, <2>1, <2>2
    <2>4. GroupOK(old)
      BY <2>1
    <2>5. PICK closed : closed = [old EXCEPT !.status = "deleted"]
      OBVIOUS
    <2>6. GroupOK(closed) /\ closed.org = old.org /\ closed.site = old.site
      BY <2>4, <2>5, GroupEdits, Zenon
    <2>7. QED
      BY <2>1, <2>2, <2>3, <2>5, <2>6
  <1>5. GroupsOK' /\ GroupsStay
    <2>1. GroupsStay
      BY <1>3, <1>4 DEF GroupsStay
    <2>2. \A g \in DOMAIN groups' : \E x : x = groups'[g] /\ GroupOK(x)
      BY <1>3, <1>4
    <2>3. QED
      BY <1>3, <2>1, <2>2, NextGroups
  <1>6. ASSUME NEW i \in DOMAIN reports'
        PROVE  \E y : y = reports'[i] /\ ReportOK(y)'
    <2>1. PICK r : r = reports[i] /\ ReportOK(r)
      BY <1>3 DEF TeamInv, ReportsOK
    <2>2. PICK y : y = reports'[i]
      OBVIOUS
    <2>3. y = r \/ y = [r EXCEPT !.group = -1]
      BY <1>1, <1>3, <2>1, <2>2
    <2>4. ReportOK(r)'
      BY <1>1, <1>5, <2>1, ReportStays
    <2>5. CASE y = [r EXCEPT !.group = -1]
      <3>1. IsReport(y) /\ y.org = r.org /\ y.site = r.site /\ y.user = r.user /\ y.group = -1
        BY <2>1, <2>5 DEF ReportOK, IsReport
      <3>2. ReportOK(y)'
        BY <1>1, <2>1, <3>1 DEF ReportOK, WhoOK, IsReport
      <3>3. QED
        BY <2>2, <3>2
    <2>6. QED
      BY <2>2, <2>3, <2>4, <2>5
  <1>7. ReportsOK'
    BY <1>3, <1>6, NextReports
  <1>8. PostsOK' /\ PagesOK' /\ PassOK'
    BY <1>1, <1>5, SamePosts, SamePages, SamePass DEF TeamInv
  <1>9. QED
    BY <1>1, <1>5, <1>7, <1>8 DEF TeamInv

LEMMA NothingMovesTeams ==
  ASSUME TeamInv, UNCHANGED <<reports, groups, post, paged, pass, everBelonged>>, belongs' \subseteq belongs
  PROVE  TeamInv'
  <1>1. GroupsStay /\ GroupsOK'
    BY SameGroups DEF TeamInv
  <1>2. ReportsOK' /\ PostsOK' /\ PagesOK' /\ PassOK'
    BY <1>1, SameReports, SamePosts, SamePages, SamePass DEF TeamInv
  <1>3. QED
    BY <1>1, <1>2 DEF TeamInv

LEMMA TeamInitOK == ClientIntakeInit => TeamInv
  <1> SUFFICES ASSUME ClientIntakeInit PROVE TeamInv
    OBVIOUS
  <1>1. reports = <<>> /\ groups = <<>> /\ paged = {} /\ pass = NoPass /\ everBelonged = belongs
        /\ post = [p \in Posts |-> NoPost]
    BY DEF ClientIntakeInit
  <1>2. IsSeq(<<>>) /\ DOMAIN <<>> = {}
    BY DEF IsSeq
  <1>3. PostOK(NoPost)
    BY DEF PostOK, IsPost, WhoOK, NoPost, Nobody
  <1>4. ReportsOK /\ GroupsOK /\ PagesOK /\ PassOK
    BY <1>1, <1>2 DEF ReportsOK, GroupsOK, PagesOK, PassOK, NoPass
  <1>5. PostsOK
    BY <1>1, <1>3 DEF PostsOK
  <1>6. QED
    BY <1>1, <1>4, <1>5 DEF TeamInv

LEMMA TeamNextOK == TeamInv /\ [ClientIntakeNext]_intakeVars => TeamInv'
  <1> SUFFICES ASSUME TeamInv, [ClientIntakeNext]_intakeVars PROVE TeamInv'
    OBVIOUS
  <1>1. CASE UNCHANGED intakeVars \/ Elapse \/ \E u \in Members, o \in Companies : Leave(u, o)
    <2>1. UNCHANGED <<reports, groups, post, paged, pass, everBelonged>> /\ belongs' \subseteq belongs
      BY <1>1 DEF intakeVars, Elapse, Leave, tables, tenants
    <2>2. QED
      BY <2>1, NothingMovesTeams
  <1>2. ASSUME NEW p \in Posts,
               \/ \E a \in Addresses, u \in Members \cup {"none"}, b \in Reports : Receive(p, a, u, b)
               \/ Reporter(p) \/ ResolveProject(p) \/ StoreReports(p)
        PROVE  TeamInv'
    BY <1>2, ReceiveKeepsTeams, ReporterKeepsTeams, ResolveProjectKeepsTeams, StoreReportsKeepsTeams
  <1>3. ASSUME NEW i \in DOMAIN reports, File(i) PROVE TeamInv'
    BY <1>3, FileKeepsTeams
  <1>4. ASSUME NEW g \in DOMAIN groups, NEW status, Triage(g, status) PROVE TeamInv'
    BY <1>4, TriageKeepsTeams
  <1>5. ASSUME NEW s \in Sites, CloseSite(s) PROVE TeamInv'
    BY <1>5, CloseSiteKeepsTeams
  <1>6. QED
    BY <1>1, <1>2, <1>3, <1>4, <1>5, SpikesKeepTeams DEF ClientIntakeNext

\* A crash is filed, paged and listed only for a team its reporter belonged to, whatever the
\* hints of a batch say and whoever leaves between the checks and the insert.
THEOREM ReportsReachOneTeam == ClientIntakeSpec => []ReportsStayInTeam
  <1>1. TeamInv => ReportsStayInTeam
    <2> SUFFICES ASSUME TeamInv PROVE ReportsStayInTeam
      OBVIOUS
    <2>1. ASSUME NEW i \in DOMAIN reports
          PROVE  /\ ReportOK(reports[i]) /\ reports[i].group \in Int
      BY DEF TeamInv, ReportsOK, ReportOK
    <2>2. \A g \in DOMAIN groups : g > 0
      BY DEF TeamInv, GroupsOK, IsSeq
    <2>3. \A i \in DOMAIN reports : \A g \in DOMAIN groups :
             reports[i].group = g => groups[g].org = reports[i].org /\ groups[g].site = reports[i].site
      BY <2>1, <2>2 DEF ReportOK
    <2>4. ASSUME NEW i \in DOMAIN reports
          PROVE  LET r == reports[i] IN
                 /\ r.org # "none" => r.user \in Supers \/ <<r.user, r.org>> \in everBelonged
                 /\ r.site # "none" => CompanyOf[r.site] = r.org
                 /\ r.group > 0 => groups[r.group].org = r.org /\ groups[r.group].site = r.site
      BY <2>1 DEF ReportOK, WhoOK
    <2>5. ASSUME NEW a \in paged, NEW i \in DOMAIN reports, reports[i].group = a.group
          PROVE  reports[i].site = a.site
      <3>1. PageOK(a)
        BY DEF TeamInv, PagesOK
      <3>2. QED
        BY <2>3, <2>5, <3>1 DEF PageOK
    <2>6. ASSUME NEW o \in Companies, NEW s \in Sites \cup {"none"},
                 NEW g \in QueryIssues(o, s) \cup ListSpikes(o, s), NEW i \in DOMAIN reports,
                 reports[i].group = g
          PROVE  reports[i].org = o
      <3>1. g \in DOMAIN groups /\ groups[g].org = o
        BY DEF QueryIssues, ListSpikes, QuerySpikes
      <3>2. QED
        BY <2>3, <2>6, <3>1
    <2>7. QED
      BY <2>4, <2>5, <2>6 DEF ReportsStayInTeam
  <1>2. QED
    BY <1>1, TeamInitOK, TeamNextOK, PTL DEF ClientIntakeSpec

-----------------------------------------------------------------------------
(* ClientIntake: how long a refused address waits. *)

LEMMA MinOfTwo == ASSUME NEW x \in Int, NEW y \in Int
                  PROVE  Min({x, y}) = IF x <= y THEN x ELSE y
  BY DEF Min

LEMMA MaxOfTwo == ASSUME NEW x \in Int, NEW y \in Int
                  PROVE  Max({x, y}) = IF x >= y THEN x ELSE y
  BY DEF Max

LEMMA Rounding == ASSUME NEW d \in Nat, NEW k \in Nat, k > 0
                  PROVE  d \div k \in Nat /\ d < (d \div k + 1) * k
  OBVIOUS

\* The tokens that come in the seconds a refused address is told to wait suffice.
LEMMA WaitIsEnough ==
  ASSUME NEW n \in Nat, NEW tokens \in Nat, tokens < n
  PROVE  \E w \in Nat : w = Wait(n, tokens) * TicksPerSecond /\ tokens + w * TokensPerTick >= n
  <1>1. TicksPerSecond \in Nat /\ TicksPerSecond > 0 /\ TokensPerTick \in Nat /\ TokensPerTick > 0
    BY IntakeAssumption
  <1>2. PICK k \in Nat : k = TokensPerTick * TicksPerSecond /\ k > 0
    BY <1>1
  <1>3. PICK q \in Nat : q = (n - tokens) \div k /\ n - tokens < (q + 1) * k
    BY <1>2, Rounding
  <1>4. Wait(n, tokens) = q + 1
    BY <1>2, <1>3, MaxOfTwo DEF Wait
  <1>5. ((q + 1) * TicksPerSecond) * TokensPerTick = (q + 1) * k
    BY <1>1, <1>2
  <1>6. PICK w \in Nat : w = (q + 1) * TicksPerSecond
    BY <1>1
  <1>7. tokens + w * TokensPerTick >= n
    BY <1>2, <1>3, <1>5, <1>6
  <1>8. QED
    BY <1>4, <1>6, <1>7

\* A bucket there is was used by now.
BucketOK(b) == \/ b = NoBucket
               \/ /\ b = [tokens |-> b.tokens, last |-> b.last]
                  /\ b.tokens \in 0 .. IpBurst /\ b.last \in 0 .. instant

\* When a refused address may come again, its bucket will hold what it asked for.
AskedOK(q, b) == \/ q = NotAsked
                 \/ /\ q.n \in 1 .. IpBurst /\ q.from \in Nat
                    /\ b = NoBucket \/ b.tokens + (q.from - b.last) * TokensPerTick >= q.n

WaitInv == /\ instant \in Nat /\ swept \in Nat
           /\ ipBuckets = [a \in Addresses |-> ipBuckets[a]]
           /\ asked = [a \in Addresses |-> asked[a]]
           /\ \A a \in Addresses : BucketOK(ipBuckets[a]) /\ AskedOK(asked[a], ipBuckets[a])

LEMMA RefilledOK ==
  ASSUME instant \in Nat, NEW b, BucketOK(b)
  PROVE  Refilled(b) \in 0 .. IpBurst
  <1>1. IpBurst \in Nat /\ TokensPerTick \in Nat
    BY IntakeAssumption
  <1>2. CASE b = NoBucket
    BY <1>1, <1>2 DEF Refilled
  <1>3. CASE b # NoBucket
    <2>1. b.tokens \in 0 .. IpBurst /\ b.last \in 0 .. instant
      BY <1>3 DEF BucketOK
    <2>2. PICK t \in Nat : t = (instant - b.last) * TokensPerTick
      BY <1>1, <2>1
    <2>3. Refilled(b) = Min({IpBurst, b.tokens + t})
      BY <1>3, <2>2 DEF Refilled
    <2>4. QED
      BY <1>1, <2>1, <2>2, <2>3, MinOfTwo
  <1>4. QED
    BY <1>2, <1>3

\* The sweep of idle buckets makes nobody wait longer.
LEMMA SweptOK ==
  ASSUME WaitInv, NEW a \in Addresses
  PROVE  /\ Swept(ipBuckets) = [c \in Addresses |-> Swept(ipBuckets)[c]]
         /\ Swept(ipBuckets)[a] \in {ipBuckets[a], NoBucket}
         /\ BucketOK(Swept(ipBuckets)[a]) /\ AskedOK(asked[a], Swept(ipBuckets)[a])
  BY DEF WaitInv, Swept, BucketOK, AskedOK

LEMMA ReceiveKeepsWaits ==
  ASSUME WaitInv, NEW p \in Posts, NEW a \in Addresses, NEW u, NEW batch \in Reports, Receive(p, a, u, batch)
  PROVE  WaitInv'
  <1>1. instant \in Nat /\ swept \in Nat /\ asked = [c \in Addresses |-> asked[c]]
    BY DEF WaitInv
  <1>2. PICK n : n = Len(batch) /\ n \in 1 .. IpBurst
    BY IntakeAssumption
  <1>3. IpBurst \in Nat
    BY IntakeAssumption
  <1>4. PICK b : /\ b = Swept(ipBuckets)
                 /\ b = [c \in Addresses |-> b[c]]
                 /\ \A c \in Addresses : BucketOK(b[c]) /\ AskedOK(asked[c], b[c])
    BY SweptOK
  <1>5. PICK tokens \in 0 .. IpBurst : tokens = Refilled(b[a])
    BY <1>1, <1>4, RefilledOK
  <1>6. instant' = instant /\ swept' \in Nat
    BY <1>1 DEF Receive
  <1>7. CASE tokens >= n
    <2>1. PICK new : new = [tokens |-> tokens - n, last |-> instant]
      OBVIOUS
    <2>2. ipBuckets' = [b EXCEPT ![a] = new] /\ asked' = [asked EXCEPT ![a] = NotAsked]
      BY <1>2, <1>4, <1>5, <1>7, <2>1 DEF Receive
    <2>3. BucketOK(new)
      BY <1>1, <1>2, <1>3, <1>7, <2>1 DEF BucketOK
    <2>4. ASSUME NEW c \in Addresses PROVE BucketOK(ipBuckets[c])' /\ AskedOK(asked[c], ipBuckets[c])'
      BY <1>1, <1>4, <1>6, <2>2, <2>3 DEF BucketOK, AskedOK
    <2>5. QED
      BY <1>1, <1>4, <1>6, <2>2, <2>4 DEF WaitInv
  <1>8. CASE ~(tokens >= n)
    <2>1. PICK new : new = [tokens |-> tokens, last |-> instant]
      OBVIOUS
    <2>w. PICK w \in Nat : w = Wait(n, tokens) * TicksPerSecond /\ tokens + w * TokensPerTick >= n
      <3>1. n \in Nat /\ tokens \in Nat /\ tokens < n
        BY <1>2, <1>3, <1>8
      <3>2. QED
        BY <3>1, WaitIsEnough
    <2>2. PICK from \in Nat : from = instant + w
      BY <1>1
    <2>3. PICK q : q = [n |-> n, from |-> from]
      OBVIOUS
    <2>4. ipBuckets' = [b EXCEPT ![a] = new] /\ asked' = [asked EXCEPT ![a] = q]
      BY <1>2, <1>4, <1>5, <1>8, <2>1, <2>w, <2>2, <2>3 DEF Receive
    <2>5. BucketOK(new)
      BY <1>1, <1>3, <2>1 DEF BucketOK
    <2>6. from - instant = w
      BY <1>1, <2>2
    <2>7. AskedOK(q, new)
      BY <1>2, <2>w, <2>1, <2>3, <2>6 DEF AskedOK
    <2>8. ASSUME NEW c \in Addresses PROVE BucketOK(ipBuckets[c])' /\ AskedOK(asked[c], ipBuckets[c])'
      <3>1. BucketOK(ipBuckets[c])'
        BY <1>4, <1>6, <2>4, <2>5 DEF BucketOK
      <3>2. AskedOK(asked[c], ipBuckets[c])'
        BY <1>1, <1>4, <1>6, <2>4, <2>7 DEF AskedOK
      <3>3. QED
        BY <3>1, <3>2
    <2>9. QED
      BY <1>1, <1>4, <1>6, <2>4, <2>8 DEF WaitInv
  <1>9. QED
    BY <1>7, <1>8

LEMMA WaitInitOK == ClientIntakeInit => WaitInv
  BY DEF ClientIntakeInit, WaitInv, BucketOK, AskedOK

LEMMA WaitNextOK == WaitInv /\ [ClientIntakeNext]_intakeVars => WaitInv'
  <1> SUFFICES ASSUME WaitInv, [ClientIntakeNext]_intakeVars PROVE WaitInv'
    OBVIOUS
  <1>1. ASSUME UNCHANGED limiter, instant' \in Nat, instant' >= instant PROVE WaitInv'
    BY <1>1 DEF limiter, WaitInv, BucketOK, AskedOK
  <1>2. CASE UNCHANGED intakeVars
    BY <1>1, <1>2 DEF intakeVars, limiter, WaitInv
  <1>3. CASE Elapse
    BY <1>1, <1>3 DEF Elapse, WaitInv
  <1>4. ASSUME NEW p \in Posts, NEW a \in Addresses, NEW u \in Members \cup {"none"}, NEW b \in Reports,
               Receive(p, a, u, b)
        PROVE  WaitInv'
    BY <1>4, ReceiveKeepsWaits
  <1>5. ASSUME NEW p \in Posts, Reporter(p) \/ ResolveProject(p) \/ StoreReports(p) PROVE WaitInv'
    <2>1. UNCHANGED <<instant, limiter>>
      BY <1>5 DEF Reporter, ResolveProject, StoreReports
    <2>2. QED
      BY <1>1, <2>1 DEF WaitInv
  <1>6. CASE \/ \E i \in DOMAIN reports : File(i)
             \/ EvaluateSpikes
             \/ \E g \in pass.todo : IssueSpiked(g)
             \/ \E g \in DOMAIN groups, status \in {"resolved", "ignored", "unresolved"} : Triage(g, status)
             \/ \E u \in Members, o \in Companies : Leave(u, o)
             \/ \E s \in Sites : CloseSite(s)
    <2>1. UNCHANGED <<instant, limiter>>
      BY <1>6 DEF File, EvaluateSpikes, IssueSpiked, Triage, Leave, CloseSite
    <2>2. QED
      BY <1>1, <2>1 DEF WaitInv
  <1>7. QED
    BY <1>2, <1>3, <1>4, <1>5, <1>6 DEF ClientIntakeNext

\* A refused address that comes back when it was told to, asking for no more, is served:
\* neither the rounding of the wait to whole seconds nor the sweep makes it wait again.
THEOREM RefusedAreServedWhenTold == ClientIntakeSpec => []AskedWaitSuffices
  <1>1. WaitInv => AskedWaitSuffices
    <2> SUFFICES ASSUME WaitInv, NEW a \in Addresses, asked[a] # NotAsked, instant >= asked[a].from
                 PROVE  Refilled(Swept(ipBuckets)[a]) >= asked[a].n
      BY DEF AskedWaitSuffices
    <2>1. instant \in Nat /\ IpBurst \in Nat /\ TokensPerTick \in Nat
      BY IntakeAssumption DEF WaitInv
    <2>2. PICK b : b = Swept(ipBuckets)[a] /\ BucketOK(b) /\ AskedOK(asked[a], b)
      BY SweptOK
    <2>3. PICK n, from : n = asked[a].n /\ from = asked[a].from /\ n \in 1 .. IpBurst /\ from \in Nat
      BY <2>2 DEF AskedOK
    <2>4. CASE b = NoBucket
      BY <2>1, <2>2, <2>3, <2>4 DEF Refilled
    <2>5. CASE b # NoBucket
      <3>1. b.tokens \in 0 .. IpBurst /\ b.last \in 0 .. instant
            /\ b.tokens + (from - b.last) * TokensPerTick >= n
        BY <2>2, <2>3, <2>5 DEF BucketOK, AskedOK
      <3>2. (from - b.last) * TokensPerTick <= (instant - b.last) * TokensPerTick
        BY <2>1, <2>3, <3>1, MoreIsMore
      <3>3. PICK t \in Int : t = (instant - b.last) * TokensPerTick /\ b.tokens + t >= n
        BY <2>1, <2>3, <3>1, <3>2
      <3>4. Refilled(b) = Min({IpBurst, b.tokens + t})
        BY <2>5, <3>3 DEF Refilled
      <3>5. QED
        BY <2>1, <2>2, <2>3, <3>1, <3>3, <3>4, MinOfTwo
    <2>6. QED
      BY <2>4, <2>5
  <1>2. QED
    BY <1>1, WaitInitOK, WaitNextOK, PTL DEF ClientIntakeSpec

-----------------------------------------------------------------------------
(* ClientIntake: which crash an issue is of, and since when. *)

\* What the browsers saw
Sights == UNION {{b[k].sight : k \in DOMAIN b} : b \in Reports}

\* A report is filed under a live issue of its fingerprint, seen first no later than it.
FiledOK(r, gs) ==
    /\ r.sight \in Sights /\ r.at \in Int /\ r.sampled \in Int
    /\ r.group > 0 => /\ gs[r.group].crash = Fingerprint(r.sight)
                      /\ gs[r.group].status # "deleted" /\ gs[r.group].first <= r.at

\* A live issue was first seen when one of its reports was.
SeenOK(g, id, rs) ==
    /\ g.first \in Int
    /\ g.status # "deleted" => \E i \in DOMAIN rs : rs[i].group = id /\ rs[i].at = g.first

\* Live issues of one place differ in their fingerprint.
Apart(gs) ==
    \A g, h \in DOMAIN gs :
        (/\ g # h /\ gs[g].status # "deleted" /\ gs[h].status # "deleted"
         /\ gs[g].org = gs[h].org /\ gs[g].site = gs[h].site) => gs[g].crash # gs[h].crash

FilesOK(rs, gs) == \A i \in DOMAIN rs : FiledOK(rs[i], gs)
AllSeen(rs, gs) == \A g \in DOMAIN gs : SeenOK(gs[g], g, rs)

CrashInv == /\ TeamInv /\ instant \in Nat
            /\ FilesOK(reports, groups) /\ AllSeen(reports, groups) /\ Apart(groups)

\* What is known of a stored report and of an issue.
LEMMA Stored ==
  ASSUME CrashInv
  PROVE  /\ IsSeq(reports) /\ IsSeq(groups)
         /\ \A i \in DOMAIN reports : ReportOK(reports[i]) /\ FiledOK(reports[i], groups)
         /\ \A g \in DOMAIN groups : GroupOK(groups[g]) /\ SeenOK(groups[g], g, reports) /\ g > 0
  <1>1. IsSeq(groups)
    BY DEF CrashInv, TeamInv, GroupsOK
  <1>2. \A g \in DOMAIN groups : g > 0
    BY <1>1, SeqFacts
  <1>3. QED
    BY <1>1, <1>2 DEF CrashInv, TeamInv, GroupsOK, ReportsOK, FilesOK, AllSeen

\* A step that touches neither reports nor issues.
LEMMA NothingFiled ==
  ASSUME CrashInv, TeamInv', instant' \in Nat, UNCHANGED <<reports, groups>>
  PROVE  CrashInv'
  <1>1. PICK rs, gs : rs = reports /\ gs = groups
    OBVIOUS
  <1>2. FilesOK(rs, gs) /\ AllSeen(rs, gs) /\ Apart(gs)
    BY <1>1 DEF CrashInv
  <1>3. reports' = rs /\ groups' = gs
    BY <1>1
  <1>4. QED
    BY <1>2, <1>3 DEF CrashInv

\* Rows that are not filed yet harm nothing.
LEMMA Unfiled ==
  ASSUME NEW rs, NEW gs, FilesOK(rs, gs), AllSeen(rs, gs), NEW rs2, DOMAIN rs \subseteq DOMAIN rs2,
         \A i \in DOMAIN rs : rs2[i] = rs[i],
         \A i \in DOMAIN rs2 : i \notin DOMAIN rs => FiledOK(rs2[i], gs)
  PROVE  FilesOK(rs2, gs) /\ AllSeen(rs2, gs)
  <1>1. FilesOK(rs2, gs)
    BY DEF FilesOK
  <1>2. ASSUME NEW g \in DOMAIN gs PROVE SeenOK(gs[g], g, rs2)
    BY DEF AllSeen, SeenOK
  <1>3. QED
    BY <1>1, <1>2 DEF AllSeen

\* A new row of a stored batch.
LEMMA NewReportOK ==
  ASSUME instant \in Nat, NEW b \in Reports, NEW k \in DOMAIN b, NEW who, NEW gs
  PROVE  FiledOK(NewReport(who, b[k]), gs)
  <1>1. b[k].at \in Int /\ b[k].sampled \in Int /\ b[k].sight \in Sights
    BY IntakeAssumption DEF Sights
  <1>2. PICK at \in Int : at = Occurred(b[k].at)
    BY <1>1 DEF Occurred
  <1>3. PICK n \in Int : n = Max({b[k].sampled, 1})
    <2>1. Max({b[k].sampled, 1}) = IF b[k].sampled > 1 THEN b[k].sampled ELSE 1
      BY <1>1, MaxOfTwo
    <2>2. QED
      BY <2>1, <1>1
  <1>4. PICK r : r = NewReport(who, b[k])
    OBVIOUS
  <1>5. r.sight = b[k].sight /\ r.at = at /\ r.sampled = n /\ r.group = 0
    BY <1>2, <1>3, <1>4 DEF NewReport
  <1>6. QED
    BY <1>1, <1>4, <1>5 DEF FiledOK

LEMMA StoreReportsCrash ==
  ASSUME CrashInv, NEW p \in Posts, StoreReports(p)
  PROVE  CrashInv'
  <1>1. TeamInv' /\ instant' \in Nat /\ groups' = groups
    BY StoreReportsKeepsTeams DEF CrashInv, StoreReports
  <1>2. PICK y : y = post[p] /\ PostOK(y)
    BY DEF CrashInv, TeamInv, PostsOK
  <1>3. PICK t : t = [i \in DOMAIN y.batch |-> NewReport(y.who, y.batch[i])]
    OBVIOUS
  <1>4. y.batch \in Reports \cup {<<>>} /\ DOMAIN t = DOMAIN y.batch
    BY <1>2, <1>3 DEF PostOK
  <1>5. IsSeq(t)
    <2>1. PICK n \in Nat : DOMAIN y.batch = 1 .. n
      <3>1. CASE y.batch \in Reports
        BY <3>1, IntakeAssumption
      <3>2. CASE y.batch = <<>>
        <4>1. DOMAIN y.batch = 1 .. 0
          BY <3>2
        <4>2. QED
          BY <4>1
      <3>3. QED
        BY <3>1, <3>2, <1>4
    <2>2. t \in [1 .. n -> {t[i] : i \in DOMAIN t}]
      BY <2>1, <1>3
    <2>3. QED
      BY <2>2, FunctionSeq
  <1>6. ASSUME NEW k \in DOMAIN t PROVE FiledOK(t[k], groups)
    <2>1. y.batch \in Reports
      BY <1>4
    <2>2. FiledOK(NewReport(y.who, y.batch[k]), groups)
      BY <2>1, <1>4, NewReportOK DEF CrashInv
    <2>3. QED
      BY <1>3, <1>4, <2>2
  <1>7. PICK rs, gs, rs2 : rs = reports /\ gs = groups /\ rs2 = reports'
    OBVIOUS
  <1>8. rs2 = rs \/ rs2 = rs \o t
    BY <1>2, <1>3, <1>7 DEF StoreReports
  <1>9. FilesOK(rs, gs) /\ AllSeen(rs, gs) /\ Apart(gs) /\ IsSeq(rs)
    BY <1>7, Stored DEF CrashInv
  <1>10. FilesOK(rs2, gs) /\ AllSeen(rs2, gs)
    <2>1. CASE rs2 = rs
      BY <2>1, <1>9
    <2>2. CASE rs2 = rs \o t
      <3>c. /\ DOMAIN rs \subseteq DOMAIN (rs \o t) /\ \A i \in DOMAIN rs : (rs \o t)[i] = rs[i]
            /\ \A i \in DOMAIN (rs \o t) : i \notin DOMAIN rs => \E k \in DOMAIN t : (rs \o t)[i] = t[k]
        <4>1. IsSeq(rs) /\ IsSeq(t)
          BY <1>5, <1>9
        <4>2. QED
          <5>1. DOMAIN rs \subseteq DOMAIN (rs \o t)
            BY <4>1, ConcatSeq
          <5>2. \A i \in DOMAIN rs : (rs \o t)[i] = rs[i]
            BY <4>1, ConcatSeq
          <5>3. \A i \in DOMAIN (rs \o t) : i \notin DOMAIN rs => \E k \in DOMAIN t : (rs \o t)[i] = t[k]
            BY <4>1, ConcatSeq
          <5>4. QED
            BY <5>1, <5>2, <5>3
      <3>1. /\ DOMAIN rs \subseteq DOMAIN rs2 /\ \A i \in DOMAIN rs : rs2[i] = rs[i]
            /\ \A i \in DOMAIN rs2 : i \notin DOMAIN rs => \E k \in DOMAIN t : rs2[i] = t[k]
        BY <2>2, <3>c, Zenon
      <3>2. \A i \in DOMAIN rs2 : i \notin DOMAIN rs => FiledOK(rs2[i], gs)
        BY <3>1, <1>6, <1>7
      <3>3. QED
        BY <3>1, <3>2, <1>9, Unfiled
    <2>3. QED
      BY <2>1, <2>2, <1>8
  <1>11. reports' = rs2 /\ groups' = gs
    BY <1>1, <1>7
  <1>12. QED
    BY <1>1, <1>9, <1>10, <1>11 DEF CrashInv

\* What another sighting leaves of an issue.
LEMMA TouchedFields ==
  ASSUME NEW g, GroupOK(g), g.first \in Int, NEW r, r.at \in Int
  PROVE  /\ TouchedGroup(g, r).crash = g.crash
         /\ g.status # "deleted" => TouchedGroup(g, r).status # "deleted"
         /\ TouchedGroup(g, r).first \in Int
         /\ TouchedGroup(g, r).first <= g.first /\ TouchedGroup(g, r).first <= r.at
         /\ TouchedGroup(g, r).first \in {g.first, r.at}
  <1>1. PICK first, last, n : first = Min({g.first, r.at}) /\ last = Max({g.last, r.at}) /\ n = g.count + r.sampled
    OBVIOUS
  <1>2. first = IF g.first <= r.at THEN g.first ELSE r.at
    BY <1>1, MinOfTwo
  <1>3. PICK status : status = IF g.status = "resolved" THEN "unresolved" ELSE g.status
    OBVIOUS
  <1>4. PICK back \in BOOLEAN : back = (g.regressed \/ g.status = "resolved")
    BY (g.regressed \/ g.status = "resolved") \in BOOLEAN
  <1>5. PICK t : t = TouchedGroup(g, r)
    OBVIOUS
  <1>6. t = [g EXCEPT !.first = first, !.last = last, !.count = n, !.status = status, !.regressed = back]
    BY <1>1, <1>3, <1>4, <1>5, Zenon DEF TouchedGroup
  <1>7. t.crash = g.crash /\ t.first = first /\ t.status = status
    BY <1>6 DEF GroupOK, IsGroup
  <1>8. QED
    BY <1>2, <1>3, <1>5, <1>7

\* A report is filed: the issue it goes under is of its fingerprint and place, and the
\* others stay.
Files(rs, gs, i, id, new, rs2, gs2) ==
    /\ IsSeq(rs) /\ FilesOK(rs, gs) /\ AllSeen(rs, gs) /\ Apart(gs)
    /\ \A g \in DOMAIN gs : g > 0
    /\ \A k \in DOMAIN rs : rs[k].group > 0 => rs[k].group \in DOMAIN gs
    /\ i \in DOMAIN rs /\ IsReport(rs[i]) /\ rs[i].group = 0
    /\ id \in Int /\ id > 0
    /\ DOMAIN gs2 = DOMAIN gs \cup {id} /\ gs2[id] = new
    /\ \A g \in DOMAIN gs : g # id => gs2[g] = gs[g]
    /\ rs2 = [rs EXCEPT ![i].group = id]
    /\ new.org = rs[i].org /\ new.site = rs[i].site /\ new.crash = Fingerprint(rs[i].sight)
    /\ new.status # "deleted" /\ new.first \in Int /\ new.first <= rs[i].at
    /\ \/ /\ id \notin DOMAIN gs /\ new.first = rs[i].at
          /\ \A g \in DOMAIN gs : (/\ gs[g].status # "deleted" /\ gs[g].org = new.org
                                    /\ gs[g].site = new.site) => gs[g].crash # new.crash
       \/ /\ id \in DOMAIN gs /\ gs[id].status # "deleted" /\ new.org = gs[id].org /\ new.site = gs[id].site
          /\ new.crash = gs[id].crash /\ new.first <= gs[id].first /\ new.first \in {gs[id].first, rs[i].at}

LEMMA FiledRight ==
  ASSUME NEW rs, NEW gs, NEW i, NEW id, NEW new, NEW rs2, NEW gs2, Files(rs, gs, i, id, new, rs2, gs2)
  PROVE  FilesOK(rs2, gs2) /\ AllSeen(rs2, gs2) /\ Apart(gs2)
  <1> USE DEF Files
  <1>1. PICK r, x : r = rs[i] /\ x = [r EXCEPT !.group = id]
    OBVIOUS
  <1>2. x.group = id /\ x.sight = r.sight /\ x.at = r.at /\ x.sampled = r.sampled
    BY <1>1 DEF IsReport
  <1>3. DOMAIN rs2 = DOMAIN rs /\ \A k \in DOMAIN rs : rs2[k] = IF k = i THEN x ELSE rs[k]
    <2>1. rs2 = [rs EXCEPT ![i] = x]
      BY <1>1
    <2>2. QED
      BY <2>1, SeqExcept
  <1>4. FilesOK(rs2, gs2)
    <2>1. ASSUME NEW k \in DOMAIN rs PROVE FiledOK(rs2[k], gs2)
      <3>1. CASE k = i
        BY <1>1, <1>2, <1>3, <3>1 DEF FilesOK, FiledOK
      <3>2. CASE k # i
        <4>1. PICK y : y = rs[k] /\ y = rs2[k] /\ FiledOK(y, gs)
          BY <1>3, <3>2 DEF FilesOK
        <4>2. CASE y.group > 0 /\ y.group = id
          <5>1. id \in DOMAIN gs /\ gs[id].first \in Int /\ gs[id].first <= y.at /\ y.at \in Int
            BY <4>1, <4>2, <1>3 DEF FiledOK, AllSeen, SeenOK
          <5>2. new.crash = gs[id].crash /\ new.first <= gs[id].first /\ gs2[id] = new
            BY <5>1
          <5>3. new.first <= y.at
            BY <5>1, <5>2
          <5>4. QED
            BY <4>1, <4>2, <5>2, <5>3 DEF FiledOK
        <4>3. CASE ~(y.group > 0 /\ y.group = id)
          BY <4>1, <4>3 DEF FiledOK, FilesOK
        <4>4. QED
          BY <4>2, <4>3
      <3>3. QED
        BY <3>1, <3>2
    <2>2. QED
      BY <1>3, <2>1 DEF FilesOK
  <1>5. ASSUME NEW g \in DOMAIN gs2 PROVE SeenOK(gs2[g], g, rs2)
    <2>1. CASE g # id
      <3>1. g \in DOMAIN gs /\ gs2[g] = gs[g] /\ SeenOK(gs[g], g, rs)
        BY <2>1 DEF AllSeen
      <3>2. \A k \in DOMAIN rs : rs[k].group = g => k # i /\ rs2[k] = rs[k]
        BY <1>3, <3>1
      <3>3. QED
        BY <1>3, <3>1, <3>2 DEF SeenOK
    <2>2. CASE g = id
      <3>1. CASE new.first = r.at
        BY <1>1, <1>2, <1>3, <2>2, <3>1 DEF SeenOK
      <3>2. CASE new.first # r.at
        <4>1. id \in DOMAIN gs /\ gs[id].status # "deleted" /\ new.first = gs[id].first
          BY <1>1, <3>2
        <4>2. PICK k \in DOMAIN rs : rs[k].group = id /\ rs[k].at = new.first
          BY <4>1 DEF AllSeen, SeenOK
        <4>3. k # i /\ rs2[k] = rs[k]
          BY <1>3, <4>2
        <4>4. QED
          BY <1>3, <2>2, <4>2, <4>3 DEF SeenOK
      <3>3. QED
        BY <3>1, <3>2
    <2>3. QED
      BY <2>1, <2>2
  <1>6. Apart(gs2)
    <2>1. ASSUME NEW g \in DOMAIN gs, g # id, gs[g].status # "deleted", gs[g].org = new.org, gs[g].site = new.site
          PROVE  gs[g].crash # new.crash
      BY <2>1 DEF Apart
    <2>2. QED
      BY <2>1 DEF Apart
  <1>7. QED
    BY <1>4, <1>5, <1>6 DEF AllSeen

LEMMA FileCrash ==
  ASSUME CrashInv, NEW i \in DOMAIN reports, File(i)
  PROVE  CrashInv'
  <1>1. PICK r : r = reports[i] /\ ReportOK(r) /\ FiledOK(r, groups)
    BY Stored
  <1>2. PICK alike : alike = {g \in DOMAIN groups : /\ groups[g].status # "deleted"
                                                   /\ SameScope(groups[g], r)
                                                   /\ groups[g].crash = Fingerprint(r.sight)}
    OBVIOUS
  <1>3. PICK id : id = IF alike = {} THEN Len(groups) + 1 ELSE CHOOSE g \in alike : TRUE
    OBVIOUS
  <1>4. PICK new : new = IF alike = {} THEN OpenedGroup(r) ELSE TouchedGroup(groups[id], r)
    OBVIOUS
  <1>5. PICK rs, gs, rs2, gs2 : rs = reports /\ gs = groups /\ rs2 = reports' /\ gs2 = groups'
    OBVIOUS
  <1>6. /\ gs2 = IF alike = {} THEN Append(gs, new) ELSE [gs EXCEPT ![id] = new]
        /\ rs2 = [rs EXCEPT ![i].group = id] /\ r.group = 0 /\ instant' = instant
    BY <1>1, <1>2, <1>3, <1>4, <1>5 DEF File
  <1>7. /\ IsSeq(rs) /\ IsSeq(gs) /\ FilesOK(rs, gs) /\ AllSeen(rs, gs) /\ Apart(gs)
        /\ \A g \in DOMAIN gs : g > 0 /\ GroupOK(gs[g]) /\ SeenOK(gs[g], g, rs)
        /\ \A k \in DOMAIN rs : rs[k].group > 0 => rs[k].group \in DOMAIN gs
        /\ IsReport(rs[i]) /\ rs[i] = r /\ i \in DOMAIN rs
    BY <1>1, <1>5, Stored DEF CrashInv, ReportOK
  <1>8. WhoOK(r.user, r.org, r.site) /\ r.at \in Int
    BY <1>1 DEF ReportOK, FiledOK
  <1>9. FilesOK(rs2, gs2) /\ AllSeen(rs2, gs2) /\ Apart(gs2)
    <2>1. CASE alike = {}
      <3>1. id = Len(gs) + 1 /\ gs2 = Append(gs, new) /\ new = OpenedGroup(r)
        BY <1>3, <1>4, <1>5, <1>6, <2>1
      <3>2. /\ DOMAIN gs2 = DOMAIN gs \cup {id} /\ id \in Int /\ id > 0 /\ gs2[id] = new
            /\ id \notin DOMAIN gs /\ \A g \in DOMAIN gs : gs2[g] = gs[g]
        BY <1>7, <3>1, AppendSeq
      <3>3. /\ new.org = r.org /\ new.site = r.site /\ new.crash = Fingerprint(r.sight)
            /\ new.status = "unresolved" /\ new.first = r.at
        BY <3>1 DEF OpenedGroup
      <3>4. ASSUME NEW g \in DOMAIN gs, gs[g].status # "deleted", gs[g].org = new.org, gs[g].site = new.site
            PROVE  gs[g].crash # new.crash
        <4>1. SameScope(gs[g], r)
          BY <3>3, <3>4 DEF SameScope
        <4>2. QED
          BY <1>2, <1>5, <2>1, <3>3, <3>4, <4>1
      <3>5. QED
        <4>1. Files(rs, gs, i, id, new, rs2, gs2)
          BY <1>6, <1>7, <1>8, <3>2, <3>3, <3>4 DEF Files
        <4>2. QED
          BY <4>1, FiledRight
    <2>2. CASE alike # {}
      <3>1. id \in alike /\ gs2 = [gs EXCEPT ![id] = new] /\ new = TouchedGroup(gs[id], r)
        BY <1>3, <1>4, <1>5, <1>6, <2>2
      <3>2. PICK old : old = gs[id] /\ GroupOK(old) /\ SeenOK(old, id, rs)
                       /\ old.status # "deleted" /\ SameScope(old, r) /\ old.crash = Fingerprint(r.sight)
        BY <1>2, <1>5, <1>7, <3>1
      <3>3. id \in DOMAIN gs /\ id \in Int /\ id > 0
        BY <1>2, <1>5, <1>7, <3>1, SeqFacts
      <3>4. new.org = old.org /\ new.site = old.site
        BY <3>1, <3>2, TouchedStays
      <3>5. old.org = r.org /\ old.site = r.site
        BY <1>8, <3>2 DEF GroupOK, WhoOK, SameScope
      <3>6. /\ new.crash = old.crash /\ new.status # "deleted" /\ new.first \in Int
            /\ new.first <= old.first /\ new.first <= r.at /\ new.first \in {old.first, r.at}
        BY <1>8, <3>1, <3>2, TouchedFields DEF SeenOK
      <3>7. /\ DOMAIN gs2 = DOMAIN gs \cup {id} /\ gs2[id] = new
            /\ \A g \in DOMAIN gs : g # id => gs2[g] = gs[g]
        BY <3>1, <3>3
      <3>8. QED
        <4>1. Files(rs, gs, i, id, new, rs2, gs2)
          BY <1>6, <1>7, <3>2, <3>3, <3>4, <3>5, <3>6, <3>7 DEF Files
        <4>2. QED
          BY <4>1, FiledRight
    <2>3. QED
      BY <2>1, <2>2
  <1>10. TeamInv' /\ instant' \in Nat
    BY <1>6, FileKeepsTeams DEF CrashInv
  <1>11. QED
    BY <1>5, <1>9, <1>10 DEF CrashInv

LEMMA TriageCrash ==
  ASSUME CrashInv, NEW g \in DOMAIN groups, NEW status, status # "deleted", Triage(g, status)
  PROVE  CrashInv'
  <1>1. PICK old : old = groups[g] /\ GroupOK(old) /\ SeenOK(old, g, reports)
    BY Stored
  <1>2. PICK flag \in BOOLEAN : flag = (old.regressed /\ status # "resolved")
    BY (old.regressed /\ status # "resolved") \in BOOLEAN
  <1>3. PICK new : new = [old EXCEPT !.status = status, !.regressed = flag]
    OBVIOUS
  <1>4. /\ new.first = old.first /\ new.crash = old.crash /\ new.org = old.org /\ new.site = old.site
        /\ new.status = status
    BY <1>1, <1>3 DEF GroupOK, IsGroup
  <1>5. PICK rs, gs, gs2 : rs = reports /\ gs = groups /\ gs2 = groups'
    OBVIOUS
  <1>6. old.status # "deleted" /\ reports' = rs /\ instant' = instant
    BY <1>1, <1>5 DEF Triage
  <1>7. gs2 = [gs EXCEPT ![g] = new]
    <2>1. gs2 = [gs EXCEPT ![g].status = status, ![g].regressed = flag]
      BY <1>1, <1>2, <1>5 DEF Triage
    <2>2. [gs EXCEPT ![g].status = status, ![g].regressed = flag]
             = [gs EXCEPT ![g] = [gs[g] EXCEPT !.status = status, !.regressed = flag]]
      BY <1>5, Stored DEF IsSeq
    <2>3. QED
      BY <1>1, <1>3, <1>5, <2>1, <2>2
  <1>8. DOMAIN gs2 = DOMAIN gs /\ \A k \in DOMAIN gs : gs2[k] = IF k = g THEN new ELSE gs[k]
    BY <1>7
  <1>9. FilesOK(rs, gs) /\ AllSeen(rs, gs) /\ Apart(gs)
    BY <1>5 DEF CrashInv
  <1>10. \A i \in DOMAIN rs : ReportOK(rs[i])
    BY <1>5, Stored
  <1>11. FilesOK(rs, gs2)
    <2>1. ASSUME NEW i \in DOMAIN rs, rs[i].group > 0 PROVE rs[i].group \in DOMAIN gs
      BY <1>5, <1>10, <2>1 DEF ReportOK
    <2>2. QED
      BY <1>1, <1>4, <1>5, <1>6, <1>8, <1>9, <2>1 DEF FilesOK, FiledOK
  <1>12. AllSeen(rs, gs2)
    BY <1>1, <1>4, <1>5, <1>6, <1>8, <1>9 DEF AllSeen, SeenOK
  <1>13. Apart(gs2)
    BY <1>1, <1>4, <1>5, <1>6, <1>8, <1>9 DEF Apart
  <1>14. TeamInv' /\ instant' \in Nat
    BY <1>6, TriageKeepsTeams DEF CrashInv
  <1>15. QED
    BY <1>5, <1>6, <1>11, <1>12, <1>13, <1>14 DEF CrashInv

LEMMA CloseSiteCrash ==
  ASSUME CrashInv, NEW s \in Sites, CloseSite(s)
  PROVE  CrashInv'
  <1>1. PICK rs, gs, rs2, gs2 : rs = reports /\ gs = groups /\ rs2 = reports' /\ gs2 = groups'
    OBVIOUS
  <1>2. /\ gs2 = [g \in DOMAIN gs |-> IF gs[g].site = s THEN [gs[g] EXCEPT !.status = "deleted"] ELSE gs[g]]
        /\ rs2 = [i \in DOMAIN rs |-> IF rs[i].site = s THEN [rs[i] EXCEPT !.group = -1] ELSE rs[i]]
        /\ instant' = instant
    BY <1>1 DEF CloseSite
  <1>3. /\ \A g \in DOMAIN gs : GroupOK(gs[g]) /\ SeenOK(gs[g], g, rs) /\ g > 0
        /\ \A i \in DOMAIN rs : ReportOK(rs[i]) /\ FiledOK(rs[i], gs)
        /\ Apart(gs)
    BY <1>1, Stored DEF CrashInv
  <1>4. ASSUME NEW i \in DOMAIN rs, rs[i].group > 0
        PROVE  rs[i].group \in DOMAIN gs /\ gs[rs[i].group].site = rs[i].site
    BY <1>1, <1>3, <1>4 DEF ReportOK
  <1>5. DOMAIN gs2 = DOMAIN gs /\ DOMAIN rs2 = DOMAIN rs
    BY <1>2
  <1>6. ASSUME NEW g \in DOMAIN gs
        PROVE  IF gs[g].site = s THEN gs2[g].status = "deleted" /\ gs2[g].first = gs[g].first ELSE gs2[g] = gs[g]
    <2>1. CASE gs[g].site = s
      <3>1. gs2[g] = [gs[g] EXCEPT !.status = "deleted"]
        BY <1>2, <2>1
      <3>2. QED
        BY <1>3, <2>1, <3>1 DEF GroupOK, IsGroup
    <2>2. QED
      BY <1>2, <2>1
  <1>7. ASSUME NEW i \in DOMAIN rs
        PROVE  IF rs[i].site = s THEN /\ rs2[i].group = -1 /\ rs2[i].sight = rs[i].sight
                                      /\ rs2[i].at = rs[i].at /\ rs2[i].sampled = rs[i].sampled
               ELSE rs2[i] = rs[i]
    <2>1. CASE rs[i].site = s
      <3>1. rs2[i] = [rs[i] EXCEPT !.group = -1]
        BY <1>2, <2>1
      <3>2. QED
        BY <1>3, <2>1, <3>1 DEF ReportOK, IsReport
    <2>2. QED
      BY <1>2, <2>1
  <1>8. FilesOK(rs2, gs2)
    <2>1. ASSUME NEW i \in DOMAIN rs PROVE FiledOK(rs2[i], gs2)
      <3>1. CASE rs[i].site = s
        <4>1. rs2[i].group = -1 /\ rs2[i].sight \in Sights /\ rs2[i].at \in Int /\ rs2[i].sampled \in Int
          BY <1>3, <1>7, <3>1 DEF FiledOK
        <4>2. QED
          BY <4>1 DEF FiledOK
      <3>2. CASE rs[i].site # s
        <4>1. rs2[i] = rs[i] /\ FiledOK(rs[i], gs)
          BY <1>3, <1>7, <3>2
        <4>2. rs[i].group > 0 => gs2[rs[i].group] = gs[rs[i].group]
          BY <1>4, <1>6, <3>2
        <4>3. QED
          BY <4>1, <4>2 DEF FiledOK
      <3>3. QED
        BY <3>1, <3>2
    <2>2. QED
      BY <1>5, <2>1 DEF FilesOK
  <1>9. AllSeen(rs2, gs2)
    <2>1. ASSUME NEW g \in DOMAIN gs PROVE SeenOK(gs2[g], g, rs2)
      <3>1. CASE gs[g].site = s
        BY <1>3, <1>6, <3>1 DEF SeenOK
      <3>2. CASE gs[g].site # s
        <4>1. gs2[g] = gs[g] /\ SeenOK(gs[g], g, rs) /\ g > 0
          BY <1>3, <1>6, <3>2
        <4>2. \A i \in DOMAIN rs : rs[i].group = g => rs2[i] = rs[i]
          BY <1>4, <1>7, <3>2, <4>1
        <4>3. QED
          BY <1>5, <4>1, <4>2 DEF SeenOK
      <3>3. QED
        BY <3>1, <3>2
    <2>2. QED
      BY <1>5, <2>1 DEF AllSeen
  <1>10. Apart(gs2)
    <2>1. \A g \in DOMAIN gs : gs2[g].status # "deleted" => gs2[g] = gs[g]
      BY <1>6
    <2>2. QED
      BY <1>3, <1>5, <2>1 DEF Apart
  <1>11. TeamInv' /\ instant' \in Nat
    BY <1>2, CloseSiteKeepsTeams DEF CrashInv
  <1>12. QED
    BY <1>1, <1>8, <1>9, <1>10, <1>11 DEF CrashInv

LEMMA CrashInitOK == ClientIntakeInit => CrashInv
  <1> SUFFICES ASSUME ClientIntakeInit PROVE CrashInv
    OBVIOUS
  <1>1. reports = <<>> /\ groups = <<>> /\ instant = 0
    BY DEF ClientIntakeInit
  <1>2. DOMAIN <<>> = {}
    OBVIOUS
  <1>3. FilesOK(reports, groups) /\ AllSeen(reports, groups) /\ Apart(groups)
    BY <1>1, <1>2 DEF FilesOK, AllSeen, Apart
  <1>4. QED
    BY <1>1, <1>3, TeamInitOK DEF CrashInv

LEMMA CrashNextOK == CrashInv /\ [ClientIntakeNext]_intakeVars => CrashInv'
  <1> SUFFICES ASSUME CrashInv, [ClientIntakeNext]_intakeVars PROVE CrashInv'
    OBVIOUS
  <1>1. TeamInv'
    BY TeamNextOK DEF CrashInv
  <1>2. CASE \/ UNCHANGED intakeVars
             \/ Elapse
             \/ EvaluateSpikes
             \/ \E g \in pass.todo : IssueSpiked(g)
             \/ \E u \in Members, o \in Companies : Leave(u, o)
             \/ \E p \in Posts :
                  \/ \E a \in Addresses, u \in Members \cup {"none"}, b \in Reports : Receive(p, a, u, b)
                  \/ Reporter(p) \/ ResolveProject(p)
    <2>1. UNCHANGED <<reports, groups>> /\ (instant' = instant \/ instant' = instant + 1)
      BY <1>2 DEF intakeVars, Elapse, EvaluateSpikes, IssueSpiked, Leave, Receive, Reporter, ResolveProject, tables
    <2>2. instant' \in Nat
      BY <2>1 DEF CrashInv
    <2>3. QED
      BY <1>1, <2>1, <2>2, NothingFiled
  <1>3. ASSUME NEW p \in Posts, StoreReports(p) PROVE CrashInv'
    BY <1>3, StoreReportsCrash
  <1>4. ASSUME NEW i \in DOMAIN reports, File(i) PROVE CrashInv'
    BY <1>4, FileCrash
  <1>5. ASSUME NEW g \in DOMAIN groups, NEW status \in {"resolved", "ignored", "unresolved"}, Triage(g, status)
        PROVE  CrashInv'
    BY <1>5, TriageCrash
  <1>6. ASSUME NEW s \in Sites, CloseSite(s) PROVE CrashInv'
    BY <1>6, CloseSiteCrash
  <1>7. QED
    BY <1>2, <1>3, <1>4, <1>5, <1>6 DEF ClientIntakeNext

\* Two sightings are of one crash exactly when they have one fingerprint.
CrashesTold == \A s, t \in Sights : s.crash = t.crash <=> Fingerprint(s) = Fingerprint(t)

\* Where the fingerprint tells the sightings' crashes apart (fingerprint.go), two reports of
\* one scope are under one issue exactly when they are of one crash: matching an issue,
\* opening one, a regression, a triage and a deletion never split an issue or join two
\* (processEvent and TouchIssue, clienterrorbus and clienterrordb).
THEOREM CrashesHaveOneIssue == ASSUME CrashesTold PROVE ClientIntakeSpec => []SameCrashSameIssue
  <1>1. CrashInv => SameCrashSameIssue
    <2> SUFFICES ASSUME CrashInv, NEW i \in DOMAIN reports, NEW j \in DOMAIN reports,
                        reports[i].group > 0, reports[j].group > 0,
                        reports[i].org = reports[j].org, reports[i].site = reports[j].site
                 PROVE  reports[i].sight.crash = reports[j].sight.crash <=> reports[i].group = reports[j].group
      BY DEF SameCrashSameIssue
    <2>1. PICK r, s : r = reports[i] /\ s = reports[j]
      OBVIOUS
    <2>2. /\ r.group \in DOMAIN groups /\ groups[r.group].org = r.org /\ groups[r.group].site = r.site
          /\ groups[r.group].crash = Fingerprint(r.sight) /\ groups[r.group].status # "deleted"
          /\ r.sight \in Sights
      BY <2>1, Stored DEF ReportOK, FiledOK
    <2>3. /\ s.group \in DOMAIN groups /\ groups[s.group].org = s.org /\ groups[s.group].site = s.site
          /\ groups[s.group].crash = Fingerprint(s.sight) /\ groups[s.group].status # "deleted"
          /\ s.sight \in Sights
      BY <2>1, Stored DEF ReportOK, FiledOK
    <2>4. r.sight.crash = s.sight.crash <=> Fingerprint(r.sight) = Fingerprint(s.sight)
      BY <2>2, <2>3 DEF CrashesTold
    <2>5. Fingerprint(r.sight) = Fingerprint(s.sight) => r.group = s.group
      BY <2>1, <2>2, <2>3 DEF CrashInv, Apart
    <2>6. r.group = s.group => Fingerprint(r.sight) = Fingerprint(s.sight)
      BY <2>2, <2>3
    <2>7. QED
      BY <2>1, <2>4, <2>5, <2>6
  <1>2. QED
    BY <1>1, CrashInitOK, CrashNextOK, PTL DEF ClientIntakeSpec
-----------------------------------------------------------------------------
(* ClientIntake: which issues stand out. *)

\* The rate in the window against the rate before it, scaled or not
LEMMA Rates ==
  ASSUME NEW n \in Int, NEW b \in Int, NEW m \in Nat, NEW w \in Nat \ {0}, NEW k \in Nat \ {0}
  PROVE  n * (k * w) >= m * Max({b * w, k * w}) <=> n * k >= m * b /\ n >= m
  <1>1. b * w \in Int /\ k * w \in Int /\ n * k \in Int /\ m * b \in Int /\ m * k \in Int
    OBVIOUS
  <1>2. PICK x : x = Max({b * w, k * w}) /\ x = IF b * w >= k * w THEN b * w ELSE k * w
    BY <1>1, MaxOfTwo
  <1>3. m * (b * w) = (m * b) * w /\ m * (k * w) = (m * k) * w /\ n * (k * w) = (n * k) * w
    OBVIOUS
  <1>4. m * b <= n * k <=> (m * b) * w <= (n * k) * w
    BY <1>1, Multiples
  <1>5. m * k <= n * k <=> (m * k) * w <= (n * k) * w
    BY <1>1, Multiples
  <1>6. m <= n <=> m * k <= n * k
    BY Multiples
  <1>7. /\ b * w <= k * w => m * (b * w) <= m * (k * w)
        /\ k * w <= b * w => m * (k * w) <= m * (b * w)
    <2>1. ASSUME NEW y \in Int, NEW z \in Int, y <= z PROVE m * y <= m * z
      <3>1. y * m <= z * m
        BY <2>1, MoreIsMore
      <3>2. y * m = m * y /\ z * m = m * z
        OBVIOUS
      <3>3. QED
        BY <3>1, <3>2
    <2>2. QED
      BY <1>1, <2>1
  <1>8. (m * b) * w \in Int /\ (m * k) * w \in Int /\ (n * k) * w \in Int
    OBVIOUS
  <1>9. CASE b * w >= k * w
    BY <1>1, <1>2, <1>3, <1>4, <1>5, <1>6, <1>7, <1>8, <1>9
  <1>10. CASE b * w < k * w
    BY <1>1, <1>2, <1>3, <1>4, <1>5, <1>6, <1>7, <1>8, <1>10
  <1>11. QED
    BY <1>1, <1>9, <1>10

\* The baseline is a whole number of windows, as DefaultSpikeConfig has it.
WholeWindows ==
    /\ Config.window \in Nat \ {0} /\ Config.multiplier \in Nat /\ Config.minEvents \in Int
    /\ \E n \in Nat \ {0} : Config.baseline = n * Config.window

\* The reports of an issue that were seen in a window, or in the time before it
LEMMA SeenWindow ==
  ASSUME CrashInv, WholeWindows, NEW g, NEW q \in Int
  PROVE  Seen(g, q * Config.window, q * Config.window + Config.window) = InWindow(g, q)
  <1>1. PICK w \in Nat \ {0} : w = Config.window
    BY DEF WholeWindows
  <1>2. ASSUME NEW j \in DOMAIN reports
        PROVE  reports[j].at \in q * w .. (q * w + w) - 1 <=> reports[j].at \div w = q
    <2>1. PICK at \in Int : at = reports[j].at
      BY Stored DEF FiledOK
    <2>2. at \div w = q <=> at \in q * w .. q * w + w - 1
      BY DivIs
    <2>3. q * w + w - 1 = (q * w + w) - 1
      OBVIOUS
    <2>4. QED
      BY <2>1, <2>2, <2>3
  <1>3. {j \in DOMAIN reports : reports[j].group = g /\ reports[j].at \in q * w .. (q * w + w) - 1}
          = {j \in DOMAIN reports : reports[j].group = g /\ reports[j].at \div w = q}
    BY <1>2
  <1>4. QED
    BY <1>1, <1>3 DEF Seen, InWindow

LEMMA SeenBefore ==
  ASSUME CrashInv, WholeWindows, NEW g, NEW q \in Int, NEW p \in Nat \ {0}
  PROVE  /\ Seen(g, (q - p) * Config.window, q * Config.window)
              = SumFunction([k \in q - p .. q - 1 |-> InWindow(g, k)])
         /\ Seen(g, (q - p) * Config.window, q * Config.window) \in Int
  <1>1. PICK w \in Nat \ {0} : w = Config.window
    BY DEF WholeWindows
  <1>2. PICK S : S = {j \in DOMAIN reports : reports[j].group = g /\ reports[j].at \in (q - p) * w .. q * w - 1}
    OBVIOUS
  <1>3. PICK C : C = q - p .. q - 1
    OBVIOUS
  <1>4. IsFiniteSet(S) /\ IsFiniteSet(C)
    <2>1. IsFiniteSet(DOMAIN reports)
      <3>1. Len(reports) \in Nat /\ DOMAIN reports = 1 .. Len(reports)
        BY Stored, SeqFacts
      <3>2. QED
        BY <3>1, FS_Interval
    <2>2. QED
      BY <1>2, <1>3, <2>1, FS_Subset, FS_Interval
  <1>5. \A j \in DOMAIN reports : reports[j].at \in Int /\ reports[j].sampled \in Int
    BY Stored DEF FiledOK
  <1>6. ASSUME NEW j \in DOMAIN reports
        PROVE  reports[j].at \in (q - p) * w .. q * w - 1 <=> reports[j].at \div w \in C
    <2>1. PICK at \in Int : at = reports[j].at
      BY <1>5
    <2>2. at \div w \in Int /\ (q - p) * w \in Int /\ q * w \in Int
      BY DivBounds
    <2>3. /\ at \div w < q <=> at < q * w
          /\ at \div w >= q - p <=> at >= (q - p) * w
      BY DivIs
    <2>4. QED
      BY <1>3, <2>1, <2>2, <2>3
  <1>7. PICK s : s = [j \in S |-> reports[j].at \div w]
    OBVIOUS
  <1>8. PICK f : f = [j \in S |-> reports[j].sampled]
    OBVIOUS
  <1>9. s \in [S -> C] /\ f \in [S -> Int]
    BY <1>2, <1>5, <1>6, <1>7, <1>8
  <1>10. ASSUME NEW c \in C
         PROVE  InWindow(g, c) = SumFunction([x \in S |-> IF s[x] = c THEN f[x] ELSE 0])
    <2>1. PICK T : T = {j \in DOMAIN reports : reports[j].group = g /\ reports[j].at \div w = c}
      OBVIOUS
    <2>2. PICK h : h = [j \in T |-> reports[j].sampled]
      OBVIOUS
    <2>3. PICK k : k = [x \in S |-> IF s[x] = c THEN f[x] ELSE 0]
      OBVIOUS
    <2>4. T \in SUBSET S /\ \A x \in S : x \in T <=> s[x] = c
      BY <1>2, <1>6, <1>7, <2>1
    <2>5. h \in [T -> Int] /\ k \in [S -> Int]
      BY <1>5, <1>9, <2>1, <2>2, <2>3
    <2>6. (\A x \in T : h[x] = k[x]) /\ \A x \in S \ T : k[x] = 0
      BY <1>8, <2>2, <2>3, <2>4
    <2>7. SumFunction(h) = SumFunction(k)
      BY <1>4, <2>4, <2>5, <2>6, SumRestricted
    <2>8. InWindow(g, c) = SumFunction(h)
      BY <1>1, <2>1, <2>2 DEF InWindow
    <2>9. QED
      BY <2>3, <2>7, <2>8
  <1>11. [c \in C |-> InWindow(g, c)]
           = [c \in C |-> SumFunction([x \in S |-> IF s[x] = c THEN f[x] ELSE 0])]
    BY <1>10
  <1>12. SumFunction([c \in C |-> InWindow(g, c)]) = SumFunction(f)
    BY <1>4, <1>9, <1>11, SumByClass
  <1>13. Seen(g, (q - p) * w, q * w) = SumFunction(f)
    BY <1>2, <1>8 DEF Seen
  <1>14. SumFunction(f) \in Int
    BY <1>4, <1>9, SumType
  <1>15. QED
    BY <1>1, <1>3, <1>12, <1>13, <1>14

\* StandsOut, of a given window and so many before it
StandsOutAt(g, last, periods) ==
    /\ groups[g].status \notin {"ignored", "deleted"}
    /\ \E i \in DOMAIN reports : reports[i].group = g /\ reports[i].at \div Config.window < last
    /\ InWindow(g, last) >= Config.minEvents
    /\ InWindow(g, last) * periods
         >= Config.multiplier * SumFunction([k \in last - periods .. last - 1 |-> InWindow(g, k)])
    /\ InWindow(g, last) >= Config.multiplier

LEMMA SpikesFound ==
  ASSUME CrashInv, WholeWindows, NEW g \in DOMAIN groups
  PROVE  g \in QuerySpikes(instant) <=> StandsOut(g, instant)
  <1>1. PICK w \in Nat \ {0} : w = Config.window
    BY DEF WholeWindows
  <1>2. PICK p \in Nat \ {0} : Config.baseline = p * w
    BY <1>1 DEF WholeWindows
  <1>3. PICK q \in Int : q = (instant \div w) - 1
    BY DivBounds DEF CrashInv
  <1>4. PICK start \in Int : start = q * w
    OBVIOUS
  <1>5. WindowEnd(instant) = start + w
    <2>1. instant \div w = q + 1 /\ (q + 1) * w = q * w + w
      BY <1>3, DivBounds, Multiples DEF CrashInv
    <2>2. QED
      BY <1>1, <1>4, <2>1 DEF WindowEnd
  <1>6. PICK n, b : n = Seen(g, start, start + w) /\ b = Seen(g, start - p * w, start)
    OBVIOUS
  <1>7. (q - p) * w = start - p * w
    BY <1>4
  <1>8. n = InWindow(g, q) /\ b = SumFunction([k \in q - p .. q - 1 |-> InWindow(g, k)]) /\ b \in Int
    <2>1. Seen(g, q * w, q * w + w) = InWindow(g, q)
      BY <1>1, SeenWindow
    <2>2. /\ Seen(g, (q - p) * w, q * w) = SumFunction([k \in q - p .. q - 1 |-> InWindow(g, k)])
          /\ Seen(g, (q - p) * w, q * w) \in Int
      BY <1>1, SeenBefore
    <2>3. QED
      BY <1>4, <1>6, <1>7, <2>1, <2>2
  <1>9. n \in Int
    <2>1. PICK r \in Int : r = q + 1
      OBVIOUS
    <2>o. PICK one \in Nat \ {0} : one = 1
      OBVIOUS
    <2>2. Seen(g, (r - one) * w, r * w) \in Int
      BY <1>1, SeenBefore
    <2>3. (r - one) * w = start /\ r * w = start + w
      BY <1>4, <2>1, <2>o, Multiples
    <2>4. QED
      BY <1>6, <2>2, <2>3
  <1>10. (p * w) \div w = p
    <2>1. p * w \in p * w .. p * w + w - 1 /\ p * w \in Int
      OBVIOUS
    <2>2. QED
      BY <2>1, DivIs
  <1>11. ASSUME groups[g].status # "deleted"
         PROVE  groups[g].first < start <=> \E i \in DOMAIN reports : reports[i].group = g /\ reports[i].at \div w < q
    <2>1. /\ groups[g].first \in Int /\ g > 0
          /\ \E i \in DOMAIN reports : reports[i].group = g /\ reports[i].at = groups[g].first
      BY <1>11, Stored DEF SeenOK
    <2>2. \A i \in DOMAIN reports : /\ reports[i].at \in Int
                                    /\ reports[i].group = g => groups[g].first <= reports[i].at
      BY <2>1, Stored DEF FiledOK
    <2>3. \A i \in DOMAIN reports : reports[i].at \div w < q <=> reports[i].at < start
      BY <1>4, <2>2, DivIs
    <2>4. QED
      BY <2>1, <2>2, <2>3
  <1>12. PICK m \in Nat : m = Config.multiplier
    BY DEF WholeWindows
  <1>13. n * (p * w) >= m * Max({b * w, p * w}) <=> n * p >= m * b /\ n >= m
    <2>1. n \in Int /\ b \in Int
      BY <1>8, <1>9
    <2>2. QED
      BY <2>1, Rates, Zenon
  <1>14. g \in QuerySpikes(instant)
           <=> /\ groups[g].status \notin {"ignored", "deleted"} /\ groups[g].first < start
               /\ n >= Config.minEvents /\ n * (p * w) >= m * Max({b * w, p * w})
    <2>1. (start + w) - w = start
      OBVIOUS
    <2>2. QED
      BY <1>1, <1>2, <1>5, <1>6, <1>12, <2>1, Zenon DEF QuerySpikes
  <1>15. StandsOut(g, instant)
           <=> /\ groups[g].status \notin {"ignored", "deleted"}
               /\ \E i \in DOMAIN reports : reports[i].group = g /\ reports[i].at \div w < q
               /\ n >= Config.minEvents /\ n * p >= m * b /\ n >= m
    <2>1. StandsOut(g, instant) <=> StandsOutAt(g, (instant \div Config.window) - 1, Config.baseline \div Config.window)
      BY Zenon DEF StandsOut, StandsOutAt
    <2>2. StandsOut(g, instant) <=> StandsOutAt(g, q, p)
      BY <1>1, <1>2, <1>3, <1>10, <2>1
    <2>3. QED
      BY <1>1, <1>8, <1>12, <2>2, Zenon DEF StandsOutAt
  <1>16. QED
    BY <1>11, <1>13, <1>14, <1>15

\* A pass finds the issues whose last whole window stands out against the windows before it
\* (QuerySpikes, clienterrordb.go): the query's sums over a range of times are those of the
\* windows in it, its scaled rates compare as the plain ones do, and first_seen, which a
\* later sighting may lower, is the time of a report of the issue.
THEOREM PassesFindWhatStandsOut == ASSUME WholeWindows PROVE ClientIntakeSpec => SpikesStandOut
  <1>1. ASSUME CrashInv, [ClientIntakeNext]_intakeVars, passes' # passes
        PROVE  pass'.found = {g \in DOMAIN groups : StandsOut(g, instant)}
    <2>1. EvaluateSpikes
      BY <1>1 DEF ClientIntakeNext, intakeVars, Elapse, Receive, Reporter, ResolveProject, StoreReports, File,
                  IssueSpiked, Triage, Leave, CloseSite, tables
    <2>2. pass'.found = QuerySpikes(instant)
      BY <2>1 DEF EvaluateSpikes
    <2>3. QuerySpikes(instant) \subseteq DOMAIN groups
      BY DEF QuerySpikes
    <2>4. \A g \in DOMAIN groups : g \in QuerySpikes(instant) <=> StandsOut(g, instant)
      BY <1>1, SpikesFound
    <2>5. QED
      BY <2>2, <2>3, <2>4
  <1>2. CrashInv /\ [ClientIntakeNext]_intakeVars
          => [passes' # passes => pass'.found = {g \in DOMAIN groups : StandsOut(g, instant)}]_intakeVars
    BY <1>1
  <1>3. QED
    BY <1>2, CrashInitOK, CrashNextOK, PTL DEF ClientIntakeSpec, SpikesStandOut
============================================================================

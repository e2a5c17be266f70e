--------------------------- MODULE JobQueueProofs ---------------------------
(***************************************************************************)
(* Theorems about JobQueue, for any number of tenders, documents, jobs,    *)
(* goroutines and handlers, with restarts and store errors unless a        *)
(* theorem says otherwise.                                                 *)
(*                                                                         *)
(* The invariant IInv ties three things together: the rows of the jobs     *)
(* table, the copies the worker claimed, and what each process is about to *)
(* do with its copy.                                                       *)
(***************************************************************************)
EXTENDS JobQueue, TLAPS

-----------------------------------------------------------------------------
(* The inductive invariant *)

\* An extraction job, as a row and as a claimed copy, names a tender and a
\* document; the maintenance job names none.
Rows ==
  /\ \A id \in ExtractionId :
       /\ jobs[id].state # "absent" => jobs[id].tender \in Tender /\ jobs[id].url \in Url
       /\ claimed[id].state # "absent" =>
            claimed[id].tender \in Tender /\ claimed[id].url \in Url
  /\ jobs[CleanupId].tender = None /\ claimed[CleanupId].tender = None

\* A process in the middle of a write knows what it writes.
Locals ==
  \A p \in Process :
    /\ pc[p] \in {"upsert_read", "upsert_row", "upsert_index", "enqueue", "status"}
         => tid[p] \in Tender
    /\ pc[p] = "enqueue" => ten[p].url \in Url

\* What g decided about its job; a job without tries left is not retried.
Concluded(g) ==
  /\ outcome[g] \in Settled \cup {"retry"}
  /\ outcome[g] = "retry" => ~Exhausted(claimed[held[g]])

\* A goroutine works on a claimed job, of the kind its next call is for.
Hands ==
  \A g \in Goroutine :
    /\ held[g] # None => claimed[held[g]].state = "processing"
    /\ pc[g] \in {"start", "delete", "extract", "reload"} => held[g] \in ExtractionId
    /\ pc[g] \in {"mark", "list", "archive"} => held[g] = CleanupId
    /\ pc[g] = "update" => held[g] # None /\ Concluded(g)
    /\ pc[g] \in {"upsert_read", "upsert_row", "upsert_index"} /\ held[g] # None
         => Concluded(g)
    /\ pc[g] = "reload" => outcome[g] = "completed"
    /\ pc[g] = "status" => held[g] = None /\ outcome[g] \in {"failed", "retry"}

\* No job is in two hands.
HandsApart ==
  \A g, h \in Goroutine : g # h /\ held[g] # None => held[g] # held[h]

\* There are claimed copies only while the pass runs its jobs.
Batch ==
  /\ \A id \in JobId : claimed[id].state \in {"absent", "processing"}
  /\ phase # "jobs" => \A id \in JobId : claimed[id].state = "absent"
  /\ pc[Loop] \in {"list", "archive"} => phase = "cleanup"

\* No document is claimed twice, though its row may be gone or be another one.
ClaimsApart ==
  \A i, j \in ExtractionId :
    i # j /\ claimed[i].state # "absent" /\ claimed[j].state # "absent"
    => claimed[i].tender # claimed[j].tender \/ claimed[i].url # claimed[j].url

\* A row with a claimed copy is the row that was claimed, still being processed.
SameDocument ==
  \A id \in ExtractionId :
    jobs[id].state # "absent" /\ claimed[id].state # "absent"
    => /\ jobs[id].state = "processing"
       /\ jobs[id].tender = claimed[id].tender /\ jobs[id].url = claimed[id].url

IInv ==
  /\ TypeOK /\ Rows /\ Locals /\ Hands /\ HandsApart /\ Batch
  /\ OneRowPerDocument /\ AttemptsBounded /\ ClaimsApart /\ SameDocument

-----------------------------------------------------------------------------
(* Rows *)

\* The null rows have the types of rows.
LEMMA NullRows ==
  /\ NoTender \in TenderRow
  /\ NoJob \in JobRow
  /\ NoJob.state = "absent" /\ NoJob.attempts = 0
  /\ NoJob.tender = None /\ NoJob.url = None
BY DEF NoTender, TenderRow, Life, DocumentStatus, NoJob, JobRow, JobState

\* The ways the code changes a tender give a tender.
LEMMA TenderRows ==
  ASSUME NEW row \in TenderRow, NEW d \in DocumentStatus, NEW c \in {"blank", "soon"}
  PROVE  /\ [row EXCEPT !.doc = d] \in TenderRow
         /\ [row EXCEPT !.doc = d, !.closing = c] \in TenderRow
         /\ [row EXCEPT !.life = "archived"] \in TenderRow
         /\ [row EXCEPT !.doc = d].url = row.url
BY DEF TenderRow, Life, DocumentStatus

\* The row of a listed tender.
LEMMA ListedRows ==
  ASSUME NEW u \in Url \cup {None}, NEW c \in {"blank", "soon"}, NEW d \in {"none", "queued"}
  PROVE  Listed(u, c, d) \in TenderRow
<1> DEFINE row == [life |-> "active", doc |-> d, url |-> u, closing |-> c]
<1>1. row \in TenderRow
  BY DEF TenderRow, Life, DocumentStatus
<1>2. [row EXCEPT !.doc = "skipped"] \in TenderRow /\ [row EXCEPT !.doc = "queued"] \in TenderRow
  BY <1>1, TenderRows DEF DocumentStatus
<1>3. Listed(u, c, d) \in {row, [row EXCEPT !.doc = "skipped"], [row EXCEPT !.doc = "queued"]}
  BY Zenon DEF Listed
<1> QED
  BY <1>1, <1>2, <1>3

\* A queued job.
LEMMA QueuedRows ==
  ASSUME NEW t \in Tender \cup {None}, NEW u \in Url \cup {None}
  PROVE  /\ QueuedJob(t, u) \in JobRow
         /\ QueuedJob(t, u).state = "queued" /\ QueuedJob(t, u).attempts = 0
         /\ QueuedJob(t, u).tender = t /\ QueuedJob(t, u).url = u
BY DEF QueuedJob, JobRow, JobState, Pending

\* A row whose backoff is over is otherwise the same.
LEMMA DueRows ==
  ASSUME NEW row \in JobRow
  PROVE  /\ [row EXCEPT !.next = "due"] \in JobRow
         /\ [row EXCEPT !.next = "due"].state = row.state
         /\ [row EXCEPT !.next = "due"].attempts = row.attempts
         /\ [row EXCEPT !.next = "due"].tender = row.tender
         /\ [row EXCEPT !.next = "due"].url = row.url
BY DEF JobRow

\* The row a goroutine writes has the identity of its copy; only a skip gives a
\* try back.
LEMMA FinishedRows ==
  ASSUME NEW row \in JobRow, row.attempts \in 1..MaxAttempts,
         NEW s \in Settled \cup {"retry"}
  PROVE  /\ Finish(row, s) \in JobRow
         /\ Finish(row, s).state = s
         /\ Finish(row, s).tender = row.tender /\ Finish(row, s).url = row.url
         /\ Finish(row, s).attempts = IF s = "skipped" THEN row.attempts - 1
                                                       ELSE row.attempts
<1> DEFINE n == IF s = "skipped" THEN row.attempts - 1 ELSE row.attempts
           x == IF s = "retry" THEN "later" ELSE "due"
<1>1. n \in Nat /\ x \in {"due", "later"} /\ s \in JobState
  BY QueueAssumption DEF JobState, Pending, Settled
<1>2. Finish(row, s) = [row EXCEPT !.state = s, !.attempts = n, !.next = x]
  BY Zenon DEF Finish
<1> HIDE DEF n, x
<1>3. LET new == [row EXCEPT !.state = s, !.attempts = n, !.next = x] IN
      /\ new \in JobRow /\ new.state = s /\ new.attempts = n
      /\ new.tender = row.tender /\ new.url = row.url
  BY <1>1 DEF JobRow
<1> QED
  BY <1>2, <1>3 DEF n

\* A claimed row has one more try and the same identity.
LEMMA ClaimedRows ==
  ASSUME NEW row \in JobRow
  PROVE  LET taken == [row EXCEPT !.state = "processing", !.attempts = @ + 1] IN
         /\ taken \in JobRow /\ taken.state = "processing"
         /\ taken.attempts = row.attempts + 1
         /\ taken.tender = row.tender /\ taken.url = row.url
<1> DEFINE n == row.attempts + 1
<1>1. n \in Nat /\ "processing" \in JobState
  BY DEF JobRow, JobState, Pending
<1> HIDE DEF n
<1>2. LET taken == [row EXCEPT !.state = "processing", !.attempts = n] IN
      /\ taken \in JobRow /\ taken.state = "processing" /\ taken.attempts = n
      /\ taken.tender = row.tender /\ taken.url = row.url
  BY <1>1 DEF JobRow
<1> QED
  BY <1>2 DEF n

-----------------------------------------------------------------------------
(* Locals of the processes *)

\* Writing one value of a function keeps its type.
LEMMA FunctionUpdate ==
  ASSUME NEW S, NEW T, NEW f \in [S -> T], NEW x, NEW y \in T
  PROVE  [f EXCEPT ![x] = y] \in [S -> T]
OBVIOUS

\* Where a process goes.
LEMMA GotoType ==
  ASSUME TypeOK, NEW p, NEW label \in Label, Goto(p, label)
  PROVE  pc' \in [Process -> Label]
BY FunctionUpdate DEF TypeOK, Goto

\* A process forgets its tender.
LEMMA DoneType ==
  ASSUME TypeOK, NEW p, Done(p)
  PROVE  /\ pc' \in [Process -> Label]
         /\ tid' \in [Process -> Tender \cup {None}]
         /\ ten' \in [Process -> TenderRow]
<1>1. pc' \in [Process -> Label]
  BY GotoType DEF Done, Label
<1>2. tid' \in [Process -> Tender \cup {None}]
  BY DEF TypeOK, Done
<1>3. ten' \in [Process -> TenderRow]
  BY NullRows, FunctionUpdate DEF TypeOK, Done
<1> QED
  BY <1>1, <1>2, <1>3

\* A process begins to write a tender.
LEMMA BeginUpsertType ==
  ASSUME TypeOK, NEW p, NEW t \in Tender, NEW row \in TenderRow, BeginUpsert(p, t, row)
  PROVE  /\ pc' \in [Process -> Label]
         /\ tid' \in [Process -> Tender \cup {None}]
         /\ ten' \in [Process -> TenderRow]
<1>1. pc' \in [Process -> Label]
  BY GotoType DEF BeginUpsert, Label
<1>2. tid' \in [Process -> Tender \cup {None}]
  BY DEF TypeOK, BeginUpsert
<1>3. ten' \in [Process -> TenderRow]
  BY FunctionUpdate DEF TypeOK, BeginUpsert
<1> QED
  BY <1>1, <1>2, <1>3

\* What follows a written tender.
LEMMA AfterUpsertType ==
  ASSUME TypeOK, NEW p \in Process, NEW ok \in BOOLEAN, AfterUpsert(p, ok)
  PROVE  /\ pc' \in [Process -> Label]
         /\ tid' \in [Process -> Tender \cup {None}]
         /\ ten' \in [Process -> TenderRow]
         /\ todo' \in [Lister -> SUBSET Tender]
<1>1. Done(p) \/ (/\ Goto(p, "update") \/ Goto(p, "enqueue")
                  /\ UNCHANGED <<tid, ten>>)
  BY Zenon DEF AfterUpsert
<1>2. /\ pc' \in [Process -> Label]
      /\ tid' \in [Process -> Tender \cup {None}]
      /\ ten' \in [Process -> TenderRow]
  BY <1>1, DoneType, GotoType DEF TypeOK, Label
<1>3. todo' \in [Lister -> SUBSET Tender]
  BY DEF TypeOK, AfterUpsert
<1> QED
  BY <1>2, <1>3

\* The end of a cleanup, in the loop and in a goroutine.
LEMMA AfterCleanupType ==
  ASSUME TypeOK, NEW p \in Process, NEW ok \in BOOLEAN, AfterCleanup(p, ok)
  PROVE  /\ pc' \in [Process -> Label]
         /\ outcome' \in [Goroutine -> JobState]
         /\ snap' \in [Process -> [Tender -> TenderRow]]
         /\ phase' \in {"sources", "cleanup", "claim", "jobs"}
<1>1. NoSnap \in [Tender -> TenderRow]
  BY NullRows DEF NoSnap
<1>2. snap' \in [Process -> [Tender -> TenderRow]]
  BY <1>1, FunctionUpdate DEF TypeOK, AfterCleanup
<1>3. CASE p = Loop
  BY <1>2, <1>3, GotoType DEF TypeOK, AfterCleanup, Label
<1>4. CASE p # Loop
  <2> DEFINE x == IF ok THEN "completed"
                  ELSE IF Exhausted(claimed[held[p]]) THEN "failed" ELSE "retry"
  <2>1. Goto(p, "update") /\ outcome' = [outcome EXCEPT ![p] = x] /\ phase' = phase
    BY <1>4 DEF AfterCleanup
  <2>2. x \in JobState
    BY DEF JobState, Settled, Pending
  <2> HIDE DEF x
  <2> QED
    BY <1>2, <2>1, <2>2, GotoType DEF TypeOK, Label
<1> QED
  BY <1>3, <1>4

-----------------------------------------------------------------------------
(* What the steps on the jobs table do *)

\* A claim moves a set of waiting rows into the worker's hands, which were empty.
LEMMA ClaimEffect ==
  ASSUME IInv, ClaimDueJobs
  PROVE  \E picked \in SUBSET JobId :
           /\ \A id \in picked :
                /\ jobs[id].state \in {"queued", "retry"}
                /\ jobs'[id].state = "processing"
                /\ jobs'[id].attempts = jobs[id].attempts + 1
                /\ jobs'[id].tender = jobs[id].tender /\ jobs'[id].url = jobs[id].url
                /\ claimed'[id] = jobs'[id]
           /\ \A id \in JobId \ picked : jobs'[id] = jobs[id] /\ claimed'[id] = NoJob
           /\ jobs' \in [JobId -> JobRow] /\ claimed' \in [JobId -> JobRow]
           /\ \A id \in JobId : claimed[id].state = "absent"
<1>1. PICK picked \in SUBSET {id \in JobId : Claimable(jobs[id])} :
        /\ jobs' = [id \in JobId |->
             IF id \in picked
             THEN [jobs[id] EXCEPT !.state = "processing", !.attempts = @ + 1]
             ELSE jobs[id]]
        /\ claimed' = [id \in JobId |-> IF id \in picked THEN jobs'[id] ELSE NoJob]
  BY DEF ClaimDueJobs
<1>2. \A id \in JobId : jobs[id] \in JobRow
  BY DEF IInv, TypeOK
<1>3. \A id \in picked :
        /\ jobs'[id] \in JobRow /\ jobs'[id].state = "processing"
        /\ jobs'[id].attempts = jobs[id].attempts + 1
        /\ jobs'[id].tender = jobs[id].tender /\ jobs'[id].url = jobs[id].url
  <2> TAKE id \in picked
  <2>1. jobs'[id] = [jobs[id] EXCEPT !.state = "processing", !.attempts = @ + 1]
    BY <1>1, Zenon
  <2>2. jobs[id] \in JobRow
    BY <1>2
  <2> QED
    BY <2>1, <2>2, ClaimedRows, Zenon
<1>4. \A id \in JobId \ picked : jobs'[id] = jobs[id] /\ claimed'[id] = NoJob
  BY <1>1, Zenon
<1>5. \A id \in picked : jobs[id].state \in {"queued", "retry"} /\ claimed'[id] = jobs'[id]
  BY <1>1, Zenon DEF Claimable
<1>6. jobs' \in [JobId -> JobRow] /\ claimed' \in [JobId -> JobRow]
  <2>1. \A id \in JobId : jobs'[id] \in JobRow /\ claimed'[id] \in JobRow
    BY <1>2, <1>3, <1>4, <1>5, NullRows
  <2> QED
    BY <1>1, <2>1, Zenon
<1>7. \A id \in JobId : claimed[id].state = "absent"
  BY DEF IInv, Batch, ClaimDueJobs
<1> QED
  BY <1>1, <1>3, <1>4, <1>5, <1>6, <1>7

\* UpdateJob writes the finished copy, unless another row has the document or the
\* store fails, and lets go of the job.
LEMMA UpdateEffect ==
  ASSUME IInv, NEW g \in Goroutine, UpdateJob(g)
  PROVE  \E row \in JobRow :
           /\ held[g] \in JobId /\ claimed[held[g]].state = "processing"
           /\ row.state = outcome[g] /\ outcome[g] \in Settled \cup {"retry"}
           /\ row.state = "retry" => row.attempts < MaxAttempts
           /\ row.tender = claimed[held[g]].tender /\ row.url = claimed[held[g]].url
           /\ AttemptsFit(row)
           /\ row.attempts = IF row.state = "skipped" THEN claimed[held[g]].attempts - 1
                                                      ELSE claimed[held[g]].attempts
           /\ \/ /\ jobs' = jobs
                 /\ StoreMayFail \/ /\ held[g] \in ExtractionId
                                    /\ Taken(row.tender, row.url, held[g])
              \/ /\ jobs' = [jobs EXCEPT ![held[g]] = row]
                 /\ held[g] \in ExtractionId => ~Taken(row.tender, row.url, held[g])
           /\ claimed' = [claimed EXCEPT ![held[g]] = NoJob]
           /\ held' = [held EXCEPT ![g] = None]
           /\ \/ Done(g)
              \/ /\ held[g] \in ExtractionId
                 /\ Goto(g, "status") /\ UNCHANGED ten
                 /\ tid' = [tid EXCEPT ![g] = row.tender]
<1> DEFINE id == held[g]
           row == Finish(claimed[id], outcome[g])
<1>1. /\ id \in JobId /\ claimed[id] \in JobRow /\ claimed[id].state = "processing"
      /\ Concluded(g)
  BY QueueAssumption DEF IInv, TypeOK, Hands, UpdateJob, JobId
<1>2. claimed[id].attempts \in 1..MaxAttempts
  BY <1>1 DEF IInv, AttemptsBounded, AttemptsFit
<1>3. /\ row \in JobRow /\ row.state = outcome[g]
      /\ row.tender = claimed[id].tender /\ row.url = claimed[id].url
      /\ row.attempts = IF outcome[g] = "skipped" THEN claimed[id].attempts - 1
                                                  ELSE claimed[id].attempts
  BY <1>1, <1>2, FinishedRows DEF Concluded
<1>4. outcome[g] = "retry" => row.attempts < MaxAttempts
  BY <1>1, <1>2, <1>3, QueueAssumption DEF Concluded, Exhausted
<1>5. AttemptsFit(row)
  BY <1>1, <1>2, <1>3, <1>4, QueueAssumption DEF Concluded, AttemptsFit, Settled
<1>6. /\ \/ /\ jobs' = jobs
            /\ StoreMayFail \/ /\ id \in ExtractionId
                               /\ Taken(row.tender, row.url, id)
         \/ /\ jobs' = [jobs EXCEPT ![id] = row]
            /\ id \in ExtractionId => ~Taken(row.tender, row.url, id)
      /\ claimed' = [claimed EXCEPT ![id] = NoJob]
      /\ held' = [held EXCEPT ![g] = None]
  BY Zenon DEF UpdateJob, Release
<1>7. \/ Done(g)
      \/ /\ id \in ExtractionId
         /\ Goto(g, "status") /\ UNCHANGED ten
         /\ tid' = [tid EXCEPT ![g] = row.tender]
  BY Zenon DEF UpdateJob
<1> HIDE DEF row
<1> QED
  BY <1>1, <1>3, <1>4, <1>5, <1>6, <1>7 DEF Concluded

-----------------------------------------------------------------------------
(* The steps *)

\* Rows that are archived with their tender, archived as old results, or deleted
\* are gone, and the other rows stay.
LEMMA DropEffect ==
  ASSUME IInv, (\E p \in Goroutine \cup {Loop} : ArchiveDoomed(p)) \/ EndPass
  PROVE  /\ \A id \in JobId : jobs'[id] \in {jobs[id], NoJob}
         /\ jobs' \in [JobId -> JobRow]
         /\ claimed' = claimed /\ held' = held
<1>1. CASE EndPass
  <2>1. PICK old \in SUBSET JobId :
          jobs' = [id \in JobId |-> IF id \in old THEN NoJob ELSE jobs[id]]
    BY <1>1 DEF EndPass
  <2>2. claimed' = claimed /\ held' = held
    BY <1>1 DEF EndPass, batch
  <2> QED
    BY <2>1, <2>2, NullRows DEF IInv, TypeOK
<1>2. ASSUME NEW p \in Goroutine \cup {Loop}, ArchiveDoomed(p)
      PROVE  /\ \A id \in JobId : jobs'[id] \in {jobs[id], NoJob}
             /\ jobs' \in [JobId -> JobRow]
  <2>1. \/ jobs' = jobs
        \/ jobs' = [id \in JobId |->
             IF \E t \in Tender : jobs[id].tender = t /\ index'[t] = "archived"
             THEN NoJob ELSE jobs[id]]
    BY <1>2, Zenon DEF ArchiveDoomed, store
  <2> QED
    BY <2>1, NullRows DEF IInv, TypeOK
<1>3. ASSUME NEW p \in Goroutine \cup {Loop}, ArchiveDoomed(p)
      PROVE  claimed' = claimed /\ held' = held
  BY <1>3 DEF ArchiveDoomed
<1> QED
  BY <1>1, <1>2, <1>3

\* QueueJob adds a row for a document that has none, or nothing.
LEMMA QueueEffect ==
  ASSUME IInv, NEW p \in Process, QueueJob(p)
  PROVE  /\ claimed' = claimed /\ held' = held
         /\ \/ jobs' = jobs
            \/ \E id \in ExtractionId, t \in Tender, u \in Url, row \in JobRow :
                 /\ jobs[id].state = "absent" /\ claimed[id].state = "absent"
                 /\ ~Taken(t, u, None)
                 /\ row.state = "queued" /\ row.attempts = 0
                 /\ row.tender = t /\ row.url = u
                 /\ jobs' = [jobs EXCEPT ![id] = row]
<1> DEFINE t == tid[p]
           u == ten[p].url
<1>1. t \in Tender /\ u \in Url
  BY DEF IInv, Locals, QueueJob
<1>2. claimed' = claimed /\ held' = held
  BY DEF QueueJob, batch
<1>3. \/ jobs' = jobs
      \/ /\ ~Taken(t, u, None)
         /\ \E id \in ExtractionId :
              Fresh(id) /\ jobs' = [jobs EXCEPT ![id] = QueuedJob(t, u)]
  BY Zenon DEF QueueJob
<1> HIDE DEF t, u
<1> QED
  BY <1>1, <1>2, <1>3, QueuedRows DEF Fresh

\* The maintenance job begins by writing its copy back.
LEMMA MarkEffect ==
  ASSUME IInv, NEW g \in Goroutine, MarkCleanup(g)
  PROVE  /\ held[g] = CleanupId
         /\ \/ /\ jobs' = [jobs EXCEPT ![CleanupId] = claimed[CleanupId]]
               /\ claimed[CleanupId].state = "processing"
               /\ claimed' = claimed /\ held' = held
            \/ /\ StoreMayFail /\ jobs' = jobs
               /\ claimed' = [claimed EXCEPT ![CleanupId] = NoJob]
               /\ held' = [held EXCEPT ![g] = None]
<1>1. held[g] = CleanupId
  BY DEF IInv, Hands, MarkCleanup
<1>2. claimed[CleanupId].state = "processing"
  BY <1>1, QueueAssumption DEF IInv, Hands
<1> QED
  BY <1>1, <1>2, Zenon DEF MarkCleanup, Release

\* The steps that change a job, a claim or a hand.
LEMMA JobSteps ==
  ASSUME [Next]_vars
  PROVE  \/ UNCHANGED <<jobs, claimed, held>>
         \/ \E p \in Process : QueueJob(p)
         \/ \E h \in Handler : QueueCleanup(h)
         \/ \E p \in Goroutine \cup {Loop} : ArchiveDoomed(p)
         \/ ClaimDueJobs \/ EndPass
         \/ \E g \in Goroutine, id \in JobId : Take(g, id)
         \/ \E g \in Goroutine : DeleteJob(g) \/ UpdateJob(g) \/ MarkCleanup(g)
         \/ \E id \in JobId : BackoffElapses(id)
         \/ RestartWorker
<1> DEFINE Same == UNCHANGED <<jobs, claimed, held>>
<1>1. ASSUME NEW p \in Process, UpsertRead(p) PROVE Same
  BY <1>1 DEF UpsertRead, store, batch
<1>2. ASSUME NEW p \in Process, UpsertRow(p) PROVE Same
  BY <1>2 DEF UpsertRow, store, batch
<1>3. ASSUME NEW p \in Process, UpsertIndex(p) PROVE Same
  BY <1>3 DEF UpsertIndex, store, batch
<1>4. ASSUME NEW h \in Handler, NEW t \in Tender, RequestExtraction(h, t) PROVE Same
  BY <1>4 DEF RequestExtraction, store, batch
<1>5. ASSUME NEW h \in Handler, RequestCleanup(h) PROVE Same
  BY <1>5 DEF RequestCleanup, store, batch
<1>6. ASSUME NEW p \in Lister, NEW t \in Tender, ListTender(p, t) PROVE Same
  BY <1>6 DEF ListTender, store, batch
<1>7. ASSUME NEW p \in Lister, NEW t \in Tender, PassOver(p, t) PROVE Same
  BY <1>7 DEF PassOver, store, batch
<1>8. ASSUME EndSources PROVE Same
  BY <1>8 DEF EndSources, store, batch
<1>9. ASSUME AutomaticCleanup PROVE Same
  BY <1>9 DEF AutomaticCleanup, store, batch
<1>10. ASSUME NEW p \in Goroutine \cup {Loop}, ListDoomed(p) PROVE Same
  BY <1>10 DEF ListDoomed, store, batch
<1>11. ASSUME ClaimFails PROVE Same
  BY <1>11 DEF ClaimFails, store, batch
<1>12. ASSUME NEW g \in Goroutine, Start(g) PROVE Same
  BY <1>12 DEF Start, store, batch
<1>13. ASSUME NEW g \in Goroutine, Extract(g) PROVE Same
  BY <1>13 DEF Extract, store, batch
<1>14. ASSUME NEW g \in Goroutine, Reload(g) PROVE Same
  BY <1>14 DEF Reload, store, batch
<1>15. ASSUME NEW g \in Goroutine, UpdateStatus(g) PROVE Same
  BY <1>15 DEF UpdateStatus, store, batch
<1>16. ASSUME ClosingDatePasses PROVE Same
  BY <1>16 DEF ClosingDatePasses, store, batch
<1>17. ASSUME NEW t \in Tender, TenderAges(t) PROVE Same
  BY <1>17 DEF TenderAges, store, batch
<1>18. ASSUME RestartApp PROVE Same
  BY <1>18 DEF RestartApp, store, batch
<1>19. CASE UNCHANGED vars
  BY <1>19 DEF vars
<1> QED
  BY <1>1, <1>2, <1>3, <1>4, <1>5, <1>6, <1>7, <1>8, <1>9, <1>10, <1>11, <1>12, <1>13,
     <1>14, <1>15, <1>16, <1>17, <1>18, <1>19 DEF Next, GoroutineStep, LoopStep,
     StartupStep, HandlerStep, TimeStep, Upsert, CleanupStep, List, Process, Lister

\* Jobs go on naming their documents.
LEMMA RowsStep ==
  ASSUME IInv, [Next]_vars
  PROVE  Rows'
<1> USE QueueAssumption DEF JobId
<1>1. ASSUME NEW p \in Process, QueueJob(p) PROVE Rows'
  BY <1>1, QueueEffect, NullRows, ZenonT(30) DEF IInv, Rows, Batch, Taken, TypeOK
<1>2. ASSUME NEW h \in Handler, QueueCleanup(h) PROVE Rows'
  BY <1>2, QueuedRows DEF IInv, Rows, Batch, QueueCleanup, batch, TypeOK
<1>3. ASSUME NEW p \in Goroutine \cup {Loop}, ArchiveDoomed(p) PROVE Rows'
  BY <1>3, DropEffect, NullRows DEF IInv, Rows, Batch, TypeOK
<1>4. ASSUME ClaimDueJobs PROVE Rows'
  <2>1. PICK picked \in SUBSET JobId :
          /\ \A id \in picked :
               /\ jobs[id].state \in {"queued", "retry"}
               /\ jobs'[id].state = "processing"
               /\ jobs'[id].attempts = jobs[id].attempts + 1
               /\ jobs'[id].tender = jobs[id].tender /\ jobs'[id].url = jobs[id].url
               /\ claimed'[id] = jobs'[id]
          /\ \A id \in JobId \ picked : jobs'[id] = jobs[id] /\ claimed'[id] = NoJob
    BY <1>4, ClaimEffect, Zenon
  <2> QED
    BY <2>1, NullRows DEF IInv, Rows
<1>5. ASSUME EndPass PROVE Rows'
  BY <1>5, DropEffect, NullRows DEF IInv, Rows, Batch, TypeOK
<1>6. ASSUME NEW g \in Goroutine, NEW id \in JobId, Take(g, id) PROVE Rows'
  BY <1>6 DEF IInv, Rows, Batch, Take, Unheld, store, TypeOK
<1>7. ASSUME NEW g \in Goroutine, DeleteJob(g) PROVE Rows'
  BY <1>7, NullRows DEF IInv, Rows, Batch, DeleteJob, Release, TypeOK, Hands
<1>8. ASSUME NEW g \in Goroutine, UpdateJob(g) PROVE Rows'
  <2>1. PICK row \in JobRow :
          /\ held[g] \in JobId /\ claimed[held[g]].state = "processing"
          /\ row.tender = claimed[held[g]].tender /\ row.url = claimed[held[g]].url
          /\ jobs' = jobs \/ jobs' = [jobs EXCEPT ![held[g]] = row]
          /\ claimed' = [claimed EXCEPT ![held[g]] = NoJob]
    BY <1>8, UpdateEffect
  <2>2. /\ jobs'[held[g]] \in {row, jobs[held[g]]} /\ claimed'[held[g]] = NoJob
        /\ \A i \in JobId \ {held[g]} : jobs'[i] = jobs[i] /\ claimed'[i] = claimed[i]
    BY <2>1 DEF IInv, TypeOK
  <2> QED
    BY <2>1, <2>2, NullRows DEF IInv, Rows
<1>9. ASSUME NEW g \in Goroutine, MarkCleanup(g) PROVE Rows'
  BY <1>9, MarkEffect, NullRows DEF IInv, Rows, Batch, TypeOK
<1>10. ASSUME NEW id \in JobId, BackoffElapses(id) PROVE Rows'
  BY <1>10, DueRows DEF IInv, Rows, Batch, BackoffElapses, batch, TypeOK
<1>11. ASSUME RestartWorker PROVE Rows'
  BY <1>11, NullRows DEF IInv, Rows, Batch, RestartWorker, store, TypeOK
<1>12. CASE UNCHANGED <<jobs, claimed, held>>
  BY <1>12 DEF IInv, Rows
<1> QED
  BY JobSteps, <1>1, <1>2, <1>3, <1>4, <1>5, <1>6, <1>7, <1>8, <1>9, <1>10, <1>11,
     <1>12

\* A job is taken by one goroutine.
LEMMA HandsApartStep ==
  ASSUME IInv, [Next]_vars
  PROVE  HandsApart'
<1> USE QueueAssumption DEF JobId
<1>1. ASSUME NEW p \in Process, QueueJob(p) PROVE HandsApart'
  BY <1>1, QueueEffect, NullRows DEF IInv, HandsApart, Taken, TypeOK
<1>2. ASSUME NEW h \in Handler, QueueCleanup(h) PROVE HandsApart'
  BY <1>2, QueuedRows DEF IInv, HandsApart, QueueCleanup, batch, TypeOK
<1>3. ASSUME NEW p \in Goroutine \cup {Loop}, ArchiveDoomed(p) PROVE HandsApart'
  BY <1>3, DropEffect, NullRows DEF IInv, HandsApart, TypeOK
<1>4. ASSUME ClaimDueJobs PROVE HandsApart'
  BY <1>4, ClaimEffect, NullRows, ZenonT(30) DEF IInv, HandsApart, TypeOK, ClaimDueJobs
<1>5. ASSUME EndPass PROVE HandsApart'
  BY <1>5, DropEffect, NullRows DEF IInv, HandsApart, TypeOK
<1>6. ASSUME NEW g \in Goroutine, NEW id \in JobId, Take(g, id) PROVE HandsApart'
  BY <1>6 DEF IInv, HandsApart, Take, Unheld, store, TypeOK, Batch
<1>7. ASSUME NEW g \in Goroutine, DeleteJob(g) PROVE HandsApart'
  BY <1>7, NullRows DEF IInv, HandsApart, DeleteJob, Release, TypeOK, Hands
<1>8. ASSUME NEW g \in Goroutine, UpdateJob(g) PROVE HandsApart'
  BY <1>8, UpdateEffect, NullRows DEF IInv, HandsApart, TypeOK
<1>9. ASSUME NEW g \in Goroutine, MarkCleanup(g) PROVE HandsApart'
  BY <1>9, MarkEffect, NullRows DEF IInv, HandsApart, TypeOK
<1>10. ASSUME NEW id \in JobId, BackoffElapses(id) PROVE HandsApart'
  BY <1>10, DueRows DEF IInv, HandsApart, BackoffElapses, batch, TypeOK
<1>11. ASSUME RestartWorker PROVE HandsApart'
  BY <1>11, NullRows DEF IInv, HandsApart, RestartWorker, store, TypeOK
<1>12. CASE UNCHANGED <<jobs, claimed, held>>
  BY <1>12 DEF IInv, HandsApart
<1> QED
  BY JobSteps, <1>1, <1>2, <1>3, <1>4, <1>5, <1>6, <1>7, <1>8, <1>9, <1>10, <1>11,
     <1>12

\* No step adds a second row of a document.
LEMMA OneRowStep ==
  ASSUME IInv, [Next]_vars
  PROVE  OneRowPerDocument'
<1> USE QueueAssumption DEF JobId
<1>1. ASSUME NEW p \in Process, QueueJob(p) PROVE OneRowPerDocument'
  <2>1. CASE jobs' = jobs
    BY <2>1 DEF IInv, OneRowPerDocument
  <2>2. ASSUME NEW id \in ExtractionId, NEW t \in Tender, NEW u \in Url, NEW row \in JobRow,
               ~Taken(t, u, None), row.tender = t, row.url = u,
               jobs' = [jobs EXCEPT ![id] = row]
        PROVE  OneRowPerDocument'
    <3>1. jobs'[id] = row /\ \A i \in ExtractionId \ {id} : jobs'[i] = jobs[i]
      BY <2>2 DEF IInv, TypeOK
    <3>2. \A i \in ExtractionId :
            ~(jobs[i].state # "absent" /\ jobs[i].tender = t /\ jobs[i].url = u)
      BY <2>2, Zenon DEF Taken
    <3> QED
      BY <2>2, <3>1, <3>2 DEF IInv, OneRowPerDocument
  <2> QED
    BY <1>1, <2>1, <2>2, QueueEffect
<1>2. ASSUME NEW h \in Handler, QueueCleanup(h) PROVE OneRowPerDocument'
  <2>1. \A id \in ExtractionId : jobs'[id] = jobs[id]
    BY <1>2 DEF IInv, TypeOK, QueueCleanup
  <2> QED
    BY <2>1, ZenonT(40) DEF IInv, OneRowPerDocument
<1>3. ASSUME NEW p \in Goroutine \cup {Loop}, ArchiveDoomed(p) PROVE OneRowPerDocument'
  <2>1. \A id \in ExtractionId : jobs'[id].state # "absent" => jobs'[id] = jobs[id]
    BY <1>3, DropEffect, NullRows
  <2> QED
    BY <2>1, Zenon DEF IInv, OneRowPerDocument
<1>4. ASSUME ClaimDueJobs PROVE OneRowPerDocument'
  <2>1. PICK picked \in SUBSET JobId :
          /\ \A id \in picked :
               /\ jobs[id].state \in {"queued", "retry"}
               /\ jobs'[id].state = "processing"
               /\ jobs'[id].attempts = jobs[id].attempts + 1
               /\ jobs'[id].tender = jobs[id].tender /\ jobs'[id].url = jobs[id].url
               /\ claimed'[id] = jobs'[id]
          /\ \A id \in JobId \ picked : jobs'[id] = jobs[id] /\ claimed'[id] = NoJob
    BY <1>4, ClaimEffect, Zenon
  <2>2. \A id \in ExtractionId :
          /\ jobs'[id].state # "absent" => jobs[id].state # "absent"
          /\ jobs'[id].tender = jobs[id].tender /\ jobs'[id].url = jobs[id].url
    BY <2>1
  <2> QED
    BY <2>2, Zenon DEF IInv, OneRowPerDocument
<1>5. ASSUME EndPass PROVE OneRowPerDocument'
  <2>1. \A id \in ExtractionId : jobs'[id].state # "absent" => jobs'[id] = jobs[id]
    BY <1>5, DropEffect, NullRows
  <2> QED
    BY <2>1, ZenonT(40) DEF IInv, OneRowPerDocument
<1>6. ASSUME NEW g \in Goroutine, NEW id \in JobId, Take(g, id) PROVE OneRowPerDocument'
  BY <1>6 DEF IInv, OneRowPerDocument, Rows, SameDocument, Take, Unheld, store,
     TypeOK, Batch
<1>7. ASSUME NEW g \in Goroutine, DeleteJob(g) PROVE OneRowPerDocument'
  BY <1>7, NullRows DEF IInv, OneRowPerDocument, Rows, SameDocument, DeleteJob,
     Release, TypeOK, Hands
<1>8. ASSUME NEW g \in Goroutine, UpdateJob(g) PROVE OneRowPerDocument'
  <2>1. CASE jobs' = jobs
    BY <2>1 DEF IInv, OneRowPerDocument
  <2>2. ASSUME NEW row \in JobRow, held[g] \in JobId,
               held[g] \in ExtractionId => ~Taken(row.tender, row.url, held[g]),
               jobs' = [jobs EXCEPT ![held[g]] = row]
        PROVE  OneRowPerDocument'
    <3>1. jobs'[held[g]] = row /\ \A i \in JobId \ {held[g]} : jobs'[i] = jobs[i]
      BY <2>2 DEF IInv, TypeOK
    <3>2. held[g] \in ExtractionId =>
            \A i \in ExtractionId \ {held[g]} :
              ~(/\ jobs[i].state # "absent"
                /\ jobs[i].tender = row.tender /\ jobs[i].url = row.url)
      BY <2>2, Zenon DEF Taken
    <3> QED
      BY <3>1, <3>2 DEF IInv, OneRowPerDocument
  <2> QED
    BY <1>8, <2>1, <2>2, UpdateEffect
<1>9. ASSUME NEW g \in Goroutine, MarkCleanup(g) PROVE OneRowPerDocument'
  BY <1>9, MarkEffect, NullRows DEF IInv, OneRowPerDocument, Rows, SameDocument,
     TypeOK
<1>10. ASSUME NEW id \in JobId, BackoffElapses(id) PROVE OneRowPerDocument'
  BY <1>10, DueRows DEF IInv, OneRowPerDocument, Rows, SameDocument, BackoffElapses,
     batch, TypeOK
<1>11. ASSUME RestartWorker PROVE OneRowPerDocument'
  BY <1>11, NullRows DEF IInv, OneRowPerDocument, Rows, SameDocument, RestartWorker,
     store, TypeOK
<1>12. CASE UNCHANGED <<jobs, claimed, held>>
  BY <1>12 DEF IInv, OneRowPerDocument
<1> QED
  BY JobSteps, <1>1, <1>2, <1>3, <1>4, <1>5, <1>6, <1>7, <1>8, <1>9, <1>10, <1>11,
     <1>12

\* Attempts go on fitting the state.
LEMMA AttemptsStep ==
  ASSUME IInv, [Next]_vars
  PROVE  AttemptsBounded'
<1> USE QueueAssumption DEF JobId
<1>1. ASSUME NEW p \in Process, QueueJob(p) PROVE AttemptsBounded'
  <2>1. CASE jobs' = jobs
    BY <1>1, <2>1, QueueEffect DEF IInv, AttemptsBounded
  <2>2. ASSUME NEW id \in ExtractionId, NEW row \in JobRow,
               row.state = "queued", row.attempts = 0, jobs' = [jobs EXCEPT ![id] = row]
        PROVE  AttemptsBounded'
    <3>1. AttemptsFit(row)
      BY <2>2 DEF AttemptsFit
    <3>2. \A i \in JobId : jobs'[i] \in {row, jobs[i]}
      BY <2>2 DEF IInv, TypeOK
    <3>3. claimed' = claimed
      BY <1>1, QueueEffect
    <3> QED
      BY <3>1, <3>2, <3>3 DEF IInv, AttemptsBounded
  <2> QED
    BY <1>1, <2>1, <2>2, QueueEffect
<1>2. ASSUME NEW h \in Handler, QueueCleanup(h) PROVE AttemptsBounded'
  BY <1>2, QueuedRows DEF IInv, AttemptsBounded, AttemptsFit, Batch, QueueCleanup,
     batch, TypeOK
<1>3. ASSUME NEW p \in Goroutine \cup {Loop}, ArchiveDoomed(p) PROVE AttemptsBounded'
  BY <1>3, DropEffect, NullRows DEF IInv, AttemptsBounded, AttemptsFit, Batch, TypeOK
<1>4. ASSUME ClaimDueJobs PROVE AttemptsBounded'
  <2>1. PICK picked \in SUBSET JobId :
          /\ \A id \in picked :
               /\ jobs[id].state \in {"queued", "retry"}
               /\ jobs'[id].state = "processing"
               /\ jobs'[id].attempts = jobs[id].attempts + 1
               /\ jobs'[id].tender = jobs[id].tender /\ jobs'[id].url = jobs[id].url
               /\ claimed'[id] = jobs'[id]
          /\ \A id \in JobId \ picked : jobs'[id] = jobs[id] /\ claimed'[id] = NoJob
    BY <1>4, ClaimEffect, Zenon
  <2>2. ASSUME NEW id \in picked PROVE AttemptsFit(jobs'[id])
    <3>1. /\ jobs[id].state \in {"queued", "retry"} /\ AttemptsFit(jobs[id])
          /\ jobs'[id].state = "processing" /\ jobs'[id].attempts = jobs[id].attempts + 1
      BY <2>1 DEF IInv, AttemptsBounded
    <3> QED
      BY <3>1 DEF AttemptsFit
  <2>3. AttemptsFit(NoJob)
    BY NullRows DEF AttemptsFit
  <2> QED
    BY <2>1, <2>2, <2>3 DEF IInv, AttemptsBounded
<1>5. ASSUME EndPass PROVE AttemptsBounded'
  BY <1>5, DropEffect, NullRows DEF IInv, AttemptsBounded, AttemptsFit, Batch, TypeOK
<1>6. ASSUME NEW g \in Goroutine, NEW id \in JobId, Take(g, id) PROVE AttemptsBounded'
  BY <1>6 DEF IInv, AttemptsBounded, AttemptsFit, Batch, Take, Unheld, store, TypeOK
<1>7. ASSUME NEW g \in Goroutine, DeleteJob(g) PROVE AttemptsBounded'
  BY <1>7, NullRows DEF IInv, AttemptsBounded, AttemptsFit, Batch, DeleteJob, Release,
     TypeOK, Hands
<1>8. ASSUME NEW g \in Goroutine, UpdateJob(g) PROVE AttemptsBounded'
  <2>1. PICK row \in JobRow :
          /\ AttemptsFit(row)
          /\ jobs' = jobs \/ jobs' = [jobs EXCEPT ![held[g]] = row]
          /\ claimed' = [claimed EXCEPT ![held[g]] = NoJob]
    BY <1>8, UpdateEffect, Zenon
  <2>2. AttemptsFit(NoJob)
    BY NullRows DEF AttemptsFit
  <2>3. \A i \in JobId : jobs'[i] \in {row, jobs[i]} /\ claimed'[i] \in {NoJob, claimed[i]}
    BY <2>1 DEF IInv, TypeOK
  <2> QED
    BY <2>1, <2>2, <2>3 DEF IInv, AttemptsBounded
<1>9. ASSUME NEW g \in Goroutine, MarkCleanup(g) PROVE AttemptsBounded'
  BY <1>9, MarkEffect, NullRows DEF IInv, AttemptsBounded, AttemptsFit, Batch, TypeOK
<1>10. ASSUME NEW id \in JobId, BackoffElapses(id) PROVE AttemptsBounded'
  BY <1>10, DueRows DEF IInv, AttemptsBounded, AttemptsFit, Batch, BackoffElapses,
     batch, TypeOK
<1>11. ASSUME RestartWorker PROVE AttemptsBounded'
  BY <1>11, NullRows DEF IInv, AttemptsBounded, AttemptsFit, Batch, RestartWorker,
     store, TypeOK
<1>12. CASE UNCHANGED <<jobs, claimed, held>>
  BY <1>12 DEF IInv, AttemptsBounded
<1> QED
  BY JobSteps, <1>1, <1>2, <1>3, <1>4, <1>5, <1>6, <1>7, <1>8, <1>9, <1>10, <1>11,
     <1>12

\* No document is claimed twice.
LEMMA ClaimsApartStep ==
  ASSUME IInv, [Next]_vars
  PROVE  ClaimsApart'
<1> USE QueueAssumption DEF JobId
<1>1. ASSUME NEW p \in Process, QueueJob(p) PROVE ClaimsApart'
  BY <1>1, QueueEffect, NullRows DEF IInv, ClaimsApart, OneRowPerDocument, Batch,
     Taken, TypeOK
<1>2. ASSUME NEW h \in Handler, QueueCleanup(h) PROVE ClaimsApart'
  BY <1>2, QueuedRows DEF IInv, ClaimsApart, OneRowPerDocument, Batch, QueueCleanup,
     batch, TypeOK
<1>3. ASSUME NEW p \in Goroutine \cup {Loop}, ArchiveDoomed(p) PROVE ClaimsApart'
  BY <1>3, DropEffect, NullRows DEF IInv, ClaimsApart, OneRowPerDocument, Batch,
     TypeOK
<1>4. ASSUME ClaimDueJobs PROVE ClaimsApart'
  <2>1. PICK picked \in SUBSET JobId :
          /\ \A id \in picked :
               /\ jobs[id].state \in {"queued", "retry"}
               /\ jobs'[id].state = "processing"
               /\ jobs'[id].attempts = jobs[id].attempts + 1
               /\ jobs'[id].tender = jobs[id].tender /\ jobs'[id].url = jobs[id].url
               /\ claimed'[id] = jobs'[id]
          /\ \A id \in JobId \ picked : jobs'[id] = jobs[id] /\ claimed'[id] = NoJob
    BY <1>4, ClaimEffect, Zenon
  <2>2. \A id \in ExtractionId : claimed'[id].state # "absent" =>
          /\ jobs[id].state # "absent"
          /\ claimed'[id].tender = jobs[id].tender /\ claimed'[id].url = jobs[id].url
    BY <2>1, NullRows
  <2> QED
    BY <2>2, ZenonT(40) DEF IInv, ClaimsApart, OneRowPerDocument
<1>5. ASSUME EndPass PROVE ClaimsApart'
  BY <1>5, DropEffect, NullRows DEF IInv, ClaimsApart, OneRowPerDocument, Batch,
     TypeOK
<1>6. ASSUME NEW g \in Goroutine, NEW id \in JobId, Take(g, id) PROVE ClaimsApart'
  BY <1>6 DEF IInv, ClaimsApart, OneRowPerDocument, Batch, Take, Unheld, store, TypeOK
<1>7. ASSUME NEW g \in Goroutine, DeleteJob(g) PROVE ClaimsApart'
  BY <1>7, NullRows DEF IInv, ClaimsApart, OneRowPerDocument, Batch, DeleteJob,
     Release, TypeOK, Hands
<1>8. ASSUME NEW g \in Goroutine, UpdateJob(g) PROVE ClaimsApart'
  BY <1>8, UpdateEffect, NullRows, SMTT(20) DEF IInv, ClaimsApart, OneRowPerDocument, Batch,
     TypeOK
<1>9. ASSUME NEW g \in Goroutine, MarkCleanup(g) PROVE ClaimsApart'
  BY <1>9, MarkEffect, NullRows DEF IInv, ClaimsApart, OneRowPerDocument, Batch,
     TypeOK
<1>10. ASSUME NEW id \in JobId, BackoffElapses(id) PROVE ClaimsApart'
  BY <1>10, DueRows DEF IInv, ClaimsApart, OneRowPerDocument, Batch, BackoffElapses,
     batch, TypeOK
<1>11. ASSUME RestartWorker PROVE ClaimsApart'
  BY <1>11, NullRows DEF IInv, ClaimsApart, OneRowPerDocument, Batch, RestartWorker,
     store, TypeOK
<1>12. CASE UNCHANGED <<jobs, claimed, held>>
  BY <1>12 DEF IInv, ClaimsApart
<1> QED
  BY JobSteps, <1>1, <1>2, <1>3, <1>4, <1>5, <1>6, <1>7, <1>8, <1>9, <1>10, <1>11,
     <1>12

\* Rows and their copies go on naming one document.
LEMMA SameDocumentStep ==
  ASSUME IInv, [Next]_vars
  PROVE  SameDocument'
<1> USE QueueAssumption DEF JobId
<1>1. ASSUME NEW p \in Process, QueueJob(p) PROVE SameDocument'
  BY <1>1, QueueEffect, NullRows, ZenonT(30) DEF IInv, SameDocument, Rows, Batch, Taken, TypeOK
<1>2. ASSUME NEW h \in Handler, QueueCleanup(h) PROVE SameDocument'
  BY <1>2, QueuedRows, SMTT(20) DEF IInv, SameDocument, Rows, Batch, QueueCleanup, batch, TypeOK
<1>3. ASSUME NEW p \in Goroutine \cup {Loop}, ArchiveDoomed(p) PROVE SameDocument'
  BY <1>3, DropEffect, NullRows DEF IInv, SameDocument, Rows, Batch, TypeOK
<1>4. ASSUME ClaimDueJobs PROVE SameDocument'
  BY <1>4, ClaimEffect, NullRows DEF IInv, SameDocument, Rows, Batch, TypeOK,
     ClaimDueJobs
<1>5. ASSUME EndPass PROVE SameDocument'
  BY <1>5, DropEffect, NullRows DEF IInv, SameDocument, Rows, Batch, TypeOK
<1>6. ASSUME NEW g \in Goroutine, NEW id \in JobId, Take(g, id) PROVE SameDocument'
  BY <1>6 DEF IInv, SameDocument, Rows, Batch, Take, Unheld, store, TypeOK
<1>7. ASSUME NEW g \in Goroutine, DeleteJob(g) PROVE SameDocument'
  BY <1>7, NullRows DEF IInv, SameDocument, Rows, Batch, DeleteJob, Release, TypeOK,
     Hands
<1>8. ASSUME NEW g \in Goroutine, UpdateJob(g) PROVE SameDocument'
  <2>1. PICK row \in JobRow :
          /\ held[g] \in JobId
          /\ jobs' = jobs \/ jobs' = [jobs EXCEPT ![held[g]] = row]
          /\ claimed' = [claimed EXCEPT ![held[g]] = NoJob]
    BY <1>8, UpdateEffect
  <2>2. /\ claimed'[held[g]] = NoJob
        /\ \A i \in JobId \ {held[g]} : jobs'[i] = jobs[i] /\ claimed'[i] = claimed[i]
    BY <2>1 DEF IInv, TypeOK
  <2> QED
    BY <2>1, <2>2, NullRows DEF IInv, SameDocument
<1>9. ASSUME NEW g \in Goroutine, MarkCleanup(g) PROVE SameDocument'
  BY <1>9, MarkEffect, NullRows DEF IInv, SameDocument, Rows, Batch, TypeOK
<1>10. ASSUME NEW id \in JobId, BackoffElapses(id) PROVE SameDocument'
  BY <1>10, DueRows DEF IInv, SameDocument, Rows, Batch, BackoffElapses, batch, TypeOK
<1>11. ASSUME RestartWorker PROVE SameDocument'
  BY <1>11, NullRows DEF IInv, SameDocument, Rows, Batch, RestartWorker, store, TypeOK
<1>12. CASE UNCHANGED <<jobs, claimed, held>>
  BY <1>12 DEF IInv, SameDocument
<1> QED
  BY JobSteps, <1>1, <1>2, <1>3, <1>4, <1>5, <1>6, <1>7, <1>8, <1>9, <1>10, <1>11,
     <1>12

\* What follows a written tender leaves the process knowing what it writes.
LEMMA AfterUpsertLocals ==
  ASSUME IInv, NEW p \in Process, NEW ok \in BOOLEAN, tid[p] \in Tender, AfterUpsert(p, ok)
  PROVE  Locals'
<1>1. \/ Done(p)
      \/ Goto(p, "update") /\ UNCHANGED <<tid, ten>>
      \/ Goto(p, "enqueue") /\ UNCHANGED <<tid, ten>> /\ ten[p].url # None
  BY Zenon DEF AfterUpsert
<1>2. ten[p].url \in Url \cup {None}
  BY DEF IInv, TypeOK, TenderRow
<1>3. CASE Done(p)
  BY <1>3 DEF IInv, TypeOK, Locals, Done, Goto
<1>4. CASE Goto(p, "update") /\ UNCHANGED <<tid, ten>>
  BY <1>4 DEF IInv, TypeOK, Locals, Goto
<1>5. CASE Goto(p, "enqueue") /\ UNCHANGED <<tid, ten>> /\ ten[p].url # None
  BY <1>2, <1>5 DEF IInv, TypeOK, Locals, Goto
<1> QED
  BY <1>1, <1>3, <1>4, <1>5

\* Processes go on knowing what they write.
LEMMA LocalsStep ==
  ASSUME IInv, [Next]_vars
  PROVE  Locals'
<1> USE QueueAssumption DEF JobId, Process, Lister, store, clock, batch, locals
<1>1. ASSUME NEW p \in Process, UpsertRead(p) PROVE Locals'
  BY <1>1 DEF IInv, TypeOK, Locals, Rows, Hands, UpsertRead, Goto, KeepArchived,
     StoreResult
<1>2. ASSUME NEW p \in Process, UpsertRow(p) PROVE Locals'
  <2>1. tid[p] \in Tender
    BY <1>2 DEF IInv, Locals, UpsertRow
  <2>2. CASE Goto(p, "upsert_index") /\ UNCHANGED <<tid, ten>>
    BY <2>1, <2>2 DEF IInv, TypeOK, Locals, Goto
  <2> QED
    BY <1>2, <2>1, <2>2, AfterUpsertLocals DEF UpsertRow
<1>3. ASSUME NEW p \in Process, UpsertIndex(p) PROVE Locals'
  <2>1. tid[p] \in Tender
    BY <1>3 DEF IInv, Locals, UpsertIndex
  <2>2. \E ok \in BOOLEAN : AfterUpsert(p, ok)
    BY <1>3 DEF UpsertIndex, StoreResult
  <2> QED
    BY <2>1, <2>2, AfterUpsertLocals
<1>4. ASSUME NEW p \in Process, QueueJob(p) PROVE Locals'
  BY <1>4 DEF IInv, TypeOK, Locals, Rows, Hands, QueueJob, Goto, Done, StoreResult,
     Taken, Fresh, QueuedJob
<1>5. ASSUME NEW h \in Handler, NEW t \in Tender, RequestExtraction(h, t) PROVE Locals'
  BY <1>5 DEF IInv, TypeOK, Locals, Rows, Hands, RequestExtraction, BeginUpsert, Goto,
     Requested, IsExpired
<1>6. ASSUME NEW h \in Handler, RequestCleanup(h) PROVE Locals'
  BY <1>6 DEF IInv, TypeOK, Locals, Rows, Hands, RequestCleanup, Goto
<1>7. ASSUME NEW h \in Handler, QueueCleanup(h) PROVE Locals'
  BY <1>7 DEF IInv, TypeOK, Locals, Rows, Hands, QueueCleanup, Goto, QueuedJob
<1>8. ASSUME NEW p \in Lister, NEW t \in Tender, ListTender(p, t) PROVE Locals'
  BY <1>8 DEF IInv, TypeOK, Locals, Rows, Hands, ListTender, Listing, BeginUpsert,
     Goto, Listed, IsExpired
<1>9. ASSUME NEW p \in Lister, NEW t \in Tender, PassOver(p, t) PROVE Locals'
  BY <1>9 DEF IInv, TypeOK, Locals, Rows, Hands, PassOver
<1>10. ASSUME EndSources PROVE Locals'
  BY <1>10 DEF IInv, TypeOK, Locals, Rows, Hands, EndSources, Listing
<1>11. ASSUME AutomaticCleanup PROVE Locals'
  BY <1>11 DEF IInv, TypeOK, Locals, Rows, Hands, AutomaticCleanup, Goto
<1>12. ASSUME NEW p \in Goroutine \cup {Loop}, ListDoomed(p) PROVE Locals'
  BY <1>12 DEF IInv, TypeOK, Locals, Rows, Hands, ListDoomed, AfterCleanup, Goto,
     NoSnap, Exhausted
<1>13. ASSUME NEW p \in Goroutine \cup {Loop}, ArchiveDoomed(p) PROVE Locals'
  BY <1>13 DEF IInv, TypeOK, Locals, Rows, Hands, ArchiveDoomed, AfterCleanup, Goto,
     NoSnap, Exhausted
<1>14. ASSUME ClaimDueJobs PROVE Locals'
  BY <1>14 DEF IInv, TypeOK, Locals, Rows, Hands, ClaimDueJobs, Claimable
<1>15. ASSUME ClaimFails PROVE Locals'
  BY <1>15 DEF IInv, TypeOK, Locals, Rows, Hands, ClaimFails
<1>16. ASSUME EndPass PROVE Locals'
  BY <1>16 DEF IInv, TypeOK, Locals, Rows, Hands, EndPass
<1>17. ASSUME NEW g \in Goroutine, NEW id \in JobId, Take(g, id) PROVE Locals'
  BY <1>17 DEF IInv, TypeOK, Locals, Rows, Hands, Take, Goto, Unheld
<1>18. ASSUME NEW g \in Goroutine, Start(g) PROVE Locals'
  BY <1>18 DEF IInv, TypeOK, Locals, Rows, Hands, Start, Goto, BeginUpsert, IsExpired
<1>19. ASSUME NEW g \in Goroutine, DeleteJob(g) PROVE Locals'
  BY <1>19 DEF IInv, TypeOK, Locals, Rows, Hands, DeleteJob, Goto, Done, Release
<1>20. ASSUME NEW g \in Goroutine, Extract(g) PROVE Locals'
  BY <1>20 DEF IInv, TypeOK, Locals, Rows, Hands, Extract, Goto, Exhausted
<1>21. ASSUME NEW g \in Goroutine, Reload(g) PROVE Locals'
  BY <1>21 DEF IInv, TypeOK, Locals, Rows, Hands, Reload, Goto, BeginUpsert
<1>22. ASSUME NEW g \in Goroutine, UpdateJob(g) PROVE Locals'
  <2>1. CASE Done(g)
    BY <2>1 DEF IInv, TypeOK, Locals, Done, Goto
  <2>2. ASSUME held[g] \in ExtractionId, Goto(g, "status"), UNCHANGED ten,
               tid' = [tid EXCEPT ![g] = claimed[held[g]].tender],
               claimed[held[g]].state = "processing"
        PROVE  Locals'
    <3>1. claimed[held[g]].tender \in Tender
      BY <2>2 DEF IInv, Rows
    <3> QED
      BY <2>2, <3>1 DEF IInv, TypeOK, Locals, Goto
  <2> QED
    BY <1>22, <2>1, <2>2, UpdateEffect
<1>23. ASSUME NEW g \in Goroutine, UpdateStatus(g) PROVE Locals'
  BY <1>23 DEF IInv, TypeOK, Locals, Rows, Hands, UpdateStatus, Goto, Done,
     BeginUpsert
<1>24. ASSUME NEW g \in Goroutine, MarkCleanup(g) PROVE Locals'
  BY <1>24 DEF IInv, TypeOK, Locals, Rows, Hands, MarkCleanup, Goto, Release
<1>25. ASSUME ClosingDatePasses PROVE Locals'
  BY <1>25 DEF IInv, TypeOK, Locals, Rows, Hands, ClosingDatePasses
<1>26. ASSUME NEW t \in Tender, TenderAges(t) PROVE Locals'
  BY <1>26 DEF IInv, TypeOK, Locals, Rows, Hands, TenderAges
<1>27. ASSUME NEW id \in JobId, BackoffElapses(id) PROVE Locals'
  BY <1>27 DEF IInv, TypeOK, Locals, Rows, Hands, BackoffElapses
<1>28. ASSUME RestartWorker PROVE Locals'
  BY <1>28 DEF IInv, TypeOK, Locals, Rows, Hands, RestartWorker, Forget, NoSnap
<1>29. ASSUME RestartApp PROVE Locals'
  BY <1>29 DEF IInv, TypeOK, Locals, Rows, Hands, RestartApp, Forget, NoSnap
<1>30. CASE UNCHANGED vars
  BY <1>30 DEF IInv, Locals, Rows, Hands, vars
<1> QED
  BY <1>1, <1>2, <1>3, <1>4, <1>5, <1>6, <1>7, <1>8, <1>9, <1>10, <1>11, <1>12, <1>13,
     <1>14, <1>15, <1>16, <1>17, <1>18, <1>19, <1>20, <1>21, <1>22, <1>23, <1>24,
     <1>25, <1>26, <1>27, <1>28, <1>29, <1>30 DEF Next, GoroutineStep, LoopStep,
     StartupStep, HandlerStep, TimeStep, Upsert, CleanupStep, List

\* Goroutines go on holding claimed jobs.
LEMMA HandsStep ==
  ASSUME IInv, [Next]_vars
  PROVE  Hands'
<1> USE QueueAssumption DEF JobId, Process, Lister, store, clock, batch, locals
<1>1. ASSUME NEW p \in Process, UpsertRead(p) PROVE Hands'
  BY <1>1 DEF IInv, TypeOK, Hands, Concluded, HandsApart, Batch, Exhausted,
     UpsertRead, Goto, KeepArchived, StoreResult, JobRow, JobState, Pending, Settled
<1>2. ASSUME NEW p \in Process, UpsertRow(p) PROVE Hands'
  BY <1>2 DEF IInv, TypeOK, Hands, Concluded, HandsApart, Batch, Exhausted, UpsertRow,
     AfterUpsert, Goto, Done, JobRow, JobState, Pending, Settled
<1>3. ASSUME NEW p \in Process, UpsertIndex(p) PROVE Hands'
  BY <1>3 DEF IInv, TypeOK, Hands, Concluded, HandsApart, Batch, Exhausted,
     UpsertIndex, AfterUpsert, Goto, Done, StoreResult, JobRow, JobState, Pending,
     Settled
<1>4. ASSUME NEW p \in Process, QueueJob(p) PROVE Hands'
  BY <1>4 DEF IInv, TypeOK, Hands, Concluded, HandsApart, Batch, Exhausted, QueueJob,
     Goto, Done, StoreResult, Taken, Fresh, QueuedJob, JobRow, JobState, Pending,
     Settled
<1>5. ASSUME NEW h \in Handler, NEW t \in Tender, RequestExtraction(h, t) PROVE Hands'
  BY <1>5 DEF IInv, TypeOK, Hands, Concluded, HandsApart, Batch, Exhausted,
     RequestExtraction, BeginUpsert, Goto, Requested, IsExpired, JobRow, JobState,
     Pending, Settled
<1>6. ASSUME NEW h \in Handler, RequestCleanup(h) PROVE Hands'
  BY <1>6 DEF IInv, TypeOK, Hands, Concluded, HandsApart, Batch, Exhausted,
     RequestCleanup, Goto, JobRow, JobState, Pending, Settled
<1>7. ASSUME NEW h \in Handler, QueueCleanup(h) PROVE Hands'
  BY <1>7 DEF IInv, TypeOK, Hands, Concluded, HandsApart, Batch, Exhausted,
     QueueCleanup, Goto, QueuedJob, JobRow, JobState, Pending, Settled
<1>8. ASSUME NEW p \in Lister, NEW t \in Tender, ListTender(p, t) PROVE Hands'
  BY <1>8 DEF IInv, TypeOK, Hands, Concluded, HandsApart, Batch, Exhausted,
     ListTender, Listing, BeginUpsert, Goto, Listed, IsExpired, JobRow, JobState,
     Pending, Settled
<1>9. ASSUME NEW p \in Lister, NEW t \in Tender, PassOver(p, t) PROVE Hands'
  BY <1>9 DEF IInv, TypeOK, Hands, Concluded, HandsApart, Batch, Exhausted, PassOver,
     JobRow, JobState, Pending, Settled
<1>10. ASSUME EndSources PROVE Hands'
  BY <1>10 DEF IInv, TypeOK, Hands, Concluded, HandsApart, Batch, Exhausted,
     EndSources, Listing, JobRow, JobState, Pending, Settled
<1>11. ASSUME AutomaticCleanup PROVE Hands'
  BY <1>11 DEF IInv, TypeOK, Hands, Concluded, HandsApart, Batch, Exhausted,
     AutomaticCleanup, Goto, JobRow, JobState, Pending, Settled
<1>12. ASSUME NEW p \in Goroutine \cup {Loop}, ListDoomed(p) PROVE Hands'
  BY <1>12 DEF IInv, TypeOK, Hands, Concluded, HandsApart, Batch, Exhausted,
     ListDoomed, AfterCleanup, Goto, NoSnap, JobRow, JobState, Pending, Settled
<1>13. ASSUME NEW p \in Goroutine \cup {Loop}, ArchiveDoomed(p) PROVE Hands'
  BY <1>13 DEF IInv, TypeOK, Hands, Concluded, HandsApart, Batch, Exhausted,
     ArchiveDoomed, AfterCleanup, Goto, NoSnap, JobRow, JobState, Pending, Settled
<1>14. ASSUME ClaimDueJobs PROVE Hands'
  <2>1. \A id \in JobId : claimed[id].state = "absent"
    BY <1>14, ClaimEffect
  <2>2. \A g \in Goroutine : held[g] = None
    BY <2>1 DEF IInv, TypeOK, Hands
  <2>3. UNCHANGED <<held, pc, outcome>>
    BY <1>14 DEF ClaimDueJobs
  <2> QED
    BY <2>2, <2>3 DEF IInv, Hands, Concluded
<1>15. ASSUME ClaimFails PROVE Hands'
  BY <1>15 DEF IInv, TypeOK, Hands, Concluded, HandsApart, Batch, Exhausted,
     ClaimFails, JobRow, JobState, Pending, Settled
<1>16. ASSUME EndPass PROVE Hands'
  BY <1>16 DEF IInv, TypeOK, Hands, Concluded, HandsApart, Batch, Exhausted, EndPass,
     JobRow, JobState, Pending, Settled
<1>17. ASSUME NEW g \in Goroutine, NEW id \in JobId, Take(g, id) PROVE Hands'
  BY <1>17 DEF IInv, TypeOK, Hands, Concluded, HandsApart, Batch, Exhausted, Take,
     Goto, Unheld, JobRow, JobState, Pending, Settled
<1>18. ASSUME NEW g \in Goroutine, Start(g) PROVE Hands'
  <2>1. UNCHANGED <<held, claimed>> /\ held[g] \in ExtractionId
    BY <1>18 DEF IInv, Hands, Start
  <2>2. \A h \in Goroutine \ {g} : pc'[h] = pc[h] /\ outcome'[h] = outcome[h]
    BY <1>18 DEF IInv, TypeOK, Process, Start, Goto, BeginUpsert
  <2>3. \/ pc'[g] \in {"delete", "extract"}
        \/ pc'[g] \in {"update", "upsert_read"} /\ outcome'[g] \in {"skipped", "failed"}
    BY <1>18 DEF IInv, TypeOK, Process, Start, Goto, BeginUpsert
  <2>4. held[g] # None
    BY <2>1, QueueAssumption
  <2>5. QED
    BY <2>1, <2>2, <2>3, <2>4 DEF IInv, Hands, Concluded, Exhausted, Settled
<1>19. ASSUME NEW g \in Goroutine, DeleteJob(g) PROVE Hands'
  BY <1>19 DEF IInv, TypeOK, Hands, Concluded, HandsApart, Batch, Exhausted,
     DeleteJob, Goto, Done, Release, JobRow, JobState, Pending, Settled
<1>20. ASSUME NEW g \in Goroutine, Extract(g) PROVE Hands'
  BY <1>20 DEF IInv, TypeOK, Hands, Concluded, HandsApart, Batch, Exhausted, Extract,
     Goto, JobRow, JobState, Pending, Settled
<1>21. ASSUME NEW g \in Goroutine, Reload(g) PROVE Hands'
  BY <1>21 DEF IInv, TypeOK, Hands, Concluded, HandsApart, Batch, Exhausted, Reload,
     Goto, BeginUpsert, JobRow, JobState, Pending, Settled
<1>22. ASSUME NEW g \in Goroutine, UpdateJob(g) PROVE Hands'
  BY <1>22 DEF IInv, TypeOK, Hands, Concluded, HandsApart, Batch, Exhausted,
     UpdateJob, Goto, Done, Release, Finish, Taken, JobRow, JobState, Pending,
     Settled
<1>23. ASSUME NEW g \in Goroutine, UpdateStatus(g) PROVE Hands'
  BY <1>23 DEF IInv, TypeOK, Hands, Concluded, HandsApart, Batch, Exhausted,
     UpdateStatus, Goto, Done, BeginUpsert, JobRow, JobState, Pending, Settled
<1>24. ASSUME NEW g \in Goroutine, MarkCleanup(g) PROVE Hands'
  BY <1>24 DEF IInv, TypeOK, Hands, Concluded, HandsApart, Batch, Exhausted,
     MarkCleanup, Goto, Release, JobRow, JobState, Pending, Settled
<1>25. ASSUME ClosingDatePasses PROVE Hands'
  BY <1>25 DEF IInv, TypeOK, Hands, Concluded, HandsApart, Batch, Exhausted,
     ClosingDatePasses, JobRow, JobState, Pending, Settled
<1>26. ASSUME NEW t \in Tender, TenderAges(t) PROVE Hands'
  BY <1>26 DEF IInv, TypeOK, Hands, Concluded, HandsApart, Batch, Exhausted,
     TenderAges, JobRow, JobState, Pending, Settled
<1>27. ASSUME NEW id \in JobId, BackoffElapses(id) PROVE Hands'
  BY <1>27 DEF IInv, TypeOK, Hands, Concluded, HandsApart, Batch, Exhausted,
     BackoffElapses, JobRow, JobState, Pending, Settled
<1>28. ASSUME RestartWorker PROVE Hands'
  BY <1>28 DEF IInv, TypeOK, Hands, Concluded, HandsApart, Batch, Exhausted,
     RestartWorker, Forget, NoSnap, JobRow, JobState, Pending, Settled
<1>29. ASSUME RestartApp PROVE Hands'
  BY <1>29 DEF IInv, TypeOK, Hands, Concluded, HandsApart, Batch, Exhausted,
     RestartApp, Forget, NoSnap, JobRow, JobState, Pending, Settled
<1>30. CASE UNCHANGED vars
  BY <1>30 DEF IInv, Hands, Concluded, HandsApart, Batch, Exhausted, vars
<1> QED
  BY <1>1, <1>2, <1>3, <1>4, <1>5, <1>6, <1>7, <1>8, <1>9, <1>10, <1>11, <1>12, <1>13,
     <1>14, <1>15, <1>16, <1>17, <1>18, <1>19, <1>20, <1>21, <1>22, <1>23, <1>24,
     <1>25, <1>26, <1>27, <1>28, <1>29, <1>30 DEF Next, GoroutineStep, LoopStep,
     StartupStep, HandlerStep, TimeStep, Upsert, CleanupStep, List

\* Claimed copies come and go with the jobs of a pass.
LEMMA BatchStep ==
  ASSUME IInv, [Next]_vars
  PROVE  Batch'
<1> USE QueueAssumption DEF JobId, Process, Lister, store, clock, batch, locals
<1>1. ASSUME NEW p \in Process, UpsertRead(p) PROVE Batch'
  BY <1>1, NullRows DEF IInv, TypeOK, Batch, Hands, UpsertRead, Goto, KeepArchived,
     StoreResult
<1>2. ASSUME NEW p \in Process, UpsertRow(p) PROVE Batch'
  BY <1>2, NullRows DEF IInv, TypeOK, Batch, Hands, UpsertRow, AfterUpsert, Goto, Done
<1>3. ASSUME NEW p \in Process, UpsertIndex(p) PROVE Batch'
  BY <1>3, NullRows DEF IInv, TypeOK, Batch, Hands, UpsertIndex, AfterUpsert, Goto,
     Done, StoreResult
<1>4. ASSUME NEW p \in Process, QueueJob(p) PROVE Batch'
  BY <1>4, NullRows DEF IInv, TypeOK, Batch, Hands, QueueJob, Goto, Done, StoreResult,
     Taken, Fresh, QueuedJob
<1>5. ASSUME NEW h \in Handler, NEW t \in Tender, RequestExtraction(h, t) PROVE Batch'
  BY <1>5, NullRows DEF IInv, TypeOK, Batch, Hands, RequestExtraction, BeginUpsert,
     Goto, Requested, IsExpired
<1>6. ASSUME NEW h \in Handler, RequestCleanup(h) PROVE Batch'
  BY <1>6, NullRows DEF IInv, TypeOK, Batch, Hands, RequestCleanup, Goto
<1>7. ASSUME NEW h \in Handler, QueueCleanup(h) PROVE Batch'
  BY <1>7, NullRows DEF IInv, TypeOK, Batch, Hands, QueueCleanup, Goto, QueuedJob
<1>8. ASSUME NEW p \in Lister, NEW t \in Tender, ListTender(p, t) PROVE Batch'
  BY <1>8, NullRows DEF IInv, TypeOK, Batch, Hands, ListTender, Listing, BeginUpsert,
     Goto, Listed, IsExpired
<1>9. ASSUME NEW p \in Lister, NEW t \in Tender, PassOver(p, t) PROVE Batch'
  BY <1>9, NullRows DEF IInv, TypeOK, Batch, Hands, PassOver
<1>10. ASSUME EndSources PROVE Batch'
  BY <1>10, NullRows DEF IInv, TypeOK, Batch, Hands, EndSources, Listing
<1>11. ASSUME AutomaticCleanup PROVE Batch'
  BY <1>11, NullRows DEF IInv, TypeOK, Batch, Hands, AutomaticCleanup, Goto
<1>12. ASSUME NEW p \in Goroutine \cup {Loop}, ListDoomed(p) PROVE Batch'
  BY <1>12, NullRows DEF IInv, TypeOK, Batch, Hands, ListDoomed, AfterCleanup, Goto,
     NoSnap, Exhausted
<1>13. ASSUME NEW p \in Goroutine \cup {Loop}, ArchiveDoomed(p) PROVE Batch'
  BY <1>13, NullRows DEF IInv, TypeOK, Batch, Hands, ArchiveDoomed, AfterCleanup,
     Goto, NoSnap, Exhausted
<1>14. ASSUME ClaimDueJobs PROVE Batch'
  <2>1. PICK picked \in SUBSET JobId :
          /\ \A id \in picked :
               /\ jobs[id].state \in {"queued", "retry"}
               /\ jobs'[id].state = "processing"
               /\ jobs'[id].attempts = jobs[id].attempts + 1
               /\ jobs'[id].tender = jobs[id].tender /\ jobs'[id].url = jobs[id].url
               /\ claimed'[id] = jobs'[id]
          /\ \A id \in JobId \ picked : jobs'[id] = jobs[id] /\ claimed'[id] = NoJob
    BY <1>14, ClaimEffect, Zenon
  <2>2. phase' = "jobs" /\ phase = "claim" /\ pc' = pc
    BY <1>14 DEF ClaimDueJobs
  <2>3. \A id \in JobId : claimed'[id].state \in {"absent", "processing"}
    BY <2>1, NullRows
  <2> QED
    BY <2>2, <2>3 DEF IInv, Batch
<1>15. ASSUME ClaimFails PROVE Batch'
  BY <1>15, NullRows DEF IInv, TypeOK, Batch, Hands, ClaimFails
<1>16. ASSUME EndPass PROVE Batch'
  BY <1>16, NullRows DEF IInv, TypeOK, Batch, Hands, EndPass
<1>17. ASSUME NEW g \in Goroutine, NEW id \in JobId, Take(g, id) PROVE Batch'
  BY <1>17, NullRows DEF IInv, TypeOK, Batch, Hands, Take, Goto, Unheld
<1>18. ASSUME NEW g \in Goroutine, Start(g) PROVE Batch'
  BY <1>18, NullRows, ZenonT(30) DEF IInv, TypeOK, Batch, Hands, Start, Goto, BeginUpsert,
     IsExpired
<1>19. ASSUME NEW g \in Goroutine, DeleteJob(g) PROVE Batch'
  BY <1>19, NullRows DEF IInv, TypeOK, Batch, Hands, DeleteJob, Goto, Done, Release
<1>20. ASSUME NEW g \in Goroutine, Extract(g) PROVE Batch'
  BY <1>20, NullRows DEF IInv, TypeOK, Batch, Hands, Extract, Goto, Exhausted
<1>21. ASSUME NEW g \in Goroutine, Reload(g) PROVE Batch'
  BY <1>21, NullRows DEF IInv, TypeOK, Batch, Hands, Reload, Goto, BeginUpsert
<1>22. ASSUME NEW g \in Goroutine, UpdateJob(g) PROVE Batch'
  BY <1>22, NullRows DEF IInv, TypeOK, Batch, Hands, UpdateJob, Goto, Done, Release,
     Finish, Taken
<1>23. ASSUME NEW g \in Goroutine, UpdateStatus(g) PROVE Batch'
  BY <1>23, NullRows DEF IInv, TypeOK, Batch, Hands, UpdateStatus, Goto, Done,
     BeginUpsert
<1>24. ASSUME NEW g \in Goroutine, MarkCleanup(g) PROVE Batch'
  BY <1>24, NullRows DEF IInv, TypeOK, Batch, Hands, MarkCleanup, Goto, Release
<1>25. ASSUME ClosingDatePasses PROVE Batch'
  BY <1>25, NullRows DEF IInv, TypeOK, Batch, Hands, ClosingDatePasses
<1>26. ASSUME NEW t \in Tender, TenderAges(t) PROVE Batch'
  BY <1>26, NullRows DEF IInv, TypeOK, Batch, Hands, TenderAges
<1>27. ASSUME NEW id \in JobId, BackoffElapses(id) PROVE Batch'
  BY <1>27, NullRows DEF IInv, TypeOK, Batch, Hands, BackoffElapses
<1>28. ASSUME RestartWorker PROVE Batch'
  BY <1>28, NullRows DEF IInv, TypeOK, Batch, Hands, RestartWorker, Forget, NoSnap
<1>29. ASSUME RestartApp PROVE Batch'
  BY <1>29, NullRows DEF IInv, TypeOK, Batch, Hands, RestartApp, Forget, NoSnap
<1>30. CASE UNCHANGED vars
  BY <1>30 DEF IInv, Batch, Hands, vars
<1> QED
  BY <1>1, <1>2, <1>3, <1>4, <1>5, <1>6, <1>7, <1>8, <1>9, <1>10, <1>11, <1>12, <1>13,
     <1>14, <1>15, <1>16, <1>17, <1>18, <1>19, <1>20, <1>21, <1>22, <1>23, <1>24,
     <1>25, <1>26, <1>27, <1>28, <1>29, <1>30 DEF Next, GoroutineStep, LoopStep,
     StartupStep, HandlerStep, TimeStep, Upsert, CleanupStep, List

\* Types are kept.
LEMMA TypeStep ==
  ASSUME IInv, [Next]_vars
  PROVE  TypeOK'
<1> USE QueueAssumption DEF JobId, Process, Lister, store, clock, batch, locals
<1>1. ASSUME NEW p \in Process, UpsertRead(p) PROVE TypeOK'
  <2>1. pc' \in [Process -> Label]
    BY <1>1, GotoType DEF IInv, UpsertRead, Label
  <2>2. tenders[tid[p]] \in TenderRow /\ ten[p] \in TenderRow
    BY <1>1 DEF IInv, TypeOK, Locals, UpsertRead
  <2>3. KeepArchived(ten[p], tenders[tid[p]]) \in TenderRow
    BY <2>2, TenderRows, Zenon DEF KeepArchived, DocumentStatus
  <2>4. ten' \in [Process -> TenderRow]
    BY <1>1, <2>2, <2>3, FunctionUpdate DEF IInv, TypeOK, UpsertRead
  <2> QED
    BY <1>1, <2>1, <2>2, <2>3, <2>4 DEF IInv, TypeOK, UpsertRead
<1>2. ASSUME NEW p \in Process, UpsertRow(p) PROVE TypeOK'
  <2>1. ten[p] \in TenderRow
    BY DEF IInv, TypeOK
  <2>2. tenders' \in [Tender -> TenderRow]
    BY <1>2, <2>1, FunctionUpdate DEF IInv, TypeOK, UpsertRow
  <2>3. /\ pc' \in [Process -> Label]
        /\ tid' \in [Process -> Tender \cup {None}]
        /\ ten' \in [Process -> TenderRow]
        /\ todo' \in [Lister -> SUBSET Tender]
    BY <1>2, AfterUpsertType, GotoType DEF IInv, TypeOK, UpsertRow, Label
  <2> QED
    BY <1>2, <2>1, <2>2, <2>3 DEF IInv, TypeOK, UpsertRow
<1>3. ASSUME NEW p \in Process, UpsertIndex(p) PROVE TypeOK'
  <2>1. \E ok \in BOOLEAN : AfterUpsert(p, ok)
    BY <1>3 DEF UpsertIndex, StoreResult
  <2>2. index' \in [Tender -> Life]
    BY <1>3 DEF IInv, TypeOK, UpsertIndex, TenderRow
  <2>3. /\ pc' \in [Process -> Label]
        /\ tid' \in [Process -> Tender \cup {None}]
        /\ ten' \in [Process -> TenderRow]
        /\ todo' \in [Lister -> SUBSET Tender]
    BY <2>1, AfterUpsertType DEF IInv
  <2> QED
    BY <1>3, <2>1, <2>2, <2>3 DEF IInv, TypeOK, UpsertIndex
<1>4. ASSUME NEW p \in Process, QueueJob(p) PROVE TypeOK'
  <2>1. jobs' \in [JobId -> JobRow]
    BY <1>4, QueueEffect, FunctionUpdate DEF IInv, TypeOK
  <2>2. /\ pc' \in [Process -> Label]
        /\ tid' \in [Process -> Tender \cup {None}]
        /\ ten' \in [Process -> TenderRow]
    BY <1>4, DoneType DEF IInv, QueueJob
  <2>3. todo' \in [Lister -> SUBSET Tender]
    BY <1>4 DEF IInv, TypeOK, QueueJob
  <2> QED
    BY <1>4, <2>1, <2>2, <2>3 DEF IInv, TypeOK, QueueJob
<1>5. ASSUME NEW h \in Handler, NEW t \in Tender, RequestExtraction(h, t) PROVE TypeOK'
  <2>1. Requested(tenders[t]) \in TenderRow
    BY TenderRows DEF IInv, TypeOK, Requested, DocumentStatus
  <2>2. /\ pc' \in [Process -> Label]
        /\ tid' \in [Process -> Tender \cup {None}]
        /\ ten' \in [Process -> TenderRow]
    BY <1>5, <2>1, BeginUpsertType DEF IInv, RequestExtraction
  <2> QED
    BY <1>5, <2>1, <2>2 DEF IInv, TypeOK, RequestExtraction
<1>6. ASSUME NEW h \in Handler, RequestCleanup(h) PROVE TypeOK'
  <2>1. pc' \in [Process -> Label]
    BY <1>6, GotoType DEF IInv, RequestCleanup, Label
  <2> QED
    BY <1>6, <2>1 DEF IInv, TypeOK, RequestCleanup
<1>7. ASSUME NEW h \in Handler, QueueCleanup(h) PROVE TypeOK'
  <2>1. pc' \in [Process -> Label]
    BY <1>7, GotoType DEF IInv, QueueCleanup, Label
  <2>2. jobs' \in [JobId -> JobRow]
    BY <1>7, QueuedRows, FunctionUpdate DEF IInv, TypeOK, QueueCleanup
  <2> QED
    BY <1>7, <2>1, <2>2 DEF IInv, TypeOK, QueueCleanup
<1>8. ASSUME NEW p \in Lister, NEW t \in Tender, ListTender(p, t) PROVE TypeOK'
  <2>1. /\ pc' \in [Process -> Label]
        /\ tid' \in [Process -> Tender \cup {None}]
        /\ ten' \in [Process -> TenderRow]
    BY <1>8, ListedRows, BeginUpsertType DEF IInv, ListTender
  <2>2. todo' \in [Lister -> SUBSET Tender]
    BY <1>8 DEF IInv, TypeOK, ListTender
  <2> QED
    BY <1>8, <2>1, <2>2 DEF IInv, TypeOK, ListTender
<1>9. ASSUME NEW p \in Lister, NEW t \in Tender, PassOver(p, t) PROVE TypeOK'
  BY <1>9 DEF IInv, TypeOK, PassOver
<1>10. ASSUME EndSources PROVE TypeOK'
  BY <1>10 DEF IInv, TypeOK, EndSources, Listing
<1>11. ASSUME AutomaticCleanup PROVE TypeOK'
  <2>1. pc' \in [Process -> Label]
    BY <1>11, GotoType DEF IInv, TypeOK, AutomaticCleanup, Label
  <2> QED
    BY <1>11, <2>1 DEF IInv, TypeOK, AutomaticCleanup
<1>12. ASSUME NEW p \in Goroutine \cup {Loop}, ListDoomed(p) PROVE TypeOK'
  <2> DEFINE listed == [t \in Tender |->
               IF Doomed(t) THEN [tenders[t] EXCEPT !.life = "archived"] ELSE NoTender]
  <2>1. p \in Process
    BY DEF Process
  <2>2. \/ \E ok \in BOOLEAN : AfterCleanup(p, ok)
        \/ /\ Goto(p, "archive") /\ UNCHANGED <<phase, outcome>>
           /\ snap' = [snap EXCEPT ![p] = listed]
    BY <1>12, Zenon DEF ListDoomed
  <2>3. \A t \in Tender : [tenders[t] EXCEPT !.life = "archived"] \in TenderRow
    BY TenderRows DEF IInv, TypeOK, DocumentStatus
  <2>4. listed \in [Tender -> TenderRow]
    BY <2>3, NullRows
  <2> HIDE DEF listed
  <2>5. /\ pc' \in [Process -> Label]
        /\ outcome' \in [Goroutine -> JobState]
        /\ snap' \in [Process -> [Tender -> TenderRow]]
        /\ phase' \in {"sources", "cleanup", "claim", "jobs"}
    BY <2>1, <2>2, <2>4, AfterCleanupType, GotoType, FunctionUpdate
       DEF IInv, TypeOK, Label
  <2> QED
    BY <1>12, <2>5 DEF IInv, TypeOK, ListDoomed
<1>13. ASSUME NEW p \in Goroutine \cup {Loop}, ArchiveDoomed(p) PROVE TypeOK'
  <2>1. p \in Process
    BY DEF Process
  <2>2. jobs' \in [JobId -> JobRow]
    BY <1>13, DropEffect
  <2>3. \/ UNCHANGED <<tenders, index>>
        \/ /\ tenders' = [t \in Tender |->
                IF snap[p][t].life = "archived" THEN snap[p][t] ELSE tenders[t]]
           /\ index' = [t \in Tender |->
                IF snap[p][t].life = "archived" THEN "archived" ELSE index[t]]
    BY <1>13, Zenon DEF ArchiveDoomed
  <2>4. tenders' \in [Tender -> TenderRow] /\ index' \in [Tender -> Life]
    BY <2>1, <2>3 DEF IInv, TypeOK, Life
  <2>5. \E ok \in BOOLEAN : AfterCleanup(p, ok)
    BY <1>13 DEF ArchiveDoomed
  <2>6. /\ pc' \in [Process -> Label]
        /\ outcome' \in [Goroutine -> JobState]
        /\ snap' \in [Process -> [Tender -> TenderRow]]
        /\ phase' \in {"sources", "cleanup", "claim", "jobs"}
    BY <2>1, <2>5, AfterCleanupType DEF IInv
  <2> QED
    BY <1>13, <2>1, <2>2, <2>3, <2>4, <2>5, <2>6 DEF IInv, TypeOK, ArchiveDoomed
<1>14. ASSUME ClaimDueJobs PROVE TypeOK'
  <2>1. jobs' \in [JobId -> JobRow] /\ claimed' \in [JobId -> JobRow]
    BY <1>14, ClaimEffect
  <2> QED
    BY <1>14, <2>1 DEF IInv, TypeOK, ClaimDueJobs
<1>15. ASSUME ClaimFails PROVE TypeOK'
  BY <1>15 DEF IInv, TypeOK, ClaimFails
<1>16. ASSUME EndPass PROVE TypeOK'
  <2>1. jobs' \in [JobId -> JobRow]
    BY <1>16, DropEffect
  <2> QED
    BY <1>16, <2>1 DEF IInv, TypeOK, EndPass
<1>17. ASSUME NEW g \in Goroutine, NEW id \in JobId, Take(g, id) PROVE TypeOK'
  <2>1. pc' \in [Process -> Label]
    BY <1>17, GotoType DEF IInv, Take, Label
  <2> QED
    BY <1>17, <2>1 DEF IInv, TypeOK, Take
<1>18. ASSUME NEW g \in Goroutine, Start(g) PROVE TypeOK'
  <2>1. claimed[held[g]].tender \in Tender
    BY <1>18 DEF IInv, TypeOK, Hands, Rows, Start
  <2>2. [tenders[claimed[held[g]].tender] EXCEPT !.doc = "skipped"] \in TenderRow
    BY <2>1, TenderRows DEF IInv, TypeOK, DocumentStatus
  <2>3. /\ pc' \in [Process -> Label]
        /\ tid' \in [Process -> Tender \cup {None}]
        /\ ten' \in [Process -> TenderRow]
    BY <1>18, <2>1, <2>2, BeginUpsertType, GotoType DEF IInv, TypeOK, Start, Label
  <2>4. outcome' \in [Goroutine -> JobState]
    BY <1>18 DEF IInv, TypeOK, Start, JobState, Settled
  <2> QED
    BY <1>18, <2>1, <2>2, <2>3, <2>4 DEF IInv, TypeOK, Start
<1>19. ASSUME NEW g \in Goroutine, DeleteJob(g) PROVE TypeOK'
  <2>1. /\ pc' \in [Process -> Label]
        /\ tid' \in [Process -> Tender \cup {None}]
        /\ ten' \in [Process -> TenderRow]
    BY <1>19, DoneType DEF IInv, DeleteJob
  <2>2. jobs' \in [JobId -> JobRow] /\ claimed' \in [JobId -> JobRow]
    BY <1>19, NullRows, FunctionUpdate DEF IInv, TypeOK, DeleteJob, Release
  <2> QED
    BY <1>19, <2>1, <2>2 DEF IInv, TypeOK, DeleteJob, Release
<1>20. ASSUME NEW g \in Goroutine, Extract(g) PROVE TypeOK'
  <2>1. pc' \in [Process -> Label]
    BY <1>20, GotoType DEF IInv, Extract, Label
  <2>2. outcome' \in [Goroutine -> JobState]
    BY <1>20 DEF IInv, TypeOK, Extract, JobState, Settled, Pending
  <2> QED
    BY <1>20, <2>1, <2>2 DEF IInv, TypeOK, Extract
<1>21. ASSUME NEW g \in Goroutine, Reload(g) PROVE TypeOK'
  <2>1. claimed[held[g]].tender \in Tender
    BY <1>21 DEF IInv, TypeOK, Hands, Rows, Reload
  <2>2. \A c \in {"blank", "soon"} :
          [tenders[claimed[held[g]].tender] EXCEPT !.doc = "completed", !.closing = c] \in TenderRow
    BY <2>1, TenderRows DEF IInv, TypeOK, DocumentStatus
  <2>3. /\ pc' \in [Process -> Label]
        /\ tid' \in [Process -> Tender \cup {None}]
        /\ ten' \in [Process -> TenderRow]
    BY <1>21, <2>1, <2>2, BeginUpsertType, GotoType DEF IInv, TypeOK, Reload, Label
  <2> QED
    BY <1>21, <2>1, <2>2, <2>3 DEF IInv, TypeOK, Reload
<1>22. ASSUME NEW g \in Goroutine, UpdateJob(g) PROVE TypeOK'
  <2>1. PICK row \in JobRow :
          /\ held[g] \in ExtractionId => claimed[held[g]].state = "processing"
          /\ row.tender = claimed[held[g]].tender
          /\ jobs' = jobs \/ jobs' = [jobs EXCEPT ![held[g]] = row]
          /\ claimed' = [claimed EXCEPT ![held[g]] = NoJob]
          /\ held' = [held EXCEPT ![g] = None]
          /\ \/ Done(g)
             \/ /\ held[g] \in ExtractionId
                /\ Goto(g, "status") /\ UNCHANGED ten
                /\ tid' = [tid EXCEPT ![g] = row.tender]
    BY <1>22, UpdateEffect
  <2>2. jobs' \in [JobId -> JobRow] /\ claimed' \in [JobId -> JobRow]
    BY <2>1, NullRows, FunctionUpdate DEF IInv, TypeOK
  <2>3. held' \in [Goroutine -> JobId \cup {None}]
    BY <2>1 DEF IInv, TypeOK
  <2>4. outcome' \in [Goroutine -> JobState]
    BY <1>22 DEF IInv, TypeOK, UpdateJob, JobState
  <2>5. row.tender \in Tender \cup {None}
    BY DEF JobRow
  <2>6. /\ pc' \in [Process -> Label]
        /\ tid' \in [Process -> Tender \cup {None}]
        /\ ten' \in [Process -> TenderRow]
    BY <2>1, <2>5, DoneType, GotoType, FunctionUpdate DEF IInv, TypeOK, Label
  <2> QED
    BY <1>22, <2>2, <2>3, <2>4, <2>6 DEF IInv, TypeOK, UpdateJob
<1>23. ASSUME NEW g \in Goroutine, UpdateStatus(g) PROVE TypeOK'
  <2>1. tid[g] \in Tender /\ outcome[g] \in DocumentStatus
    BY <1>23 DEF IInv, Locals, Hands, UpdateStatus, DocumentStatus
  <2>2. [tenders[tid[g]] EXCEPT !.doc = outcome[g]] \in TenderRow
    BY <2>1, TenderRows DEF IInv, TypeOK
  <2>3. /\ pc' \in [Process -> Label]
        /\ tid' \in [Process -> Tender \cup {None}]
        /\ ten' \in [Process -> TenderRow]
    BY <1>23, <2>1, <2>2, BeginUpsertType, DoneType DEF IInv, UpdateStatus
  <2>4. outcome' \in [Goroutine -> JobState]
    BY <1>23 DEF IInv, TypeOK, UpdateStatus, JobState
  <2> QED
    BY <1>23, <2>1, <2>2, <2>3, <2>4 DEF IInv, TypeOK, UpdateStatus
<1>24. ASSUME NEW g \in Goroutine, MarkCleanup(g) PROVE TypeOK'
  <2>1. /\ jobs' = jobs \/ jobs' = [jobs EXCEPT ![CleanupId] = claimed[CleanupId]]
        /\ claimed' = claimed \/ claimed' = [claimed EXCEPT ![CleanupId] = NoJob]
        /\ held' = held \/ held' = [held EXCEPT ![g] = None]
    BY <1>24, MarkEffect
  <2>2. claimed[CleanupId] \in JobRow
    BY DEF IInv, TypeOK
  <2>3. jobs' \in [JobId -> JobRow] /\ claimed' \in [JobId -> JobRow]
    BY <2>1, <2>2, NullRows, FunctionUpdate DEF IInv, TypeOK
  <2>4. held' \in [Goroutine -> JobId \cup {None}]
    BY <2>1 DEF IInv, TypeOK
  <2>5. pc' \in [Process -> Label]
    BY <1>24, GotoType DEF IInv, MarkCleanup, Label
  <2> QED
    BY <1>24, <2>1, <2>2, <2>3, <2>4, <2>5 DEF IInv, TypeOK, MarkCleanup
<1>25. ASSUME ClosingDatePasses PROVE TypeOK'
  BY <1>25 DEF IInv, TypeOK, ClosingDatePasses
<1>26. ASSUME NEW t \in Tender, TenderAges(t) PROVE TypeOK'
  BY <1>26 DEF IInv, TypeOK, TenderAges
<1>27. ASSUME NEW id \in JobId, BackoffElapses(id) PROVE TypeOK'
  <2>1. jobs' \in [JobId -> JobRow]
    BY <1>27, DueRows, FunctionUpdate DEF IInv, TypeOK, BackoffElapses
  <2> QED
    BY <1>27, <2>1 DEF IInv, TypeOK, BackoffElapses
<1>28. ASSUME RestartWorker PROVE TypeOK'
  <2>1. NoSnap \in [Tender -> TenderRow]
    BY NullRows DEF NoSnap
  <2>2. /\ pc' \in [Process -> Label]
        /\ tid' \in [Process -> Tender \cup {None}]
        /\ ten' \in [Process -> TenderRow]
        /\ snap' \in [Process -> [Tender -> TenderRow]]
    BY <1>28, <2>1, NullRows DEF IInv, TypeOK, RestartWorker, Forget, Label
  <2> QED
    BY <1>28, <2>1, <2>2, NullRows DEF IInv, TypeOK, RestartWorker, JobState
<1>29. ASSUME RestartApp PROVE TypeOK'
  <2>1. NoSnap \in [Tender -> TenderRow]
    BY NullRows DEF NoSnap
  <2>2. /\ pc' \in [Process -> Label]
        /\ tid' \in [Process -> Tender \cup {None}]
        /\ ten' \in [Process -> TenderRow]
        /\ snap' \in [Process -> [Tender -> TenderRow]]
    BY <1>29, <2>1, NullRows DEF IInv, TypeOK, RestartApp, Forget, Label
  <2> QED
    BY <1>29, <2>1, <2>2 DEF IInv, TypeOK, RestartApp
<1>30. CASE UNCHANGED vars
  BY <1>30 DEF IInv, TypeOK, vars
<1> QED
  BY <1>1, <1>2, <1>3, <1>4, <1>5, <1>6, <1>7, <1>8, <1>9, <1>10, <1>11, <1>12, <1>13,
     <1>14, <1>15, <1>16, <1>17, <1>18, <1>19, <1>20, <1>21, <1>22, <1>23, <1>24,
     <1>25, <1>26, <1>27, <1>28, <1>29, <1>30 DEF Next, GoroutineStep, LoopStep,
     StartupStep, HandlerStep, TimeStep, Upsert, CleanupStep, List

-----------------------------------------------------------------------------
(* The theorems *)

\* The invariant holds at the start.
LEMMA InitIInv == Init => IInv
<1> SUFFICES ASSUME Init PROVE IInv
  OBVIOUS
<1> USE QueueAssumption, NullRows
<1>1. TypeOK
  <2>1. snap \in [Process -> [Tender -> TenderRow]]
    BY DEF Init
  <2> QED
    BY <2>1 DEF Init, TypeOK, Life, Label, JobState
<1>2. Rows /\ Batch /\ HandsApart /\ OneRowPerDocument /\ ClaimsApart /\ SameDocument
  BY DEF Init, Rows, Batch, HandsApart, OneRowPerDocument, ClaimsApart, SameDocument,
         JobId, Process, Lister
<1>3. Locals /\ Hands
  BY DEF Init, Locals, Hands, Process
<1>4. AttemptsBounded
  BY DEF Init, AttemptsBounded, AttemptsFit
<1> QED
  BY <1>1, <1>2, <1>3, <1>4 DEF IInv

\* Every step keeps the invariant.
LEMMA NextIInv == IInv /\ [Next]_vars => IInv'
<1> SUFFICES ASSUME IInv, [Next]_vars PROVE IInv'
  OBVIOUS
<1>1. TypeOK' /\ Rows' /\ Locals' /\ Hands' /\ HandsApart' /\ Batch'
  BY TypeStep, RowsStep, LocalsStep, HandsStep, HandsApartStep, BatchStep
<1>2. OneRowPerDocument' /\ AttemptsBounded' /\ ClaimsApart' /\ SameDocument'
  BY OneRowStep, AttemptsStep, ClaimsApartStep, SameDocumentStep
<1> QED
  BY <1>1, <1>2 DEF IInv

\* In every reachable state the rows, the claimed copies and what the processes
\* are about to do fit together.
THEOREM Invariance == Spec => []IInv
<1>1. Init => IInv
  BY InitIInv
<1>2. IInv /\ [Next]_vars => IInv'
  BY NextIInv
<1> QED
  BY <1>1, <1>2, PTL DEF Spec

\* Type correctness of the queue, with restarts and store errors.
THEOREM TypeCorrect == Spec => []TypeOK
<1>1. IInv => TypeOK
  BY DEF IInv
<1> QED
  BY <1>1, Invariance, PTL

\* No document ever has two rows in the jobs table.
THEOREM DocumentsHaveOneRow == Spec => []OneRowPerDocument
<1>1. IInv => OneRowPerDocument
  BY DEF IInv
<1> QED
  BY <1>1, Invariance, PTL

\* No job is tried more often than MaxAttempts, and the attempts of every row fit
\* its state.
THEOREM TriesAreBounded == Spec => []AttemptsBounded
<1>1. IInv => AttemptsBounded
  BY DEF IInv
<1> QED
  BY <1>1, Invariance, PTL

\* Two goroutines never hold one job, nor two jobs of one document.
THEOREM ExclusiveClaims == Spec => []ClaimsAreExclusive
<1>1. IInv => ClaimsAreExclusive
  <2> SUFFICES ASSUME IInv, NEW g \in Goroutine, NEW h \in Goroutine,
                      g # h, held[g] # None, held[h] # None
               PROVE  /\ held[g] # held[h]
                      /\ claimed[held[g]].tender # claimed[held[h]].tender
                           \/ claimed[held[g]].url # claimed[held[h]].url
    BY DEF ClaimsAreExclusive
  <2>1. held[g] # held[h] /\ held[g] \in JobId /\ held[h] \in JobId
    BY DEF IInv, TypeOK, HandsApart
  <2>2. claimed[held[g]].state = "processing" /\ claimed[held[h]].state = "processing"
    BY DEF IInv, Hands
  <2>3. CASE held[g] \in ExtractionId /\ held[h] \in ExtractionId
    BY <2>1, <2>2, <2>3 DEF IInv, ClaimsApart
  <2>4. CASE held[g] = CleanupId \/ held[h] = CleanupId
    BY <2>1, <2>2, <2>4, QueueAssumption DEF IInv, Rows, JobId
  <2> QED
    BY <2>1, <2>3, <2>4 DEF JobId
<1> QED
  BY <1>1, Invariance, PTL

\* A row leaves the worker's hands only with a result or for another try, when
\* the worker is not killed and the store does not fail.
LEMMA OwnedStep ==
  ASSUME ~CanCrash, ~StoreMayFail, IInv, ProcessingIsOwned, [Next]_vars
  PROVE  ProcessingIsOwned'
<1> USE QueueAssumption DEF JobId
<1>1. ASSUME NEW p \in Process, QueueJob(p) PROVE ProcessingIsOwned'
  BY <1>1, QueueEffect, NullRows DEF IInv, ProcessingIsOwned, Batch, Taken, TypeOK
<1>2. ASSUME NEW h \in Handler, QueueCleanup(h) PROVE ProcessingIsOwned'
  BY <1>2, QueuedRows DEF IInv, ProcessingIsOwned, Batch, QueueCleanup, batch, TypeOK
<1>3. ASSUME NEW p \in Goroutine \cup {Loop}, ArchiveDoomed(p) PROVE ProcessingIsOwned'
  BY <1>3, DropEffect, NullRows DEF IInv, ProcessingIsOwned, Batch, TypeOK
<1>4. ASSUME ClaimDueJobs PROVE ProcessingIsOwned'
  <2>1. PICK picked \in SUBSET JobId :
          /\ \A id \in picked :
               /\ jobs[id].state \in {"queued", "retry"}
               /\ jobs'[id].state = "processing"
               /\ jobs'[id].attempts = jobs[id].attempts + 1
               /\ jobs'[id].tender = jobs[id].tender /\ jobs'[id].url = jobs[id].url
               /\ claimed'[id] = jobs'[id]
          /\ \A id \in JobId \ picked : jobs'[id] = jobs[id] /\ claimed'[id] = NoJob
    BY <1>4, ClaimEffect, Zenon
  <2>2. \A id \in JobId : claimed[id].state = "absent"
    BY <1>4, ClaimEffect
  <2> QED
    BY <2>1, <2>2 DEF ProcessingIsOwned
<1>5. ASSUME EndPass PROVE ProcessingIsOwned'
  BY <1>5, DropEffect, NullRows DEF IInv, ProcessingIsOwned, Batch, TypeOK
<1>6. ASSUME NEW g \in Goroutine, NEW id \in JobId, Take(g, id) PROVE ProcessingIsOwned'
  BY <1>6 DEF IInv, ProcessingIsOwned, Batch, Take, Unheld, store, TypeOK
<1>7. ASSUME NEW g \in Goroutine, DeleteJob(g) PROVE ProcessingIsOwned'
  BY <1>7, NullRows DEF IInv, ProcessingIsOwned, Batch, DeleteJob, Release, TypeOK,
     Hands
<1>8. ASSUME NEW g \in Goroutine, UpdateJob(g) PROVE ProcessingIsOwned'
  <2>1. PICK row \in JobRow :
          /\ held[g] \in JobId /\ claimed[held[g]].state = "processing"
          /\ row.state # "processing"
          /\ row.tender = claimed[held[g]].tender /\ row.url = claimed[held[g]].url
          /\ \/ /\ jobs' = jobs
                /\ held[g] \in ExtractionId /\ Taken(row.tender, row.url, held[g])
             \/ jobs' = [jobs EXCEPT ![held[g]] = row]
          /\ claimed' = [claimed EXCEPT ![held[g]] = NoJob]
    BY <1>8, UpdateEffect DEF Settled
  <2>2. jobs'[held[g]].state # "processing"
    <3>1. CASE /\ jobs' = jobs
               /\ held[g] \in ExtractionId /\ Taken(row.tender, row.url, held[g])
      <4>1. /\ held[g] \in ExtractionId
            /\ \E other \in ExtractionId \ {held[g]} :
                 /\ jobs[other].state # "absent"
                 /\ jobs[other].tender = row.tender /\ jobs[other].url = row.url
        BY <3>1, Zenon DEF Taken
      <4>2. jobs[held[g]].state = "absent"
        BY <2>1, <4>1 DEF IInv, SameDocument, OneRowPerDocument
      <4> QED
        BY <3>1, <4>2
    <3>2. CASE jobs' = [jobs EXCEPT ![held[g]] = row]
      BY <2>1, <3>2 DEF IInv, TypeOK
    <3> QED
      BY <2>1, <3>1, <3>2
  <2>3. \A id \in JobId \ {held[g]} : jobs'[id] \in {jobs[id], row} /\ claimed'[id] = claimed[id]
    BY <2>1 DEF IInv, TypeOK
  <2> QED
    BY <2>1, <2>2, <2>3 DEF ProcessingIsOwned
<1>9. ASSUME NEW g \in Goroutine, MarkCleanup(g) PROVE ProcessingIsOwned'
  BY <1>9, MarkEffect, NullRows DEF IInv, ProcessingIsOwned, Batch, TypeOK
<1>10. ASSUME NEW id \in JobId, BackoffElapses(id) PROVE ProcessingIsOwned'
  BY <1>10, DueRows DEF IInv, ProcessingIsOwned, Batch, BackoffElapses, batch, TypeOK
<1>11. ASSUME RestartWorker PROVE ProcessingIsOwned'
  BY <1>11, NullRows DEF IInv, ProcessingIsOwned, Batch, RestartWorker, store, TypeOK
<1>12. CASE UNCHANGED <<jobs, claimed, held>>
  BY <1>12 DEF IInv, ProcessingIsOwned
<1> QED
  BY JobSteps, <1>1, <1>2, <1>3, <1>4, <1>5, <1>6, <1>7, <1>8, <1>9, <1>10, <1>11,
     <1>12

\* When the worker is never killed and the store never fails, no row is stuck in
\* state "processing": the worker has it.
THEOREM NoRowIsStranded ==
  ASSUME ~CanCrash, ~StoreMayFail
  PROVE  Spec => []ProcessingIsOwned
<1>1. Init => ProcessingIsOwned
  BY NullRows DEF Init, ProcessingIsOwned
<1>2. IInv /\ ProcessingIsOwned /\ [Next]_vars => ProcessingIsOwned'
  BY OwnedStep
<1> QED
  BY <1>1, <1>2, Invariance, PTL DEF Spec

\* A step leaves a settled row of an extraction job as it is, or removes it.
LEMMA ResultStep ==
  ASSUME IInv, [Next]_vars, NEW id \in ExtractionId, jobs[id].state \in Settled
  PROVE  jobs'[id] \in {jobs[id], NoJob}
<1> USE QueueAssumption DEF JobId
<1>1. ASSUME NEW p \in Process, QueueJob(p) PROVE jobs'[id] \in {jobs[id], NoJob}
  BY <1>1, QueueEffect DEF IInv, TypeOK, Settled
<1>2. ASSUME NEW h \in Handler, QueueCleanup(h) PROVE jobs'[id] \in {jobs[id], NoJob}
  BY <1>2, QueuedRows DEF IInv, QueueCleanup, batch, TypeOK
<1>3. ASSUME NEW p \in Goroutine \cup {Loop}, ArchiveDoomed(p) PROVE jobs'[id] \in {jobs[id], NoJob}
  BY <1>3, DropEffect
<1>4. ASSUME ClaimDueJobs PROVE jobs'[id] \in {jobs[id], NoJob}
  BY <1>4, ClaimEffect DEF Settled
<1>5. ASSUME EndPass PROVE jobs'[id] \in {jobs[id], NoJob}
  BY <1>5, DropEffect
<1>6. ASSUME NEW g \in Goroutine, NEW i \in JobId, Take(g, i) PROVE jobs'[id] \in {jobs[id], NoJob}
  BY <1>6 DEF IInv, Take, Unheld, store, TypeOK, Batch
<1>7. ASSUME NEW g \in Goroutine, DeleteJob(g) PROVE jobs'[id] \in {jobs[id], NoJob}
  BY <1>7, NullRows DEF IInv, DeleteJob, Release, TypeOK, Hands
<1>8. ASSUME NEW g \in Goroutine, UpdateJob(g) PROVE jobs'[id] \in {jobs[id], NoJob}
  <2>1. held[g] # id
    BY <1>8, UpdateEffect DEF IInv, SameDocument, Settled
  <2> QED
    BY <1>8, <2>1, UpdateEffect DEF IInv, TypeOK
<1>9. ASSUME NEW g \in Goroutine, MarkCleanup(g) PROVE jobs'[id] \in {jobs[id], NoJob}
  BY <1>9, MarkEffect DEF IInv, TypeOK
<1>10. ASSUME NEW i \in JobId, BackoffElapses(i) PROVE jobs'[id] \in {jobs[id], NoJob}
  BY <1>10 DEF IInv, TypeOK, BackoffElapses, Settled
<1>11. ASSUME RestartWorker PROVE jobs'[id] \in {jobs[id], NoJob}
  BY <1>11, NullRows DEF IInv, RestartWorker, store, TypeOK
<1>12. CASE UNCHANGED <<jobs, claimed, held>>
  BY <1>12 DEF IInv, TypeOK
<1> QED
  BY JobSteps, <1>1, <1>2, <1>3, <1>4, <1>5, <1>6, <1>7, <1>8, <1>9, <1>10, <1>11,
     <1>12

\* The result of an extraction job is never overwritten, with restarts and store
\* errors too.
THEOREM ResultsAreKept == Spec => ResultsStay
<1>1. IInv /\ [Next]_vars => [\A id \in ExtractionId :
        jobs[id].state \in Settled => jobs'[id] \in {jobs[id], NoJob}]_vars
  BY ResultStep
<1> QED
  BY <1>1, Invariance, PTL DEF Spec, ResultsStay

-----------------------------------------------------------------------------
(* The queue implements the life of a job *)

\* The row of a job in the worker's hands counts the tries its copy counts, and
\* the row of the maintenance job may have been queued again meanwhile.
Lockstep ==
  /\ \A id \in JobId : claimed[id].state # "absent" /\ jobs[id].state = "processing"
       => jobs[id].attempts = claimed[id].attempts
  /\ claimed[CleanupId].state # "absent" => jobs[CleanupId].state \in {"absent", "queued", "processing"}

\* Nothing happens to a job, or it is gone, or waits again when it is the
\* maintenance job.
Stays(id) == Stage(id)' = Stage(id) /\ Tries(id)' = Tries(id)
Goes(id) ==
  /\ Tries(id)' = 0
  /\ Stage(id)' = "absent" \/ (id = CleanupId /\ Stage(id)' = "queued")

LEMMA JobsGo ==
  ASSUME \A id \in JobId : Stays(id) \/ Goes(id)
  PROVE  [Lifecycle!Next]_(Lifecycle!vars)
<1> DEFINE S == {id \in JobId : ~ Stays(id)}
           again == {id \in S : Stage(id)' = "queued"}
<1>1. again \in SUBSET ({CleanupId} \cap S)
  BY DEF Goes
<1>2. \A id \in JobId :
        /\ Stage(id)' = IF id \in again THEN "queued" ELSE IF id \in S THEN "absent" ELSE Stage(id)
        /\ Tries(id)' = IF id \in S THEN 0 ELSE Tries(id)
  BY DEF Stays, Goes
<1> HIDE DEF again
<1>3. S \in SUBSET JobId
  OBVIOUS
<1> HIDE DEF S
<1>4. Lifecycle!Drop(S)
  BY <1>1, <1>2 DEF Lifecycle!Drop
<1> QED
  BY <1>3, <1>4 DEF Lifecycle!Next

\* One job moves.
LEMMA OneJobMoves ==
  ASSUME NEW id \in JobId, NEW to, NEW n, Stage(id)' = to, Tries(id)' = n,
         \A i \in JobId \ {id} : Stays(i)
  PROVE  Lifecycle!Move(id, to, n)
BY DEF Lifecycle!Move, Stays


LEMMA LockstepStep ==
  ASSUME IInv, Lockstep, [Next]_vars
  PROVE  Lockstep'
<1> USE QueueAssumption DEF JobId
<1>1. ASSUME NEW p \in Process, QueueJob(p) PROVE Lockstep'
  BY <1>1, QueueEffect DEF IInv, Lockstep, TypeOK
<1>2. ASSUME NEW h \in Handler, QueueCleanup(h) PROVE Lockstep'
  BY <1>2, QueuedRows DEF IInv, Lockstep, QueueCleanup, batch, TypeOK
<1>3. ASSUME NEW p \in Goroutine \cup {Loop}, ArchiveDoomed(p) PROVE Lockstep'
  BY <1>3, DropEffect, NullRows DEF IInv, Lockstep, TypeOK
<1>4. ASSUME ClaimDueJobs PROVE Lockstep'
  <2>1. PICK picked \in SUBSET JobId :
          /\ \A id \in picked : jobs'[id].state = "processing" /\ claimed'[id] = jobs'[id]
          /\ \A id \in JobId \ picked : claimed'[id] = NoJob
    BY <1>4, ClaimEffect, Zenon
  <2> QED
    BY <2>1, NullRows DEF Lockstep
<1>5. ASSUME EndPass PROVE Lockstep'
  BY <1>5, DropEffect, NullRows DEF IInv, Lockstep, TypeOK
<1>6. ASSUME NEW g \in Goroutine, NEW id \in JobId, Take(g, id) PROVE Lockstep'
  BY <1>6 DEF IInv, Lockstep, Take, store, TypeOK
<1>7. ASSUME NEW g \in Goroutine, DeleteJob(g) PROVE Lockstep'
  BY <1>7, NullRows DEF IInv, Lockstep, DeleteJob, Release, TypeOK, Hands
<1>8. ASSUME NEW g \in Goroutine, UpdateJob(g) PROVE Lockstep'
  <2>1. PICK row \in JobRow :
          /\ held[g] \in JobId
          /\ jobs' = jobs \/ jobs' = [jobs EXCEPT ![held[g]] = row]
          /\ claimed' = [claimed EXCEPT ![held[g]] = NoJob]
    BY <1>8, UpdateEffect
  <2>2. /\ claimed'[held[g]] = NoJob
        /\ \A i \in JobId \ {held[g]} : jobs'[i] = jobs[i] /\ claimed'[i] = claimed[i]
    BY <2>1 DEF IInv, TypeOK
  <2> QED
    BY <2>2, NullRows DEF Lockstep
<1>9. ASSUME NEW g \in Goroutine, MarkCleanup(g) PROVE Lockstep'
  BY <1>9, MarkEffect, NullRows DEF IInv, Lockstep, TypeOK
<1>10. ASSUME NEW id \in JobId, BackoffElapses(id) PROVE Lockstep'
  BY <1>10, DueRows DEF IInv, Lockstep, BackoffElapses, batch, TypeOK
<1>11. ASSUME RestartWorker PROVE Lockstep'
  BY <1>11, NullRows DEF Lockstep, RestartWorker
<1>12. CASE UNCHANGED <<jobs, claimed, held>>
  BY <1>12 DEF Lockstep
<1> QED
  BY JobSteps, <1>1, <1>2, <1>3, <1>4, <1>5, <1>6, <1>7, <1>8, <1>9, <1>10, <1>11,
     <1>12

\* What the rows and copies after a step say of a job's stage and tries.
LEMMA StageNext ==
  ASSUME NEW id \in JobId
  PROVE  /\ claimed'[id] = NoJob => Stage(id)' = jobs'[id].state /\ Tries(id)' = jobs'[id].attempts
         /\ claimed'[id] = NoJob /\ jobs'[id] = NoJob => Stage(id)' = "absent" /\ Tries(id)' = 0
         /\ claimed'[id].state # "absent" =>
              Stage(id)' = "processing" /\ Tries(id)' = claimed'[id].attempts
         /\ claimed'[id].state = "absent" =>
              Stage(id)' = jobs'[id].state /\ Tries(id)' = jobs'[id].attempts
<1>1. /\ Stage(id)' = IF claimed'[id].state # "absent" THEN "processing" ELSE jobs'[id].state
      /\ Tries(id)' = IF claimed'[id].state # "absent" THEN claimed'[id].attempts
                                                       ELSE jobs'[id].attempts
  BY DEF Stage, Tries
<1>2. NoJob.state = "absent" /\ NoJob.attempts = 0
  BY NullRows
<1>3. claimed'[id] = NoJob => claimed'[id].state = "absent"
  BY <1>2
<1>4. jobs'[id] = NoJob => jobs'[id].state = "absent" /\ jobs'[id].attempts = 0
  BY <1>2
<1> QED
  BY <1>1, <1>3, <1>4

LEMMA StageNow ==
  ASSUME NEW id \in JobId
  PROVE  /\ claimed[id].state # "absent" => Stage(id) = "processing" /\ Tries(id) = claimed[id].attempts
         /\ claimed[id].state = "absent" => Stage(id) = jobs[id].state /\ Tries(id) = jobs[id].attempts
BY DEF Stage, Tries

\* A job that the worker lets go of without writing its row.
LEMMA LetGo ==
  ASSUME IInv, Lockstep, NEW id \in JobId, jobs'[id] = jobs[id] \/ jobs'[id] = NoJob, claimed'[id] = NoJob
  PROVE  Stays(id) \/ Goes(id)
<1>1. CASE claimed[id].state = "absent" /\ jobs'[id] = jobs[id]
  BY <1>1, StageNow, StageNext DEF Stays
<1>2. CASE jobs'[id] = NoJob
  BY <1>2, StageNext DEF Goes
<1>3. CASE claimed[id].state # "absent" /\ jobs'[id] = jobs[id]
  <2>1. jobs[id].state \in {"absent", "queued", "processing"}
        /\ (jobs[id].state = "queued" => id = CleanupId)
    BY <1>3 DEF IInv, SameDocument, Lockstep, JobId
  <2>2. CASE jobs[id].state = "processing"
    <3>1. jobs[id].attempts = claimed[id].attempts
      BY <1>3, <2>2 DEF Lockstep
    <3> QED
      BY <1>3, <2>2, <3>1, StageNow, StageNext DEF Stays
  <2>3. CASE jobs[id].state # "processing"
    <3>1. jobs[id].attempts = 0
      BY <2>1, <2>3 DEF IInv, AttemptsBounded, AttemptsFit
    <3>2. Stage(id)' = jobs[id].state /\ Tries(id)' = jobs[id].attempts
      BY <1>3, StageNext
    <3> QED
      BY <2>1, <2>3, <3>1, <3>2 DEF Goes
  <2> QED
    BY <2>2, <2>3
<1> QED
  BY <1>1, <1>2, <1>3

\* A job whose copy stays with the worker, or that has none.
LEMMA KeepsHold ==
  ASSUME NEW id \in JobId, claimed'[id] = claimed[id],
         claimed[id].state # "absent" \/ jobs'[id] = NoJob
           \/ (jobs'[id].state = jobs[id].state /\ jobs'[id].attempts = jobs[id].attempts)
  PROVE  Stays(id) \/ Goes(id)
<1>1. CASE claimed[id].state # "absent"
  BY <1>1, StageNow, StageNext DEF Stays
<1>2. CASE claimed[id].state = "absent" /\ jobs'[id] = NoJob
  <2>1. jobs'[id].state = "absent" /\ jobs'[id].attempts = 0
    BY <1>2, NullRows
  <2>2. Stage(id)' = "absent" /\ Tries(id)' = 0
    BY <1>2, <2>1, StageNext
  <2> QED
    BY <2>2 DEF Goes
<1>3. CASE /\ claimed[id].state = "absent"
           /\ jobs'[id].state = jobs[id].state /\ jobs'[id].attempts = jobs[id].attempts
  BY <1>3, StageNow, StageNext DEF Stays
<1> QED
  BY <1>1, <1>2, <1>3

\* Every step of the queue is a step in the life of its jobs, or none.
LEMMA LifecycleStep ==
  ASSUME IInv, Lockstep, [Next]_vars
  PROVE  [Lifecycle!Next]_(Lifecycle!vars)
<1> DEFINE Lives == [Lifecycle!Next]_(Lifecycle!vars)
<1> USE QueueAssumption DEF JobId
<1>1. ASSUME NEW p \in Process, QueueJob(p) PROVE Lives
  <2>1. CASE jobs' = jobs
    BY <1>1, <2>1, QueueEffect, KeepsHold, JobsGo
  <2>2. CASE jobs' # jobs
    <3>1. PICK id \in ExtractionId, row \in JobRow :
            /\ jobs[id].state = "absent" /\ claimed[id].state = "absent"
            /\ row.state = "queued" /\ row.attempts = 0
            /\ jobs' = [jobs EXCEPT ![id] = row] /\ claimed' = claimed
      BY <1>1, <2>2, QueueEffect
    <3>2. jobs'[id] = row /\ \A i \in JobId \ {id} : jobs'[i] = jobs[i]
      BY <3>1 DEF IInv, TypeOK
    <3>3. Stage(id) = "absent" /\ Stage(id)' = "queued" /\ Tries(id)' = 0
      BY <3>1, <3>2 DEF Stage, Tries
    <3>4. \A i \in JobId \ {id} : Stays(i)
      BY <3>1, <3>2 DEF Stays, Stage, Tries
    <3>5. Lifecycle!Move(id, "queued", 0)
      BY <3>3, <3>4, OneJobMoves
    <3>6. Lifecycle!Submit(id)
      BY <3>3, <3>5 DEF Lifecycle!Submit
    <3> QED
      BY <3>6 DEF Lifecycle!Next
  <2> QED
    BY <2>1, <2>2
<1>2. ASSUME NEW h \in Handler, QueueCleanup(h) PROVE Lives
  <2>1. /\ claimed' = claimed
        /\ jobs' = jobs \/ jobs' = [jobs EXCEPT ![CleanupId] = QueuedJob(None, None)]
    BY <1>2, Zenon DEF QueueCleanup, batch
  <2>2. \A i \in JobId \ {CleanupId} : jobs'[i] = jobs[i]
    BY <2>1 DEF IInv, TypeOK
  <2>3. CASE jobs' = jobs \/ claimed[CleanupId].state # "absent"
    BY <2>1, <2>2, <2>3, KeepsHold, JobsGo
  <2>4. CASE jobs' # jobs /\ claimed[CleanupId].state = "absent"
    <3>1. jobs'[CleanupId] = QueuedJob(None, None)
      BY <2>1, <2>4 DEF IInv, TypeOK
    <3>2. Stage(CleanupId)' = "queued" /\ Tries(CleanupId)' = 0
      BY <2>1, <2>4, <3>1, QueuedRows DEF Stage, Tries
    <3>3. \A i \in JobId \ {CleanupId} : Stays(i)
      BY <2>1, <2>2 DEF Stays, Stage, Tries
    <3>4. Lifecycle!Move(CleanupId, "queued", 0)
      BY <3>2, <3>3, OneJobMoves
    <3>5. Lifecycle!Submit(CleanupId)
      BY <3>4 DEF Lifecycle!Submit
    <3> QED
      BY <3>5 DEF Lifecycle!Next
  <2> QED
    BY <2>3, <2>4
<1>3. ASSUME (\E p \in Goroutine \cup {Loop} : ArchiveDoomed(p)) \/ EndPass PROVE Lives
  <2>1. claimed' = claimed /\ \A id \in JobId : jobs'[id] \in {jobs[id], NoJob}
    BY <1>3, DropEffect
  <2> QED
    BY <2>1, KeepsHold, JobsGo
<1>4. ASSUME ClaimDueJobs PROVE Lives
  <2>1. PICK picked \in SUBSET JobId :
          /\ \A id \in picked :
               /\ jobs[id].state \in {"queued", "retry"}
               /\ jobs'[id].state = "processing"
               /\ jobs'[id].attempts = jobs[id].attempts + 1
               /\ claimed'[id] = jobs'[id]
          /\ \A id \in JobId \ picked : jobs'[id] = jobs[id] /\ claimed'[id] = NoJob
    BY <1>4, ClaimEffect, Zenon
  <2>2. \A id \in JobId : claimed[id].state = "absent"
    BY <1>4, ClaimEffect
  <2>3. \A id \in picked :
          /\ Stage(id) \in {"queued", "retry"} /\ Stage(id)' = "processing"
          /\ Tries(id)' = Tries(id) + 1
    BY <2>1, <2>2 DEF Stage, Tries
  <2>4. \A id \in JobId \ picked : Stage(id)' = Stage(id) /\ Tries(id)' = Tries(id)
    BY <2>1, <2>2, NullRows DEF Stage, Tries
  <2>5. Lifecycle!Claim(picked)
    BY <2>3, <2>4 DEF Lifecycle!Claim, Lifecycle!Waiting
  <2> QED
    BY <2>5 DEF Lifecycle!Next
<1>5. ASSUME NEW g \in Goroutine, NEW id \in JobId, Take(g, id) PROVE Lives
  <2>1. UNCHANGED <<jobs, claimed>>
    BY <1>5 DEF Take, store
  <2> QED
    BY <2>1, KeepsHold, JobsGo
<1>6. ASSUME NEW g \in Goroutine, DeleteJob(g) PROVE Lives
  <2>1. /\ held[g] \in JobId /\ claimed' = [claimed EXCEPT ![held[g]] = NoJob]
        /\ jobs' = jobs \/ jobs' = [jobs EXCEPT ![held[g]] = NoJob]
    BY <1>6 DEF DeleteJob, Release, IInv, Hands
  <2>2. /\ jobs'[held[g]] = jobs[held[g]] \/ jobs'[held[g]] = NoJob
        /\ claimed'[held[g]] = NoJob
        /\ \A i \in JobId \ {held[g]} : jobs'[i] = jobs[i] /\ claimed'[i] = claimed[i]
    BY <2>1 DEF IInv, TypeOK
  <2> QED
    BY <2>1, <2>2, LetGo, KeepsHold, JobsGo
<1>7. ASSUME NEW g \in Goroutine, UpdateJob(g) PROVE Lives
  <2>1. PICK id \in JobId, row \in JobRow :
          /\ claimed[id].state = "processing"
          /\ row.state \in Settled \cup {"retry"}
          /\ row.state = "retry" => row.attempts < MaxAttempts
          /\ row.attempts = IF row.state = "skipped" THEN claimed[id].attempts - 1
                                                     ELSE claimed[id].attempts
          /\ jobs' = jobs \/ jobs' = [jobs EXCEPT ![id] = row]
          /\ claimed' = [claimed EXCEPT ![id] = NoJob]
    BY <1>7, UpdateEffect
  <2>2. /\ claimed'[id] = NoJob
        /\ \A i \in JobId \ {id} : jobs'[i] = jobs[i] /\ claimed'[i] = claimed[i]
    BY <2>1 DEF IInv, TypeOK
  <2>3. CASE jobs' = jobs
    BY <2>1, <2>2, <2>3, LetGo, KeepsHold, JobsGo
  <2>4. CASE jobs' = [jobs EXCEPT ![id] = row]
    <3>1. jobs'[id] = row
      BY <2>1, <2>4 DEF IInv, TypeOK
    <3>2. /\ Stage(id) = "processing" /\ Tries(id) = claimed[id].attempts
          /\ Stage(id)' = row.state /\ Tries(id)' = row.attempts
      BY <2>1, <2>2, <3>1, StageNow, StageNext
    <3>3. \A i \in JobId \ {id} : Stays(i)
      BY <2>2 DEF Stays, Stage, Tries
    <3>4. Lifecycle!Move(id, row.state, row.attempts)
      BY <2>1, <3>2, <3>3, OneJobMoves
    <3>5. Lifecycle!Finish(id)
      <4>1. CASE row.state \in {"completed", "failed"}
        BY <2>1, <3>2, <3>4, <4>1 DEF Lifecycle!Finish
      <4>2. CASE row.state = "retry"
        BY <2>1, <3>2, <3>4, <4>2 DEF Lifecycle!Finish
      <4>3. CASE row.state = "skipped"
        BY <2>1, <3>2, <3>4, <4>3 DEF Lifecycle!Finish
      <4> QED
        BY <2>1, <4>1, <4>2, <4>3 DEF Settled
    <3> QED
      BY <2>1, <3>5 DEF Lifecycle!Next
  <2> QED
    BY <2>1, <2>3, <2>4
<1>8. ASSUME NEW g \in Goroutine, MarkCleanup(g) PROVE Lives
  <2>1. CASE claimed' = claimed
    <3>1. \A i \in JobId \ {CleanupId} : jobs'[i] = jobs[i]
      BY <1>8, MarkEffect DEF IInv, TypeOK
    <3>2. claimed[CleanupId].state # "absent" \/ jobs' = jobs
      BY <1>8, MarkEffect
    <3> QED
      BY <2>1, <3>1, <3>2, KeepsHold, JobsGo
  <2>2. CASE claimed' # claimed
    <3>1. jobs' = jobs /\ claimed' = [claimed EXCEPT ![CleanupId] = NoJob]
      BY <1>8, <2>2, MarkEffect
    <3>2. claimed'[CleanupId] = NoJob /\ \A i \in JobId \ {CleanupId} : claimed'[i] = claimed[i]
      BY <3>1 DEF IInv, TypeOK
    <3> QED
      BY <3>1, <3>2, LetGo, KeepsHold, JobsGo
  <2> QED
    BY <2>1, <2>2
<1>9. ASSUME NEW id \in JobId, BackoffElapses(id) PROVE Lives
  <2>1. claimed' = claimed /\ jobs' = [jobs EXCEPT ![id].next = "due"]
    BY <1>9 DEF BackoffElapses, batch
  <2>2. jobs'[id] = [jobs[id] EXCEPT !.next = "due"] /\ \A i \in JobId \ {id} : jobs'[i] = jobs[i]
    BY <2>1 DEF IInv, TypeOK
  <2>3. jobs'[id].state = jobs[id].state /\ jobs'[id].attempts = jobs[id].attempts
    BY <2>2, DueRows DEF IInv, TypeOK
  <2> QED
    BY <2>1, <2>2, <2>3, KeepsHold, JobsGo
<1>10. ASSUME RestartWorker PROVE Lives
  <2>1. jobs' = jobs /\ \A id \in JobId : claimed'[id] = NoJob
    BY <1>10 DEF RestartWorker, store
  <2> QED
    BY <2>1, LetGo, JobsGo
<1>11. CASE UNCHANGED <<jobs, claimed, held>>
  BY <1>11, KeepsHold, JobsGo
<1> QED
  BY JobSteps, <1>1, <1>2, <1>3, <1>4, <1>5, <1>6, <1>7, <1>8, <1>9, <1>10, <1>11

\* The queue, with restarts and store errors too, implements the life of a job.
THEOREM QueueImplementsLifecycle == Spec => LifecycleSpec
<1>1. Init => Lockstep /\ Lifecycle!Init
  BY NullRows DEF Init, Lockstep, Lifecycle!Init, Stage, Tries, JobId
<1>2. IInv /\ Lockstep /\ [Next]_vars => Lockstep'
  BY LockstepStep
<1>3. IInv /\ Lockstep /\ [Next]_vars => [Lifecycle!Next]_(Lifecycle!vars)
  BY LifecycleStep
<1> QED
  BY <1>1, <1>2, <1>3, Invariance, PTL DEF Spec, LifecycleSpec, Lifecycle!Spec

=============================================================================

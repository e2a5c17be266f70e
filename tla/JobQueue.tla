------------------------------ MODULE JobQueue ------------------------------
(***************************************************************************)
(* The extraction queue of OpenBid: the jobs and tenders tables of the     *)
(* SQLite store, the worker process that claims and runs jobs, and the     *)
(* request handlers of the app process that add jobs.  Both processes      *)
(* share the database, so a step of this module is one store call: one SQL *)
(* statement or one transaction.  What a process read earlier it keeps in  *)
(* a local copy and may write back when the row has changed meanwhile.     *)
(*                                                                         *)
(* Time is abstract: the closing date of a tender is blank (or far away)   *)
(* or "soon", and soonPassed says that the clock has gone past it; aged is *)
(* the set of tenders stored more than 30 days ago; a job's next field     *)
(* says whether its NextAttemptAt has come.                                *)
(***************************************************************************)
EXTENDS Integers, FiniteSets

CONSTANTS
  Tender,        \* tender identifiers
  Url,           \* document addresses
  UnsafeUrl,     \* the addresses the worker refuses to fetch
  ExtractionId,  \* identifiers of extraction jobs
  CleanupId,     \* ExpiredTenderCleanupJobID, the one maintenance job
  Goroutine,     \* the job goroutines of the worker (JobConcurrency of them)
  Loop,          \* the main goroutine of the worker, Runner.Run
  Startup,       \* the main goroutine of the app before it serves requests
  Handler,       \* request handlers of the app process
  None,          \* the empty identifier or address
  Ageable,       \* bound: the tenders that may get older than 30 days
  MaxAttempts,   \* tries before a job is failed: 3 in the code
  ClaimLimit,    \* jobs claimed by one pass: 4 per goroutine in the code
  SyncOnStartup, \* BootstrapSyncOnStartup, for the first start of the app
  CanCrash,      \* whether the two processes may be killed and restarted
  StoreMayFail   \* whether a store call may return an error

ASSUME QueueAssumption ==
  /\ None \notin Tender /\ None \notin Url
  /\ UnsafeUrl \subseteq Url
  /\ Ageable \subseteq Tender
  /\ CleanupId \notin ExtractionId
  /\ None \notin ExtractionId \cup {CleanupId}
  /\ Goroutine \cap Handler = {}
  /\ Loop # Startup /\ {Loop, Startup} \cap (Goroutine \cup Handler) = {}
  /\ MaxAttempts \in Nat \ {0}
  /\ ClaimLimit \in Nat \ {0}
  /\ SyncOnStartup \in BOOLEAN
  /\ CanCrash \in BOOLEAN
  /\ StoreMayFail \in BOOLEAN

JobId == ExtractionId \cup {CleanupId}
Lister == {Loop, Startup}
Process == Goroutine \cup Handler \cup Lister

VARIABLES
  tenders,     \* tenders table: the row of each tender
  index,       \* tender_filter_index: is the tender listed as active?
  jobs,        \* jobs table
  soonPassed,  \* the clock is past the closing dates that are "soon"
  aged,        \* tenders stored for more than 30 days
  phase,       \* where the pass of Runner.Run is
  todo,        \* tenders the sources may still list in this pass or startup
  claimed,     \* copies of the rows the worker claimed and has not finished
  held,        \* the claimed job each goroutine works on
  outcome,     \* the state the goroutine decided to give its job
  pc,          \* the next store call of each process
  tid,         \* the tender each process works on
  ten,         \* its local copy of that tender
  snap         \* the rows listed by a running CleanupExpiredTenders

vars == <<tenders, index, jobs, soonPassed, aged, phase, todo, claimed, held,
          outcome, pc, tid, ten, snap>>
store == <<tenders, index, jobs>>
clock == <<soonPassed, aged>>
locals == <<pc, tid, ten>>
batch == <<claimed, held, outcome>>

-----------------------------------------------------------------------------
(* Rows *)

Life == {"absent", "active", "archived"}
DocumentStatus == {"none", "queued", "retry", "failed", "completed", "skipped"}
TenderRow == [life: Life, doc: DocumentStatus, url: Url \cup {None},
              closing: {"blank", "soon"}]
NoTender == [life |-> "absent", doc |-> "none", url |-> None, closing |-> "blank"]

Settled == {"failed", "completed", "skipped"}
Pending == {"queued", "retry", "processing"}
JobState == {"absent"} \cup Pending \cup Settled
JobRow == [state: JobState, tender: Tender \cup {None}, url: Url \cup {None},
           attempts: Nat, next: {"due", "later"}]
NoJob == [state |-> "absent", tender |-> None, url |-> None,
          attempts |-> 0, next |-> "later"]
QueuedJob(t, u) == [state |-> "queued", tender |-> t, url |-> u,
                    attempts |-> 0, next |-> "due"]

\* tenderstate.IsExpired of a copy of a row, evaluated now.
IsExpired(row) == row.closing = "soon" /\ soonPassed

\* Mutant: no unique index.
TakenNever(t, u, id) == FALSE

\* Mutant: no unique index; QueueJob looks for a row before it inserts one.
TakenForNew(t, u, id) ==
  /\ id = None
  /\ \E other \in ExtractionId :
       jobs[other].state # "absent" /\ jobs[other].tender = t /\ jobs[other].url = u

\* Another row of the jobs table has this document: the unique index
\* idx_jobs_tender_document_unique refuses a second one.  The maintenance job
\* has no tender and is outside the index.
Taken(t, u, id) ==
  \E other \in ExtractionId \ {id} :
    jobs[other].state # "absent" /\ jobs[other].tender = t /\ jobs[other].url = u

\* newid(): an identifier no row and no copy carries.
Fresh(id) == jobs[id].state = "absent" /\ claimed[id].state = "absent"

\* Mutant: failed rows, whose NextAttemptAt is zero, are selected as well.
ClaimableFailed(row) == row.state \in {"queued", "retry", "failed"} /\ row.next = "due"

\* Mutant: rows that wait for a retry are not selected.
ClaimableQueued(row) == row.state = "queued" /\ row.next = "due"

\* The rows ClaimDueJobs selects.
Claimable(row) == row.state \in {"queued", "retry"} /\ row.next = "due"

\* A failed try was the last one.
Exhausted(row) == row.attempts >= MaxAttempts

\* Mutant: the try that ends in a skip is given back twice.
FinishUncountsTwice(row, state) ==
  [row EXCEPT !.state = state,
              !.attempts = IF state = "skipped" THEN @ - 2 ELSE @,
              !.next = IF state = "retry" THEN "later" ELSE "due"]

\* Mutant: the state of a row that is to be retried is not set.
FinishForgetsRetry(row, state) ==
  [row EXCEPT !.state = IF state = "retry" THEN @ ELSE state,
              !.attempts = IF state = "skipped" THEN @ - 1 ELSE @,
              !.next = IF state = "retry" THEN "later" ELSE "due"]

\* The row a goroutine writes when it is done with its copy: a skipped job does
\* not count the try, a retry waits for its backoff, the others have a zero
\* NextAttemptAt.
Finish(row, state) ==
  [row EXCEPT !.state = state,
              !.attempts = IF state = "skipped" THEN @ - 1 ELSE @,
              !.next = IF state = "retry" THEN "later" ELSE "due"]

Init ==
  /\ tenders = [t \in Tender |-> NoTender]
  /\ index = [t \in Tender |-> "absent"]
  /\ jobs = [id \in JobId |-> NoJob]
  /\ soonPassed = FALSE
  /\ aged = {}
  /\ phase = "sources"
  /\ todo = [p \in Lister |-> IF p = Startup /\ ~SyncOnStartup THEN {} ELSE Tender]
  /\ claimed = [id \in JobId |-> NoJob]
  /\ held = [g \in Goroutine |-> None]
  /\ outcome = [g \in Goroutine |-> "absent"]
  /\ pc = [p \in Process |-> "idle"]
  /\ tid = [p \in Process |-> None]
  /\ ten = [p \in Process |-> NoTender]
  /\ snap = [p \in Process |-> [t \in Tender |-> NoTender]]

-----------------------------------------------------------------------------
(* Writing a tender: UpsertTender *)

StoreResult == IF StoreMayFail THEN BOOLEAN ELSE {TRUE}

\* The next store call of a process.
Label == {"idle", "upsert_read", "upsert_row", "upsert_index", "enqueue",
          "queue_cleanup", "list", "archive", "start", "delete", "extract",
          "reload", "update", "status", "mark"}

Goto(p, label) == pc' = [pc EXCEPT ![p] = label]

\* p starts to write row as tender t.
BeginUpsert(p, t, row) ==
  /\ Goto(p, "upsert_read")
  /\ tid' = [tid EXCEPT ![p] = t]
  /\ ten' = [ten EXCEPT ![p] = row]

\* p's operation is over: it forgets its tender.
Done(p) ==
  /\ Goto(p, "idle")
  /\ tid' = [tid EXCEPT ![p] = None]
  /\ ten' = [ten EXCEPT ![p] = NoTender]

\* What follows UpsertTender.  A goroutine that still holds its job goes on to
\* UpdateJob.  The others queue a job for a document that was not skipped.  The
\* worker logs an error and goes on, a handler answers with it, and the startup
\* sync stops at it: the app exits and serves after its next start, without sync.
AfterUpsert(p, ok) ==
  /\ IF p \in Goroutine
     THEN IF held[p] # None
          THEN Goto(p, "update") /\ UNCHANGED <<tid, ten>>
          ELSE Done(p)
     ELSE IF (ok \/ p = Loop) /\ ten[p].doc # "skipped" /\ ten[p].url # None
          THEN Goto(p, "enqueue") /\ UNCHANGED <<tid, ten>>
          ELSE Done(p)
  /\ todo' = IF p = Startup /\ ~ok THEN [todo EXCEPT ![p] = {}] ELSE todo

\* The stored row is read first: what is archived stays archived.  An error of
\* the read is taken for a tender that is not stored yet.
KeepArchived(row, existing) ==
  IF existing.life = "archived" THEN [row EXCEPT !.life = "archived"] ELSE row

UpsertRead(p) ==
  /\ pc[p] = "upsert_read"
  /\ Goto(p, "upsert_row")
  /\ \E ok \in StoreResult :
       ten' = [ten EXCEPT ![p] = IF ok THEN KeepArchived(@, tenders[tid[p]]) ELSE @]
  /\ UNCHANGED <<store, clock, phase, todo, batch, tid, snap>>

UpsertRow(p) ==
  /\ pc[p] = "upsert_row"
  /\ \/ /\ tenders' = [tenders EXCEPT ![tid[p]] = ten[p]]
        /\ Goto(p, "upsert_index")
        /\ UNCHANGED <<tid, ten, todo>>
     \/ /\ StoreMayFail
        /\ AfterUpsert(p, FALSE)
        /\ UNCHANGED tenders
  /\ UNCHANGED <<index, jobs, clock, phase, batch, snap>>

\* The index rows, and then the search index and the keyword matches, which no
\* step here reads: an error in those leaves the index written.
UpsertIndex(p) ==
  /\ pc[p] = "upsert_index"
  /\ \E ok \in StoreResult :
       /\ index' \in {[index EXCEPT ![tid[p]] = ten[p].life]}
                       \cup (IF ok THEN {} ELSE {index})
       /\ AfterUpsert(p, ok)
  /\ UNCHANGED <<tenders, jobs, clock, phase, batch, snap>>

\* QueueJob: "on conflict do nothing", whatever the state of the row in the way.
QueueJob(p) ==
  /\ pc[p] = "enqueue"
  /\ Done(p)
  /\ \E ok \in StoreResult :
       /\ IF ~ok \/ Taken(tid[p], ten[p].url, None)
          THEN UNCHANGED jobs
          ELSE \E id \in ExtractionId :
                 /\ Fresh(id)
                 /\ jobs' = [jobs EXCEPT ![id] = QueuedJob(tid[p], ten[p].url)]
       /\ todo' = IF p = Startup /\ ~ok THEN [todo EXCEPT ![p] = {}] ELSE todo
  /\ UNCHANGED <<tenders, index, clock, phase, batch, snap>>

-----------------------------------------------------------------------------
(* The app process *)

\* The app has finished its start: it serves requests and answers the health
\* check, and only then is the worker started for the first time.
Started == todo[Startup] = {} /\ pc[Startup] = "idle"

Serving(h) == pc[h] = "idle" /\ Started

\* The row QueueExtraction, QueueRequeue and the bulk action write.
Requested(row) ==
  [row EXCEPT !.doc = IF IsExpired(row) THEN "skipped" ELSE "queued"]

\* QueueExtraction, QueueRequeue, BulkTenders with action "queue": the tender is
\* read, and one that is missing, archived or without document ends the request.
RequestExtraction(h, t) ==
  /\ Serving(h)
  /\ tenders[t].life = "active" /\ tenders[t].url # None
  /\ BeginUpsert(h, t, Requested(tenders[t]))
  /\ UNCHANGED <<store, clock, phase, todo, batch, snap>>

\* CleanupExpiredTenders of the app: the maintenance job is read ...
RequestCleanup(h) ==
  /\ Serving(h)
  /\ jobs[CleanupId].state \notin Pending
  /\ Goto(h, "queue_cleanup")
  /\ UNCHANGED <<store, clock, phase, todo, batch, tid, ten, snap>>

\* ... and then written whole, queued and with no attempts.
QueueCleanup(h) ==
  /\ pc[h] = "queue_cleanup"
  /\ Goto(h, "idle")
  /\ \/ jobs' = [jobs EXCEPT ![CleanupId] = QueuedJob(None, None)]
     \/ StoreMayFail /\ UNCHANGED jobs
  /\ UNCHANGED <<tenders, index, clock, phase, todo, batch, tid, ten, snap>>

-----------------------------------------------------------------------------
(* Listing tenders: the sources phase of the worker and the startup sync *)

Listing(p) == pc[p] = "idle" /\ (p = Loop => phase = "sources" /\ Started)

\* The row of a listed tender: adapters give it no document status or "queued".
Listed(u, closing, doc) ==
  LET row == [life |-> "active", doc |-> doc, url |-> u, closing |-> closing] IN
  CASE IsExpired(row) -> [row EXCEPT !.doc = "skipped"]
    [] ~IsExpired(row) /\ u # None -> [row EXCEPT !.doc = "queued"]
    [] OTHER -> row

ListTender(p, t) ==
  /\ Listing(p) /\ t \in todo[p]
  /\ todo' = [todo EXCEPT ![p] = @ \ {t}]
  /\ \E u \in Url \cup {None}, c \in {"blank", "soon"}, d \in {"none", "queued"} :
       BeginUpsert(p, t, Listed(u, c, d))
  /\ UNCHANGED <<store, clock, phase, batch, snap>>

\* The tender is not listed, or the smart keyword gate refuses it.
PassOver(p, t) ==
  /\ Listing(p) /\ t \in todo[p]
  /\ todo' = [todo EXCEPT ![p] = @ \ {t}]
  /\ UNCHANGED <<store, clock, phase, batch, locals, snap>>

EndSources ==
  /\ Listing(Loop) /\ todo[Loop] = {}
  /\ phase' = "cleanup"
  /\ UNCHANGED <<store, clock, todo, batch, locals, snap>>

-----------------------------------------------------------------------------
(* CleanupExpiredTenders, by the loop or by the goroutine of the maintenance job *)

\* runAutomaticTenderCleanup: the last run may be less than a day ago.
AutomaticCleanup ==
  /\ phase = "cleanup" /\ pc[Loop] = "idle"
  /\ \/ Goto(Loop, "list") /\ UNCHANGED phase
     \/ phase' = "claim" /\ UNCHANGED pc
  /\ UNCHANGED <<store, clock, todo, batch, tid, ten, snap>>

NoSnap == [t \in Tender |-> NoTender]

AfterCleanup(p, ok) ==
  /\ snap' = [snap EXCEPT ![p] = NoSnap]
  /\ IF p = Loop
     THEN Goto(p, "idle") /\ phase' = "claim" /\ UNCHANGED outcome
     ELSE /\ Goto(p, "update")
          /\ outcome' = [outcome EXCEPT ![p] =
               IF ok THEN "completed"
               ELSE IF Exhausted(claimed[held[p]]) THEN "failed" ELSE "retry"]
          /\ UNCHANGED phase

Doomed(t) == tenders[t].life = "active" /\ (IsExpired(tenders[t]) \/ t \in aged)

\* The tenders are listed before the transaction begins ...
ListDoomed(p) ==
  /\ pc[p] = "list"
  /\ \/ /\ \E t \in Tender : Doomed(t)
        /\ Goto(p, "archive")
        /\ snap' = [snap EXCEPT ![p] = [t \in Tender |->
                      IF Doomed(t) THEN [tenders[t] EXCEPT !.life = "archived"]
                                   ELSE NoTender]]
        /\ UNCHANGED <<phase, outcome>>
     \/ ~(\E t \in Tender : Doomed(t)) /\ AfterCleanup(p, TRUE)
     \/ StoreMayFail /\ AfterCleanup(p, FALSE)
  /\ UNCHANGED <<store, clock, todo, claimed, held, tid, ten>>

\* ... which writes the listed copies back as archived and deletes the jobs of
\* every tender the index calls archived.
ArchiveDoomed(p) ==
  /\ pc[p] = "archive"
  /\ \/ /\ tenders' = [t \in Tender |->
             IF snap[p][t].life = "archived" THEN snap[p][t] ELSE tenders[t]]
        /\ index' = [t \in Tender |->
             IF snap[p][t].life = "archived" THEN "archived" ELSE index[t]]
        /\ jobs' = [id \in JobId |->
             IF \E t \in Tender : jobs[id].tender = t /\ index'[t] = "archived"
             THEN NoJob ELSE jobs[id]]
        /\ AfterCleanup(p, TRUE)
     \/ StoreMayFail /\ AfterCleanup(p, FALSE) /\ UNCHANGED store
  /\ UNCHANGED <<clock, todo, claimed, held, tid, ten>>

-----------------------------------------------------------------------------
(* processJobs: claiming, and the end of a pass *)

ClaimDueJobs ==
  /\ phase = "claim"
  /\ LET due == {id \in JobId : Claimable(jobs[id])} IN
     \E picked \in SUBSET due :
       /\ Cardinality(picked) <= ClaimLimit
       /\ picked = due \/ Cardinality(picked) = ClaimLimit
       /\ jobs' = [id \in JobId |->
            IF id \in picked
            THEN [jobs[id] EXCEPT !.state = "processing", !.attempts = @ + 1]
            ELSE jobs[id]]
       /\ claimed' = [id \in JobId |-> IF id \in picked THEN jobs'[id] ELSE NoJob]
  /\ phase' = "jobs"
  /\ UNCHANGED <<tenders, index, clock, todo, held, outcome, locals, snap>>

\* An error of ClaimDueJobs ends the pass.
ClaimFails ==
  /\ StoreMayFail /\ phase = "claim"
  /\ phase' = "sources"
  /\ todo' = [todo EXCEPT ![Loop] = Tender]
  /\ UNCHANGED <<store, clock, batch, locals, snap>>

\* Every claimed job is finished: ArchiveFinishedJobs moves completed and skipped
\* rows untouched for 30 days to job_history, and the next pass begins.
EndPass ==
  /\ phase = "jobs"
  /\ \A id \in JobId : claimed[id].state = "absent"
  /\ \A g \in Goroutine : pc[g] = "idle"
  /\ \E old \in SUBSET {id \in JobId : jobs[id].state \in {"completed", "skipped"}} :
       jobs' = [id \in JobId |-> IF id \in old THEN NoJob ELSE jobs[id]]
  /\ phase' = "sources"
  /\ todo' = [todo EXCEPT ![Loop] = Tender]
  /\ UNCHANGED <<tenders, index, clock, batch, locals, snap>>

-----------------------------------------------------------------------------
(* processClaimedJob, one goroutine *)

Unheld(id) == claimed[id].state # "absent" /\ \A g \in Goroutine : held[g] # id

\* Mutant: the job goes back to the channel of the pass.
ReleaseToChannel(g) ==
  /\ held' = [held EXCEPT ![g] = None]
  /\ UNCHANGED claimed

\* The goroutine lets go of its job.
Release(g) ==
  /\ claimed' = [claimed EXCEPT ![held[g]] = NoJob]
  /\ held' = [held EXCEPT ![g] = None]

Take(g, id) ==
  /\ phase = "jobs" /\ pc[g] = "idle" /\ Unheld(id)
  /\ held' = [held EXCEPT ![g] = id]
  /\ Goto(g, IF id = CleanupId THEN "mark" ELSE "start")
  /\ UNCHANGED <<store, clock, phase, todo, claimed, outcome, tid, ten, snap>>

\* GetTender and the checks before the extraction.  Any error of GetTender, not
\* only a missing tender, deletes the job.
Start(g) ==
  /\ pc[g] = "start"
  /\ LET t == claimed[held[g]].tender
         row == tenders[t] IN
     \/ /\ row.life # "active" \/ StoreMayFail
        /\ Goto(g, "delete")
        /\ UNCHANGED <<outcome, tid, ten>>
     \/ /\ row.life = "active" /\ IsExpired(row)
        /\ outcome' = [outcome EXCEPT ![g] = "skipped"]
        /\ BeginUpsert(g, t, [row EXCEPT !.doc = "skipped"])
     \/ /\ row.life = "active" /\ ~IsExpired(row)
        /\ claimed[held[g]].url \in UnsafeUrl
        /\ outcome' = [outcome EXCEPT ![g] = "failed"]
        /\ Goto(g, "update")
        /\ UNCHANGED <<tid, ten>>
     \/ /\ row.life = "active" /\ ~IsExpired(row)
        /\ claimed[held[g]].url \notin UnsafeUrl
        /\ Goto(g, "extract")
        /\ UNCHANGED <<outcome, tid, ten>>
  /\ UNCHANGED <<store, clock, phase, todo, claimed, held, snap>>

DeleteJob(g) ==
  /\ pc[g] = "delete"
  /\ Release(g) /\ Done(g)
  /\ \/ jobs' = [jobs EXCEPT ![held[g]] = NoJob]
     \/ StoreMayFail /\ UNCHANGED jobs
  /\ UNCHANGED <<tenders, index, clock, phase, todo, outcome, snap>>

\* The extractor answers, or fails and the try is spent.
Extract(g) ==
  /\ pc[g] = "extract"
  /\ \/ /\ outcome' = [outcome EXCEPT ![g] = "completed"]
        /\ Goto(g, "reload")
     \/ /\ outcome' = [outcome EXCEPT ![g] =
             IF Exhausted(claimed[held[g]]) THEN "failed" ELSE "retry"]
        /\ Goto(g, "update")
  /\ UNCHANGED <<store, clock, phase, todo, claimed, held, tid, ten, snap>>

\* After the extraction the tender is read again; its closing date may have been
\* found in the document.  Without tender only the job is completed.
Reload(g) ==
  /\ pc[g] = "reload"
  /\ LET t == claimed[held[g]].tender
         row == tenders[t] IN
     \/ /\ row.life = "active"
        /\ \E c \in {"blank", "soon"} :
             /\ row.closing = "soon" => c = "soon"
             /\ BeginUpsert(g, t, [row EXCEPT !.doc = "completed", !.closing = c])
     \/ /\ row.life # "active" \/ StoreMayFail
        /\ Goto(g, "update")
        /\ UNCHANGED <<tid, ten>>
  /\ UNCHANGED <<store, clock, phase, todo, batch, snap>>

\* UpdateJob writes the whole row, and inserts it when it is gone; the unique
\* index may refuse that.  An error is only logged.  After a failed or retried
\* extraction the tender's document status follows.
UpdateJob(g) ==
  /\ pc[g] = "update"
  /\ LET id == held[g]
         row == Finish(claimed[id], outcome[g]) IN
     /\ IF id \in ExtractionId /\ Taken(row.tender, row.url, id)
        THEN UNCHANGED jobs
        ELSE \/ jobs' = [jobs EXCEPT ![id] = row]
             \/ StoreMayFail /\ UNCHANGED jobs
     /\ IF id \in ExtractionId /\ outcome[g] \in {"failed", "retry"}
        THEN /\ Goto(g, "status")
             /\ tid' = [tid EXCEPT ![g] = row.tender]
             /\ UNCHANGED <<outcome, ten>>
        ELSE Done(g) /\ outcome' = [outcome EXCEPT ![g] = "absent"]
  /\ Release(g)
  /\ UNCHANGED <<tenders, index, clock, phase, todo, snap>>

\* updateTenderDocumentState
UpdateStatus(g) ==
  /\ pc[g] = "status"
  /\ outcome' = [outcome EXCEPT ![g] = "absent"]
  /\ LET row == tenders[tid[g]] IN
     \/ /\ row.life = "active"
        /\ BeginUpsert(g, tid[g], [row EXCEPT !.doc = outcome[g]])
     \/ /\ row.life # "active" \/ StoreMayFail
        /\ Done(g)
  /\ UNCHANGED <<store, clock, phase, todo, claimed, held, snap>>

\* processExpiredTenderCleanupJob begins by writing the claimed copy back.
MarkCleanup(g) ==
  /\ pc[g] = "mark"
  /\ \/ /\ jobs' = [jobs EXCEPT ![held[g]] = claimed[held[g]]]
        /\ Goto(g, "list")
        /\ UNCHANGED <<claimed, held>>
     \/ /\ StoreMayFail
        /\ Release(g) /\ Goto(g, "idle")
        /\ UNCHANGED jobs
  /\ UNCHANGED <<tenders, index, clock, phase, todo, outcome, tid, ten, snap>>

-----------------------------------------------------------------------------
(* Time and restarts *)

ClosingDatePasses ==
  /\ ~soonPassed /\ soonPassed' = TRUE
  /\ UNCHANGED <<store, aged, phase, todo, batch, locals, snap>>

TenderAges(t) ==
  /\ t \in Ageable \ aged
  /\ tenders[t].life # "absent"
  /\ aged' = aged \cup {t}
  /\ UNCHANGED <<store, soonPassed, phase, todo, batch, locals, snap>>

BackoffElapses(id) ==
  /\ jobs[id].state = "retry" /\ jobs[id].next = "later"
  /\ jobs' = [jobs EXCEPT ![id].next = "due"]
  /\ UNCHANGED <<tenders, index, clock, phase, todo, batch, locals, snap>>

\* The processes of S lose their local state.
Forget(S) ==
  /\ pc' = [p \in Process |-> IF p \in S THEN "idle" ELSE pc[p]]
  /\ tid' = [p \in Process |-> IF p \in S THEN None ELSE tid[p]]
  /\ ten' = [p \in Process |-> IF p \in S THEN NoTender ELSE ten[p]]
  /\ snap' = [p \in Process |-> IF p \in S THEN NoSnap ELSE snap[p]]

\* The worker is killed and starts again: Run resets the running sources and
\* nothing in the jobs table.
RestartWorker ==
  /\ CanCrash
  /\ Forget(Goroutine \cup {Loop})
  /\ claimed' = [id \in JobId |-> NoJob]
  /\ held' = [g \in Goroutine |-> None]
  /\ outcome' = [g \in Goroutine |-> "absent"]
  /\ phase' = "sources"
  /\ todo' = [todo EXCEPT ![Loop] = Tender]
  /\ UNCHANGED <<store, clock>>

\* The app is killed and starts again; it syncs at its first start only.
RestartApp ==
  /\ CanCrash
  /\ Forget(Handler \cup {Startup})
  /\ todo' = [todo EXCEPT ![Startup] = {}]
  /\ UNCHANGED <<store, clock, phase, batch>>

-----------------------------------------------------------------------------
Upsert(p) == UpsertRead(p) \/ UpsertRow(p) \/ UpsertIndex(p)
CleanupStep(p) == ListDoomed(p) \/ ArchiveDoomed(p)
List(p) == \E t \in Tender : ListTender(p, t) \/ PassOver(p, t)

GoroutineStep(g) ==
  \/ \E id \in JobId : Take(g, id)
  \/ Start(g) \/ DeleteJob(g) \/ Extract(g) \/ Reload(g)
  \/ UpdateJob(g) \/ UpdateStatus(g) \/ MarkCleanup(g)
  \/ Upsert(g) \/ CleanupStep(g)

LoopStep ==
  \/ List(Loop) \/ EndSources
  \/ AutomaticCleanup \/ CleanupStep(Loop)
  \/ ClaimDueJobs \/ ClaimFails \/ EndPass
  \/ Upsert(Loop) \/ QueueJob(Loop)

StartupStep == List(Startup) \/ Upsert(Startup) \/ QueueJob(Startup)

HandlerStep(h) ==
  \/ \E t \in Tender : RequestExtraction(h, t)
  \/ RequestCleanup(h) \/ QueueCleanup(h)
  \/ Upsert(h) \/ QueueJob(h)

TimeStep ==
  \/ ClosingDatePasses
  \/ \E t \in Tender : TenderAges(t)
  \/ \E id \in JobId : BackoffElapses(id)

Next ==
  \/ \E g \in Goroutine : GoroutineStep(g)
  \/ LoopStep \/ StartupStep
  \/ \E h \in Handler : HandlerStep(h)
  \/ TimeStep
  \/ RestartWorker \/ RestartApp

Spec == Init /\ [][Next]_vars

\* The goroutines of the worker are scheduled and their calls return (the
\* extractor client has a timeout); a backoff ends.  Nobody has to send requests.
Fairness ==
  /\ \A g \in Goroutine : WF_vars(GoroutineStep(g))
  /\ WF_vars(LoopStep)
  /\ \A id \in JobId : WF_vars(BackoffElapses(id))

FairSpec == Spec /\ Fairness

-----------------------------------------------------------------------------
(* Properties *)

\* Every variable has its type; what a process holds is consistent with the call
\* it is about to make.
TypeOK ==
  /\ tenders \in [Tender -> TenderRow]
  /\ index \in [Tender -> Life]
  /\ jobs \in [JobId -> JobRow]
  /\ soonPassed \in BOOLEAN
  /\ aged \subseteq Tender
  /\ phase \in {"sources", "cleanup", "claim", "jobs"}
  /\ todo \in [Lister -> SUBSET Tender]
  /\ claimed \in [JobId -> JobRow]
  /\ held \in [Goroutine -> JobId \cup {None}]
  /\ outcome \in [Goroutine -> JobState]
  /\ pc \in [Process -> Label]
  /\ tid \in [Process -> Tender \cup {None}]
  /\ ten \in [Process -> TenderRow]
  /\ snap \in [Process -> [Tender -> TenderRow]]

\* No document has two rows in the jobs table: not even when UpdateJob writes a
\* copy back after the cleanup has deleted its row and a request has queued the
\* document anew.
OneRowPerDocument ==
  \A i, j \in ExtractionId :
    /\ jobs[i].state # "absent" /\ jobs[j].state # "absent"
    /\ jobs[i].tender = jobs[j].tender /\ jobs[i].url = jobs[j].url
    => i = j

\* Two goroutines of the worker never work on one job, and never extract one
\* document at the same time.
ClaimsAreExclusive ==
  \A g, h \in Goroutine :
    /\ g # h /\ held[g] # None /\ held[h] # None
    => /\ held[g] # held[h]
       /\ claimed[held[g]].tender # claimed[held[h]].tender
            \/ claimed[held[g]].url # claimed[held[h]].url

\* The attempts of a row and of the worker's copy agree with its state: no job is
\* tried more than MaxAttempts times, one that waits for a retry has a try left,
\* and a skipped try is not counted.
AttemptsFit(row) ==
  CASE row.state = "queued" -> row.attempts = 0
    [] row.state = "retry" -> row.attempts \in 1..(MaxAttempts - 1)
    [] row.state = "skipped" -> row.attempts \in 0..(MaxAttempts - 1)
    [] row.state \in {"processing", "completed", "failed"} ->
         row.attempts \in 1..MaxAttempts
    [] OTHER -> row.attempts = 0

AttemptsBounded ==
  \A id \in JobId : AttemptsFit(jobs[id]) /\ AttemptsFit(claimed[id])

\* While the worker runs and the store answers, a row in state "processing" is
\* in the worker's hands.  Nothing else ever takes a row out of that state
\* (ClaimDueJobs selects queued and retry rows only), so a row that is not would
\* stay there for ever.
ProcessingIsOwned ==
  \A id \in JobId : jobs[id].state = "processing" => claimed[id].state = "processing"

\* The result of an extraction job is never overwritten: a settled row stays as
\* it is until it is archived or its tender is.
ResultsStay ==
  [][\A id \in ExtractionId :
       jobs[id].state \in Settled => jobs'[id] \in {jobs[id], NoJob}]_vars

\* The rows, seen through the worker's claims, follow the life of a job: what
\* the worker has in its hands is being processed, whatever its row says.
Stage(id) == IF claimed[id].state # "absent" THEN "processing" ELSE jobs[id].state
Tries(id) == IF claimed[id].state # "absent" THEN claimed[id].attempts ELSE jobs[id].attempts

Lifecycle == INSTANCE JobLifecycle WITH
  Job <- JobId,
  Repeatable <- {CleanupId},
  stage <- [id \in JobId |-> Stage(id)],
  tries <- [id \in JobId |-> Tries(id)]

LifecycleSpec == Lifecycle!Spec

\* Every job that was queued is settled, or removed, in the end.
JobsSettle ==
  \A id \in JobId : (jobs[id].state \in Pending) ~> (jobs[id].state \notin Pending)

\* A pass of the worker ends, whichever calls of the store fail on the way.
PassesEnd == (phase = "jobs") ~> (phase = "sources")

-----------------------------------------------------------------------------
(* What tests and documents say of the queue, and interleavings break *)

\* app_test.go:1766, "expected queued extraction job after retry": when a request
\* to extract a document has been answered, a job for that document waits or runs.
RequestsAreQueued ==
  [][\A h \in Handler :
       pc[h] = "enqueue" /\ pc'[h] = "idle"
       => \E id \in ExtractionId :
            /\ jobs'[id].state \in Pending
            /\ jobs'[id].tender = tid[h] /\ jobs'[id].url = ten[h].url]_vars

=============================================================================

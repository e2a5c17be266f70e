------------------------------ MODULE Migration ------------------------------
(***************************************************************************)
(* Opening the database: every process of the system, app, worker and      *)
(* tools, brings the schema up to date before it uses it.  It reads the    *)
(* version, and then makes all changes in one transaction, of which SQLite *)
(* admits one at a time; nothing in the program orders the processes.      *)
(* Those that serve add and delete rows meanwhile.                         *)
(***************************************************************************)
EXTENDS Absent, Integers, FiniteSets

CONSTANTS
  Process,    \* processes that open the database
  Table,      \* relational tables that replace tables of JSON rows
  Item,       \* rows of them
  JSONRows,   \* the JSON rows, which nothing writes any more
  Indexable,  \* tenders
  JobTables   \* bound: tables of jobs to begin with

Current == 12    \* currentSchemaVersion
Relational == 10 \* versions before it take the aggregate path

\* An old installation, the last releases, and a release yet to come.
Version == {Relational - 1, Relational, Current - 1, Current, Current + 1}

\* The states of a job; of several jobs the one with the lowest rank is kept.
JobState == {"processing", "queued", "retry", "failed", "completed", "skipped"}
JobRank == [processing |-> 0, queued |-> 1, retry |-> 2, failed |-> 3, completed |-> 4, skipped |-> 5]

\* The tables and indexes that a migration makes.
Made(version) ==
  {o \in {"unique_jobs", "job_history", "tender_search"} :
     \/ o = "unique_jobs" /\ version >= Relational
     \/ o = "job_history" /\ version >= Current - 1
     \/ o = "tender_search" /\ version >= Current}

Database ==
  [version : Version, made : SUBSET Made(Current), records : [Table -> SUBSET Item],
   jobs : SUBSET UNION JobTables, indexed : SUBSET Indexable, searched : SUBSET Indexable]

ASSUME MigrationAssumption ==
  /\ JSONRows \in [Table -> SUBSET Item]
  /\ \A jobs \in JobTables : \A j \in jobs : j.state \in JobState
  /\ None \notin Process \cup Indexable \cup Database

VARIABLES
  db,       \* the database as others see it
  tx,       \* and as the transaction under way has left it
  writer,   \* the process whose transaction that is
  stage,    \* what a process does next
  read,     \* the version it has read
  before,   \* history: the database at first
  deleted,  \* history: rows that were deleted by those who serve
  finished, \* history: jobs that were
  late      \* history: processes that took an old path over a newer database

processes == <<writer, stage, read>>
databaseNotes == <<before, deleted, finished, late>>
databaseVars == <<db, tx, processes, databaseNotes>>

\* No two jobs of a tender have the same document.  Jobs of no tender are not
\* compared.
SameDocument(j, k) == j.tender # None /\ j.tender = k.tender /\ j.document = k.document
Distinct(jobs) == \A j, k \in jobs : SameDocument(j, k) => j = k

MigrationInit ==
  /\ \E version \in Version :
       db \in [version : {version}, made : {Made(version)}, records : [Table -> SUBSET Item],
              jobs : {jobs \in JobTables : version >= Relational => Distinct(jobs)},
              indexed : IF version >= Relational THEN {Indexable} ELSE SUBSET Indexable,
              searched : {IF version >= Current THEN Indexable ELSE {}}]
  /\ tx = None /\ writer = None
  /\ stage = [p \in Process |-> "down"]
  /\ read = [p \in Process |-> 0]
  /\ before = db
  /\ deleted = [t \in Table |-> {}] /\ finished = {} /\ late = {}

To(p, from, to) == stage[p] = from /\ stage' = [stage EXCEPT ![p] = to]

\* Mutant: every migration takes the aggregate path.
AnyPath(version) == "aggregate"

\* Where a migration from a version begins.
Path(version) ==
  CASE version < Relational -> "aggregate"
    [] version = Relational -> "version11"
    [] OTHER -> "version12"

\* NewSQLiteStore, migrate: a newer database is an error, a current one is used
\* as it is.
Open(p) ==
  /\ db.version <= Current
  /\ To(p, "down", IF db.version = Current THEN "serving" ELSE "begin")
  /\ read' = [read EXCEPT ![p] = db.version]
  /\ UNCHANGED <<db, tx, writer, databaseNotes>>

\* The transaction begins when no other has the lock.
Begin(p) ==
  /\ writer = None /\ To(p, "begin", Path(read[p]))
  /\ writer' = p /\ tx' = db
  /\ late' = IF read[p] < Relational /\ db.version > read[p] THEN late \cup {p} ELSE late
  /\ UNCHANGED <<db, read, before, deleted, finished>>

\* Mutant: any job of a document may be the one that is kept.
DeduplicatedAnyhow(kept, jobs) ==
  /\ kept \subseteq jobs /\ Distinct(kept)
  /\ \A j \in jobs \ kept : \E k \in kept : SameDocument(j, k)

\* Of the jobs for a document one is kept, which no other outranks.
Deduplicated(kept, jobs) ==
  /\ kept \subseteq jobs /\ Distinct(kept)
  /\ \A j \in jobs \ kept : \E k \in kept : SameDocument(j, k) /\ JobRank[k.state] <= JobRank[j.state]

\* The aggregate path: the indexes of tenders, one job for a document, ...
AggregateStatements(p) ==
  /\ To(p, "aggregate", "backfill")
  /\ \E kept \in SUBSET tx.jobs :
       /\ Deduplicated(kept, tx.jobs)
       /\ tx' = [tx EXCEPT !.indexed = Indexable, !.jobs = kept, !.made = @ \cup {"unique_jobs"}]
  /\ UNCHANGED <<db, writer, read, databaseNotes>>

\* ... and the relational tables, each of which gets the JSON rows if it is empty.
Backfilled(t) == IF tx.records[t] = {} THEN JSONRows[t] ELSE tx.records[t]

migrateRelationalTables(p) ==
  /\ To(p, "backfill", "version11")
  /\ tx' = [tx EXCEPT !.records = [t \in Table |-> Backfilled(t)]]
  /\ UNCHANGED <<db, writer, read, databaseNotes>>

Version11(p) ==
  /\ To(p, "version11", "version12")
  /\ tx' = [tx EXCEPT !.made = @ \cup {"job_history"}]
  /\ UNCHANGED <<db, writer, read, databaseNotes>>

\* The search index is made anew, from all tenders.
Version12(p) ==
  /\ To(p, "version12", "commit")
  /\ tx' = [tx EXCEPT !.made = @ \cup {"tender_search"}, !.searched = Indexable]
  /\ UNCHANGED <<db, writer, read, databaseNotes>>

\* The version is part of the transaction.
Commit(p) ==
  /\ To(p, "commit", "serving")
  /\ db' = [tx EXCEPT !.version = Current]
  /\ tx' = None /\ writer' = None
  /\ UNCHANGED <<read, databaseNotes>>

\* A statement fails and the process ends, or it is stopped: a transaction under
\* way is rolled back.
Stop(p) ==
  /\ stage[p] # "down"
  /\ stage' = [stage EXCEPT ![p] = "down"]
  /\ read' = [read EXCEPT ![p] = 0]
  /\ writer' = IF writer = p THEN None ELSE writer
  /\ tx' = IF writer = p THEN None ELSE tx
  /\ UNCHANGED <<db, databaseNotes>>

-----------------------------------------------------------------------------
(* Those who serve; their writes wait for a transaction under way *)

Serves == writer = None /\ \E p \in Process : stage[p] = "serving"

AddRow(t, i) ==
  /\ Serves /\ i \notin JSONRows[t] \cup deleted[t]
  /\ db' = [db EXCEPT !.records[t] = @ \cup {i}]
  /\ UNCHANGED <<tx, processes, databaseNotes>>

DeleteRow(t, i) ==
  /\ Serves /\ i \in db.records[t]
  /\ db' = [db EXCEPT !.records[t] = @ \ {i}]
  /\ deleted' = [deleted EXCEPT ![t] = @ \cup {i}]
  /\ UNCHANGED <<tx, processes, before, finished, late>>

FinishJob(j) ==
  /\ Serves /\ j \in db.jobs
  /\ db' = [db EXCEPT !.jobs = @ \ {j}]
  /\ finished' = finished \cup {j}
  /\ UNCHANGED <<tx, processes, before, deleted, late>>

MigrationNext ==
  \/ \E p \in Process :
       \/ Open(p) \/ Begin(p) \/ AggregateStatements(p) \/ migrateRelationalTables(p)
       \/ Version11(p) \/ Version12(p) \/ Commit(p) \/ Stop(p)
  \/ \E t \in Table, i \in Item : AddRow(t, i) \/ DeleteRow(t, i)
  \/ \E j \in UNION JobTables : FinishJob(j)

MigrationSpec == MigrationInit /\ [][MigrationNext]_databaseVars

-----------------------------------------------------------------------------

MigrationTypeOK ==
  /\ db \in Database /\ tx \in Database \cup {None}
  /\ writer \in Process \cup {None}
  /\ stage \in [Process -> {"down", "begin", "aggregate", "backfill", "version11", "version12",
                            "commit", "serving"}]
  /\ read \in [Process -> Version \cup {0}]
  /\ before \in Database
  /\ deleted \in [Table -> SUBSET Item]
  /\ finished \subseteq UNION JobTables
  /\ late \subseteq Process

\* What is deleted stays deleted: current databases never replay the backfills of
\* old ones, however often processes start, fail and start again.  Unless one
\* read the version before another had migrated, and got the lock after it.
DeletedStaysDeleted ==
  late = {} => \A t \in Table : deleted[t] \cap db.records[t] = {}

\* The rows that a migration of the first database leaves.
RowsBefore(t) ==
  IF before.version < Relational /\ before.records[t] = {}
  THEN JSONRows[t] ELSE before.records[t]

\* A migration loses nothing and leaves nothing undone, wherever it was broken
\* off before.  In a current database every row and every job of the one before
\* is there, or was deleted by those who serve, or has made way for another job
\* for its document that was as far.  Whoever serves finds the whole schema: all
\* tables and indexes, filled for every tender, and one job for a document.  A
\* newer database is left alone.
MigrationIsComplete ==
  /\ db.version = Current =>
       /\ \A t \in Table : RowsBefore(t) \subseteq db.records[t] \cup deleted[t]
       /\ \A j \in before.jobs : \E k \in db.jobs \cup finished :
            \/ k = j
            \/ SameDocument(j, k) /\ JobRank[k.state] <= JobRank[j.state]
  /\ (\E p \in Process : stage[p] = "serving") =>
       /\ db.version = Current /\ db.made = Made(Current)
       /\ db.indexed = Indexable /\ db.searched = Indexable
       /\ Distinct(db.jobs)
  /\ before.version > Current => db = before

=============================================================================

----------------------------- MODULE SourceCheck -----------------------------
(***************************************************************************)
(* Source checks of OpenBid: the source_configs and source_health tables,  *)
(* the worker that checks due sources, and the administrators who add,     *)
(* change, delete, pause and check sources through the app.  A health row  *)
(* is read, changed in memory and written back whole by all of them; a     *)
(* step of this module is one such read or write.                          *)
(*                                                                         *)
(* Dates are abstract: the next check of a row is unset ("zero"), still to *)
(* come ("later") or "due".  Messages, item counts, the sync_runs log and  *)
(* the computed health status (module Schedule) are left out; what a check *)
(* does with the tenders it lists is in JobQueue.                          *)
(***************************************************************************)
EXTENDS Schedule, FiniteSets

CONSTANTS
  Key,           \* source keys
  Default,       \* the keys of source.DefaultConfigs
  ConfigId,      \* identifiers of configuration rows
  Goroutine,     \* the source goroutines of the worker (SourceConcurrency)
  Loop,          \* the main goroutine of the worker
  Startup,       \* the main goroutine of the app before it serves requests
  Handler,       \* request handlers of the app
  None,          \* the empty key or identifier
  SyncOnStartup, \* BootstrapSyncOnStartup, for the first start of the app
  StoreMayFail,  \* whether a store call may return an error
  MaxKills       \* bound: how often the processes are killed

ASSUME SourceAssumption ==
  /\ Default \subseteq Key
  /\ None \notin Key \cup ConfigId
  /\ Goroutine \cap Handler = {}
  /\ Loop # Startup /\ {Loop, Startup} \cap (Goroutine \cup Handler) = {}
  /\ SyncOnStartup \in BOOLEAN /\ StoreMayFail \in BOOLEAN
  /\ MaxKills \in Nat

Process == Goroutine \cup Handler \cup {Loop, Startup}

VARIABLES
  configs,   \* source_configs
  paused,    \* Paused of source_schedule_settings
  health,    \* source_health
  first,     \* the app has never been started: an empty database
  kills,     \* how often a process was killed
  pc,        \* the next call of each process
  kept,      \* the configurations it listed
  rows,      \* the health rows it listed
  seen,      \* the Paused it read
  rest,      \* the listed configurations it has still to treat
  cid,       \* the configuration it works on: its identifier
  conf,      \* ... its copy of the configuration
  row,       \* ... and its copy of the health row
  trigger    \* why a goroutine checks its source

vars == <<configs, paused, health, first, kills, pc, kept, rows, seen, rest,
          cid, conf, row, trigger>>
store == <<configs, paused, health>>
lists == <<kept, rows, seen, rest>>
copy == <<cid, conf, row>>

-----------------------------------------------------------------------------
(* Rows *)

Config == [key: Key \cup {None}, mode: Mode]
NoConfig == [key |-> None, mode |-> "disabled"]

\* A last status other than success and failed is "other" (configured, queued,
\* running, skipped), and of the failures in a row only whether there are any.
HealthRow == [run: {"absent", "idle", "running"}, request: {"none", "pending"},
              last: {"none", "success", "failed", "other"},
              failures: 0..1, next: {"zero", "later", "due"}]
NoRow == [run |-> "absent", request |-> "none", last |-> "none",
          failures |-> 0, next |-> "zero"]
NewRow == [NoRow EXCEPT !.run = "idle", !.last = "other"]

\* Mutant: a row that is missing stays missing when it is written back.
ReadAsStored(r) == r

\* What a reader gets of a row: the zero value if there is none.
Read(r) == IF r.run = "absent" THEN [r EXCEPT !.run = "idle"] ELSE r

\* InitialNextCheckAt for a configuration and the settings read.
FirstDate(mode, stopped) == IF ShouldAutoCheck(mode, stopped) THEN "later" ELSE "zero"

NoConfigs == [id \in ConfigId |-> NoConfig]
NoRows == [k \in Key |-> NoRow]
Listed(list) == {id \in ConfigId : list[id].key # None}

Init ==
  /\ configs = NoConfigs /\ paused = FALSE /\ health = NoRows
  /\ first = TRUE /\ kills = 0
  /\ pc = [p \in Process |-> IF p = Loop THEN "waiting"
                             ELSE IF p = Startup THEN "seed_list" ELSE "idle"]
  /\ kept = [p \in Process |-> NoConfigs]
  /\ rows = [p \in Process |-> NoRows]
  /\ seen = [p \in Process |-> FALSE]
  /\ rest = [p \in Process |-> {}]
  /\ cid = [p \in Process |-> None]
  /\ conf = [p \in Process |-> NoConfig]
  /\ row = [p \in Process |-> NoRow]
  /\ trigger = [g \in Goroutine |-> "none"]

\* loadScheduleSettings, loadSourceScheduleSettings: the defaults on an error.
SettingsRead == {paused} \cup (IF StoreMayFail THEN {FALSE} ELSE {})

\* A read whose error is ignored leaves the zero value.
RowsRead(k) == {Read(health[k])} \cup (IF StoreMayFail THEN {Read(NoRow)} ELSE {})

Goto(p, label) == pc' = [pc EXCEPT ![p] = label]

\* p forgets its copies, or also what it listed.
DropCopy(p) ==
  /\ cid' = [cid EXCEPT ![p] = None]
  /\ conf' = [conf EXCEPT ![p] = NoConfig]
  /\ row' = [row EXCEPT ![p] = NoRow]
DropLists(p) ==
  /\ kept' = [kept EXCEPT ![p] = NoConfigs]
  /\ rows' = [rows EXCEPT ![p] = NoRows]
  /\ seen' = [seen EXCEPT ![p] = FALSE]
  /\ rest' = [rest EXCEPT ![p] = {}]

\* UpsertSourceHealth
WriteRow(k, r) == health' = [health EXCEPT ![k] = r]

-----------------------------------------------------------------------------
(* The worker: start, and listing what is due *)

\* The worker is started when the app answers its health check.
StartWorker ==
  /\ pc[Loop] = "waiting" /\ pc[Startup] = "serving"
  /\ Goto(Loop, "reset_list")
  /\ UNCHANGED <<store, first, kills, lists, copy, trigger>>

\* resetRunningSources: what a killed worker left running is set idle.
ListRunning ==
  /\ pc[Loop] = "reset_list"
  /\ \/ Goto(Loop, "reset") /\ rows' = [rows EXCEPT ![Loop] = health]
     \/ StoreMayFail /\ Goto(Loop, "configs") /\ UNCHANGED rows
  /\ UNCHANGED <<store, first, kills, kept, seen, rest, copy, trigger>>

LeftRunning == {k \in Key : rows[Loop][k].run = "running"}

Reset(k) ==
  /\ pc[Loop] = "reset" /\ k \in LeftRunning
  /\ \/ /\ WriteRow(k, [rows[Loop][k] EXCEPT !.run = "idle"])
        /\ rows' = [rows EXCEPT ![Loop][k].run = "idle"]
        /\ UNCHANGED pc
     \/ /\ StoreMayFail
        /\ Goto(Loop, "configs") /\ rows' = [rows EXCEPT ![Loop] = NoRows]
        /\ UNCHANGED health
  /\ UNCHANGED <<configs, paused, first, kills, kept, seen, rest, copy, trigger>>

EndReset ==
  /\ pc[Loop] = "reset" /\ LeftRunning = {}
  /\ Goto(Loop, "configs") /\ rows' = [rows EXCEPT ![Loop] = NoRows]
  /\ UNCHANGED <<store, first, kills, kept, seen, rest, copy, trigger>>

\* processSourceChecks lists configurations, settings and health one after the
\* other.  An error of a listing ends the pass, one of the settings is replaced
\* by the defaults.
ListConfigs ==
  /\ pc[Loop] = "configs"
  /\ Goto(Loop, "settings") /\ kept' = [kept EXCEPT ![Loop] = configs]
  /\ UNCHANGED <<store, first, kills, rows, seen, rest, copy, trigger>>

LoadSettings ==
  /\ pc[Loop] = "settings"
  /\ Goto(Loop, "health")
  /\ \E s \in SettingsRead : seen' = [seen EXCEPT ![Loop] = s]
  /\ UNCHANGED <<store, first, kills, kept, rows, rest, copy, trigger>>

\* A request for a disabled source is taken back.
Unasked(c, r) == c.mode = "disabled" /\ r.request = "pending"

ListHealth ==
  /\ pc[Loop] = "health"
  /\ \/ /\ Goto(Loop, "skip")
        /\ rows' = [rows EXCEPT ![Loop] = health]
        /\ rest' = [rest EXCEPT ![Loop] =
             {id \in Listed(kept[Loop]) :
                Unasked(kept[Loop][id], health[kept[Loop][id].key])}]
        /\ UNCHANGED <<kept, seen>>
     \/ StoreMayFail /\ Goto(Loop, "configs") /\ DropLists(Loop)
  /\ UNCHANGED <<store, first, kills, copy, trigger>>

Skip(id) ==
  /\ pc[Loop] = "skip" /\ id \in rest[Loop]
  /\ rest' = [rest EXCEPT ![Loop] = @ \ {id}]
  /\ LET k == kept[Loop][id].key IN
     \/ WriteRow(k, [rows[Loop][k] EXCEPT !.request = "none", !.last = "other"])
     \/ (StoreMayFail /\ UNCHANGED health)
  /\ UNCHANGED <<configs, paused, first, kills, pc, kept, rows, seen, copy, trigger>>

\* dueSourceTrigger
DueTrigger(c, r, stopped) ==
  CASE c.mode = "disabled" \/ r.run = "running" -> "none"
    [] c.mode # "disabled" /\ r.run # "running" /\ r.request = "pending" -> "manual"
    [] c.mode # "disabled" /\ r.run # "running" /\ r.request = "none" ->
         IF ShouldAutoCheck(c.mode, stopped) /\ r.next # "later"
         THEN "scheduled" ELSE "none"

ListedTrigger(id) ==
  DueTrigger(kept[Loop][id], rows[Loop][kept[Loop][id].key], seen[Loop])

BeginChecks ==
  /\ pc[Loop] = "skip" /\ rest[Loop] = {}
  /\ Goto(Loop, "checks")
  /\ rest' = [rest EXCEPT ![Loop] =
       {id \in Listed(kept[Loop]) : ListedTrigger(id) # "none"}]
  /\ UNCHANGED <<store, first, kills, kept, rows, seen, copy, trigger>>

\* The pass waits for its goroutines.
EndPass ==
  /\ pc[Loop] = "checks" /\ rest[Loop] = {}
  /\ \A g \in Goroutine : pc[g] = "idle"
  /\ Goto(Loop, "configs") /\ DropLists(Loop)
  /\ UNCHANGED <<store, first, kills, copy, trigger>>

-----------------------------------------------------------------------------
(* runSourceCheck and finalizeSourceCheck, one goroutine *)

Take(g, id) ==
  /\ pc[Loop] = "checks" /\ id \in rest[Loop] /\ pc[g] = "idle"
  /\ rest' = [rest EXCEPT ![Loop] = @ \ {id}]
  /\ LET r == Read(rows[Loop][kept[Loop][id].key])
         why == ListedTrigger(id) IN
     /\ conf' = [conf EXCEPT ![g] = kept[Loop][id]]
     /\ row' = [row EXCEPT ![g] =
          [r EXCEPT !.run = "running", !.last = "other",
                    !.request = IF why = "manual" THEN "none" ELSE @]]
     /\ trigger' = [trigger EXCEPT ![g] = why]
  /\ Goto(g, "start")
  /\ UNCHANGED <<store, first, kills, kept, rows, seen, cid>>

Start(g) ==
  /\ pc[g] = "start"
  /\ Goto(g, "fetch")
  /\ \/ WriteRow(conf[g].key, row[g])
     \/ StoreMayFail /\ UNCHANGED health
  /\ UNCHANGED <<configs, paused, first, kills, lists, copy, trigger>>

\* Mutant: a check that fails leaves the source running.
FinishedIfFetched(r, ok, date) ==
  [r EXCEPT !.run = IF ok THEN "idle" ELSE @,
            !.last = IF ok THEN "success" ELSE "failed",
            !.failures = IF ok THEN 0 ELSE 1,
            !.next = date]

\* Mutant: the failures before the last success are kept.
FinishedKeepsCount(r, ok, date) ==
  [r EXCEPT !.run = "idle",
            !.last = IF ok THEN "success" ELSE "failed",
            !.failures = IF ok THEN @ ELSE 1,
            !.next = date]

\* The row after a check that found its source or did not.
Finished(r, ok, date) ==
  [r EXCEPT !.run = "idle",
            !.last = IF ok THEN "success" ELSE "failed",
            !.failures = IF ok THEN 0 ELSE 1,
            !.next = date]

\* The adapter answers or fails.  A check on request keeps a date that is still to
\* come; one listed as "later" may have come when the check began.
Fetch(g) ==
  /\ pc[g] = "fetch"
  /\ Goto(g, "latest")
  /\ \E ok \in BOOLEAN,
        date \in {FirstDate(conf[g].mode, seen[Loop])}
                   \cup (IF trigger[g] = "manual" /\ row[g].next = "later"
                         THEN {"later"} ELSE {}) :
       row' = [row EXCEPT ![g] = Finished(@, ok, date)]
  /\ UNCHANGED <<store, first, kills, lists, cid, conf, trigger>>

\* Of the stored row only a request made meanwhile is taken over.
ReadLatest(g) ==
  /\ pc[g] = "latest"
  /\ Goto(g, "finish")
  /\ \/ row' = [row EXCEPT ![g].request =
                  IF health[conf[g].key].request = "pending" THEN "pending" ELSE @]
     \/ StoreMayFail /\ UNCHANGED row
  /\ UNCHANGED <<store, first, kills, lists, cid, conf, trigger>>

EndCheck(g) ==
  /\ Goto(g, "idle") /\ DropCopy(g)
  /\ trigger' = [trigger EXCEPT ![g] = "none"]

\* The error of the write is only logged.
Finish(g) ==
  /\ pc[g] = "finish"
  /\ \/ WriteRow(conf[g].key, row[g])
     \/ StoreMayFail /\ UNCHANGED health
  /\ EndCheck(g)
  /\ UNCHANGED <<configs, paused, first, kills, lists>>

-----------------------------------------------------------------------------
(* The start of the app: ensureSourceConfigs, ensureSourceHealthState, syncSources *)

SeedList ==
  /\ pc[Startup] = "seed_list"
  /\ Goto(Startup, "seed") /\ kept' = [kept EXCEPT ![Startup] = configs]
  /\ UNCHANGED <<store, first, kills, rows, seen, rest, copy, trigger>>

Has(list, k) == \E id \in ConfigId : list[id].key = k
Free(id) == configs[id] = NoConfig /\ \A p \in Process : cid[p] # id

\* Mutant: a default key is seeded again when it is there.
UnseededAlways(k) == k \in Default

\* The defaults the database has not got.
Unseeded(k) == k \in Default /\ ~Has(kept[Startup], k)

SeedConfig(k) ==
  /\ pc[Startup] = "seed" /\ Unseeded(k)
  /\ \E id \in ConfigId :
       LET c == [key |-> k, mode |-> "auto"] IN
       /\ Free(id)
       /\ configs' = [configs EXCEPT ![id] = c]
       /\ kept' = [kept EXCEPT ![Startup][id] = c]
       /\ conf' = [conf EXCEPT ![Startup] = c]
  /\ Goto(Startup, "seed_health")
  /\ UNCHANGED <<paused, health, first, kills, rows, seen, rest, cid, row, trigger>>

SeedHealth ==
  /\ pc[Startup] = "seed_health"
  /\ WriteRow(conf[Startup].key, NewRow)
  /\ DropCopy(Startup) /\ Goto(Startup, "seed")
  /\ UNCHANGED <<configs, paused, first, kills, lists, trigger>>

EndSeed ==
  /\ pc[Startup] = "seed" /\ \A k \in Default : Has(kept[Startup], k)
  /\ Goto(Startup, "ensure_list") /\ kept' = [kept EXCEPT ![Startup] = NoConfigs]
  /\ UNCHANGED <<store, first, kills, rows, seen, rest, copy, trigger>>

EnsureList ==
  /\ pc[Startup] = "ensure_list"
  /\ Goto(Startup, "ensure_health") /\ kept' = [kept EXCEPT ![Startup] = configs]
  /\ UNCHANGED <<store, first, kills, rows, seen, rest, copy, trigger>>

\* Mutant: the listed row is kept as it is.
EnsuredRunning(r, c, stopped) ==
  [r EXCEPT !.run = IF r.run = "absent" THEN "idle" ELSE @,
            !.last = IF @ = "none" THEN "other" ELSE @,
            !.next = IF @ = "zero" THEN FirstDate(c.mode, stopped) ELSE @]

\* Every listed row is set idle, though its check may be running, and gets a date.
Ensured(r, c, stopped) ==
  [r EXCEPT !.run = "idle",
            !.last = IF @ = "none" THEN "other" ELSE @,
            !.next = IF @ = "zero" THEN FirstDate(c.mode, stopped) ELSE @]

EnsureHealth ==
  /\ pc[Startup] = "ensure_health"
  /\ Goto(Startup, "ensure")
  /\ rows' = [rows EXCEPT ![Startup] = health]
  /\ \E s \in SettingsRead : seen' = [seen EXCEPT ![Startup] = s]
  /\ rest' = [rest EXCEPT ![Startup] = Listed(kept[Startup])]
  /\ UNCHANGED <<store, first, kills, kept, copy, trigger>>

EnsureRow(id) ==
  /\ pc[Startup] = "ensure" /\ id \in rest[Startup]
  /\ LET c == kept[Startup][id] IN
     WriteRow(c.key, Ensured(rows[Startup][c.key], c, seen[Startup]))
  /\ rest' = [rest EXCEPT ![Startup] = @ \ {id}]
  /\ UNCHANGED <<configs, paused, first, kills, pc, kept, rows, seen, copy, trigger>>

\* The first start goes on to syncSources if it is configured to.
EndEnsure ==
  /\ pc[Startup] = "ensure" /\ rest[Startup] = {}
  /\ first' = FALSE
  /\ IF first /\ SyncOnStartup
     THEN /\ Goto(Startup, "sync")
          /\ rest' = [rest EXCEPT ![Startup] =
               {id \in Listed(configs) : configs[id].mode # "disabled"}]
          /\ UNCHANGED <<kept, rows, seen>>
     ELSE Goto(Startup, "serving") /\ DropLists(Startup)
  /\ UNCHANGED <<store, kills, copy, trigger>>

\* syncSources, one adapter.  Whether the fetch failed is kept in err, which by
\* the time it is asked is that of GetSourceHealth: the row is there.  Nothing
\* else runs before the first start is over, so this is one step.
SyncSource(id) ==
  /\ pc[Startup] = "sync" /\ id \in rest[Startup]
  /\ rest' = [rest EXCEPT ![Startup] = @ \ {id}]
  /\ LET k == configs[id].key
         found == health[k].run # "absent" IN
     \E ok \in BOOLEAN :
       WriteRow(k, [Read(health[k]) EXCEPT
         !.last = IF ok THEN "success" ELSE "failed",
         !.failures = IF found THEN 0 ELSE 1,
         !.next = FirstDate(configs[id].mode, paused)])
  /\ UNCHANGED <<configs, paused, first, kills, pc, kept, rows, seen, copy, trigger>>

Serve ==
  /\ pc[Startup] = "sync" /\ rest[Startup] = {}
  /\ Goto(Startup, "serving") /\ DropLists(Startup)
  /\ UNCHANGED <<store, first, kills, copy, trigger>>

\* An error ends the app, and it is started again.
StartupFails ==
  /\ StoreMayFail /\ pc[Startup] \notin {"seed_list", "serving"}
  /\ Goto(Startup, "seed_list") /\ DropLists(Startup) /\ DropCopy(Startup)
  /\ first' = FALSE
  /\ UNCHANGED <<store, kills, trigger>>

-----------------------------------------------------------------------------
(* The administrators *)

Serving(h) == pc[h] = "idle" /\ pc[Startup] = "serving"

\* "source key already exists"; an error of the listing is ignored.
KeyIsFree(k) == ~Has(configs, k) \/ StoreMayFail

\* AdminCreateSource
CreateSource(h, k) ==
  /\ Serving(h) /\ KeyIsFree(k)
  /\ conf' = [conf EXCEPT ![h] = [key |-> k, mode |-> "auto"]]
  /\ Goto(h, "create")
  /\ UNCHANGED <<store, first, kills, lists, cid, row, trigger>>

CreateConfig(h) ==
  /\ pc[h] = "create"
  /\ \E id \in ConfigId :
       /\ Free(id)
       /\ configs' = [configs EXCEPT ![id] = conf[h]]
  /\ Goto(h, "create_health")
  /\ UNCHANGED <<paused, health, first, kills, lists, copy, trigger>>

CreateHealth(h) ==
  /\ pc[h] = "create_health"
  /\ \E s \in SettingsRead :
       WriteRow(conf[h].key, [NewRow EXCEPT !.next = FirstDate(conf[h].mode, s)])
  /\ DropCopy(h) /\ Goto(h, "idle")
  /\ UNCHANGED <<configs, paused, first, kills, lists, trigger>>

\* AdminUpdateSource reads the configuration and writes it with another mode ...
UpdateSource(h, id) ==
  /\ Serving(h) /\ configs[id].key # None
  /\ \E m \in Mode : conf' = [conf EXCEPT ![h] = [configs[id] EXCEPT !.mode = m]]
  /\ cid' = [cid EXCEPT ![h] = id]
  /\ Goto(h, "update")
  /\ UNCHANGED <<store, first, kills, lists, row, trigger>>

UpdateConfig(h) ==
  /\ pc[h] = "update"
  /\ configs' = [configs EXCEPT ![cid[h]] = conf[h]]
  /\ Goto(h, "update_read")
  /\ UNCHANGED <<paused, health, first, kills, lists, copy, trigger>>

\* ... and then reads the health row and writes it with another date.  A row that
\* is missing or cannot be read has no key: it is written where nobody reads it.
UpdateRead(h) ==
  /\ pc[h] = "update_read"
  /\ LET r == health[conf[h].key] IN
     \/ /\ r.run = "absent" \/ StoreMayFail
        /\ Goto(h, "idle") /\ DropCopy(h)
     \/ /\ r.run # "absent"
        /\ Goto(h, "update_write")
        /\ \E s \in SettingsRead :
             row' = [row EXCEPT ![h] = [r EXCEPT !.next = FirstDate(conf[h].mode, s)]]
        /\ UNCHANGED <<cid, conf>>
  /\ UNCHANGED <<store, first, kills, lists, trigger>>

\* AdminDeleteSource
DeleteConfig(h, id) ==
  /\ Serving(h) /\ configs[id].key # None
  /\ configs' = [configs EXCEPT ![id] = NoConfig]
  /\ conf' = [conf EXCEPT ![h] = configs[id]]
  /\ Goto(h, "delete_health")
  /\ UNCHANGED <<paused, health, first, kills, lists, cid, row, trigger>>

DeleteHealth(h) ==
  /\ pc[h] = "delete_health"
  /\ WriteRow(conf[h].key, NoRow)
  /\ DropCopy(h) /\ Goto(h, "idle")
  /\ UNCHANGED <<configs, paused, first, kills, lists, trigger>>

\* AdminUpdateSourceSchedule writes the settings, and recalculateSourceSchedules
\* the date of every source.
UpdateSchedule(h) ==
  /\ Serving(h)
  /\ paused' \in BOOLEAN
  /\ Goto(h, "recalculate_list")
  /\ UNCHANGED <<configs, health, first, kills, lists, copy, trigger>>

RecalculateList(h) ==
  /\ pc[h] = "recalculate_list"
  /\ kept' = [kept EXCEPT ![h] = configs]
  /\ \E s \in SettingsRead : seen' = [seen EXCEPT ![h] = s]
  /\ rest' = [rest EXCEPT ![h] = Listed(configs)]
  /\ Goto(h, "recalculate")
  /\ UNCHANGED <<store, first, kills, rows, copy, trigger>>

\* queueSourceChecks for one source, several or all of them.
RequestChecks(h, K) ==
  /\ Serving(h)
  /\ kept' = [kept EXCEPT ![h] = configs]
  /\ \E s \in SettingsRead : seen' = [seen EXCEPT ![h] = s]
  /\ rest' = [rest EXCEPT ![h] =
       {id \in Listed(configs) : configs[id].key \in K /\ configs[id].mode # "disabled"}]
  /\ Goto(h, "request")
  /\ UNCHANGED <<store, first, kills, rows, copy, trigger>>

Recalculated(r, c, stopped) == [r EXCEPT !.next = FirstDate(c.mode, stopped)]

Requested(r, c, stopped) ==
  [r EXCEPT !.request = "pending",
            !.last = IF r.run = "running" THEN @ ELSE "other",
            !.next = IF @ = "zero" THEN FirstDate(c.mode, stopped) ELSE @]

\* Both loops read a row and write it, one source after the other.
ReadNext(h, id) ==
  /\ pc[h] \in {"recalculate", "request"} /\ id \in rest[h]
  /\ rest' = [rest EXCEPT ![h] = @ \ {id}]
  /\ LET c == kept[h][id] IN
     /\ conf' = [conf EXCEPT ![h] = c]
     /\ \E r \in RowsRead(c.key) :
          row' = [row EXCEPT ![h] = IF pc[h] = "request"
                                    THEN Requested(r, c, seen[h])
                                    ELSE Recalculated(r, c, seen[h])]
  /\ Goto(h, IF pc[h] = "request" THEN "request_write" ELSE "recalculate_write")
  /\ UNCHANGED <<store, first, kills, kept, rows, seen, cid, trigger>>

WriteNext(h) ==
  /\ pc[h] \in {"update_write", "recalculate_write", "request_write"}
  /\ WriteRow(conf[h].key, row[h])
  /\ DropCopy(h)
  /\ Goto(h, CASE pc[h] = "update_write" -> "idle"
              [] pc[h] = "recalculate_write" -> "recalculate"
              [] pc[h] = "request_write" -> "request")
  /\ UNCHANGED <<configs, paused, first, kills, lists, trigger>>

Answer(h) ==
  /\ pc[h] \in {"recalculate", "request"} /\ rest[h] = {}
  /\ Goto(h, "idle") /\ DropLists(h)
  /\ UNCHANGED <<store, first, kills, copy, trigger>>

\* An error of the store ends the request.
HandlerFails(h) ==
  /\ StoreMayFail /\ pc[h] # "idle"
  /\ Goto(h, "idle") /\ DropLists(h) /\ DropCopy(h)
  /\ UNCHANGED <<store, first, kills, trigger>>

-----------------------------------------------------------------------------
(* Time, kills, and the specification *)

DateComes(k) ==
  /\ health[k].next = "later"
  /\ health' = [health EXCEPT ![k].next = "due"]
  /\ UNCHANGED <<configs, paused, first, kills, pc, lists, copy, trigger>>

\* The processes of S are killed; their main goroutine begins again at label.
Restart(S, main, label) ==
  /\ kills < MaxKills /\ kills' = kills + 1
  /\ pc' = [p \in Process |-> IF p = main THEN label
                              ELSE IF p \in S THEN "idle" ELSE pc[p]]
  /\ kept' = [p \in Process |-> IF p \in S THEN NoConfigs ELSE kept[p]]
  /\ rows' = [p \in Process |-> IF p \in S THEN NoRows ELSE rows[p]]
  /\ seen' = [p \in Process |-> p \notin S /\ seen[p]]
  /\ rest' = [p \in Process |-> IF p \in S THEN {} ELSE rest[p]]
  /\ cid' = [p \in Process |-> IF p \in S THEN None ELSE cid[p]]
  /\ conf' = [p \in Process |-> IF p \in S THEN NoConfig ELSE conf[p]]
  /\ row' = [p \in Process |-> IF p \in S THEN NoRow ELSE row[p]]

RestartWorker ==
  /\ pc[Loop] # "waiting"
  /\ Restart(Goroutine \cup {Loop}, Loop, "reset_list")
  /\ trigger' = [g \in Goroutine |-> "none"]
  /\ UNCHANGED <<store, first>>

RestartApp ==
  /\ Restart(Handler \cup {Startup}, Startup, "seed_list")
  /\ first' = FALSE
  /\ UNCHANGED <<store, trigger>>

LoopStep ==
  \/ StartWorker \/ ListRunning \/ (\E k \in Key : Reset(k)) \/ EndReset
  \/ ListConfigs \/ LoadSettings \/ ListHealth
  \/ (\E id \in ConfigId : Skip(id)) \/ BeginChecks \/ EndPass

GoroutineStep(g) ==
  \/ \E id \in ConfigId : Take(g, id)
  \/ Start(g) \/ Fetch(g) \/ ReadLatest(g) \/ Finish(g)

StartupStep ==
  \/ SeedList \/ (\E k \in Key : SeedConfig(k)) \/ SeedHealth \/ EndSeed
  \/ EnsureList \/ EnsureHealth \/ (\E id \in ConfigId : EnsureRow(id)) \/ EndEnsure
  \/ (\E id \in ConfigId : SyncSource(id)) \/ Serve
  \/ StartupFails

\* A request goes on until it is answered ...
HandlerGoesOn(h) ==
  \/ CreateConfig(h) \/ CreateHealth(h) \/ DeleteHealth(h)
  \/ UpdateConfig(h) \/ UpdateRead(h) \/ RecalculateList(h)
  \/ (\E id \in ConfigId : ReadNext(h, id)) \/ WriteNext(h) \/ Answer(h)
  \/ HandlerFails(h)

\* ... but nobody has to make one.
HandlerStep(h) ==
  \/ \E k \in Key : CreateSource(h, k)
  \/ \E id \in ConfigId : UpdateSource(h, id) \/ DeleteConfig(h, id)
  \/ UpdateSchedule(h)
  \/ \E K \in SUBSET Key : RequestChecks(h, K)
  \/ HandlerGoesOn(h)

Next ==
  \/ LoopStep \/ StartupStep
  \/ \E g \in Goroutine : GoroutineStep(g)
  \/ \E h \in Handler : HandlerStep(h)
  \/ \E k \in Key : DateComes(k)
  \/ RestartWorker \/ RestartApp

Spec == Init /\ [][Next]_vars

\* The processes are scheduled and their calls return (every adapter has a client
\* with a timeout of 30 seconds); time goes on.
Fairness ==
  /\ WF_vars(LoopStep) /\ WF_vars(StartupStep)
  /\ \A g \in Goroutine : WF_vars(GoroutineStep(g))
  /\ \A h \in Handler : WF_vars(HandlerGoesOn(h))
  /\ \A k \in Key : WF_vars(DateComes(k))

FairSpec == Spec /\ Fairness

-----------------------------------------------------------------------------
(* Properties *)

Label ==
  {"waiting", "reset_list", "reset", "configs", "settings", "health", "skip", "checks",
   "idle", "start", "fetch", "latest", "finish",
   "seed_list", "seed", "seed_health", "ensure_list", "ensure_health", "ensure", "sync", "serving",
   "create", "create_health", "update", "update_read", "update_write", "delete_health",
   "recalculate_list", "recalculate", "recalculate_write", "request", "request_write"}

\* Every variable has its type, and a health row that is not there has no fields.
TypeOK ==
  /\ configs \in [ConfigId -> Config] /\ paused \in BOOLEAN
  /\ health \in [Key -> HealthRow]
  /\ \A k \in Key : health[k].run = "absent" => health[k] = NoRow
  /\ first \in BOOLEAN /\ kills \in 0..MaxKills
  /\ pc \in [Process -> Label]
  /\ kept \in [Process -> [ConfigId -> Config]]
  /\ rows \in [Process -> [Key -> HealthRow]]
  /\ seen \in [Process -> BOOLEAN] /\ rest \in [Process -> SUBSET ConfigId]
  /\ cid \in [Process -> ConfigId \cup {None}]
  /\ conf \in [Process -> Config] /\ row \in [Process -> HealthRow]
  /\ trigger \in [Goroutine -> {"none", "manual", "scheduled"}]

Checking(g, k) == pc[g] \in {"start", "fetch", "latest", "finish"} /\ conf[g].key = k

\* As long as administrators leave the rows alone and the store answers, a source
\* is marked running only while a goroutine checks it, or until the worker that
\* has just started has reset it: kills of both processes, at any time and also of
\* the app during a check, never leave the mark behind.  A marked source is not
\* checked (dueSourceTrigger), so a mark left behind would end its checks.
RunningIsOwned ==
  \A k \in Key : health[k].run = "running" =>
    \/ \E g \in Goroutine : Checking(g, k)
    \/ pc[Loop] = "reset_list"
    \/ pc[Loop] = "reset" /\ k \in LeftRunning

\* Two goroutines never check the same source: restarts of the app, which seeds
\* missing configurations, give no source a second one.  (Two administrators who
\* create one key at the same time do: AdminCreateSource looks the key up and
\* inserts under a new identifier, and the table has no unique key.)
OneCheckPerSource ==
  \A g1, g2 \in Goroutine, k \in Key :
    Checking(g1, k) /\ Checking(g2, k) => g1 = g2

\* The status of a row and its count of failures never contradict each other,
\* whichever stale copy was written last: failed means at least one failure in a
\* row, and success none.
StatusFitsFailures ==
  \A k \in Key :
    /\ health[k].last = "failed" => health[k].failures > 0
    /\ health[k].last = "success" => health[k].failures = 0

\* A source that is checked automatically is checked again and again, also when
\* its checks fail and after kills.
ChecksGoOn ==
  \A k \in Default : []<>(\E g \in Goroutine : pc[g] = "start" /\ conf[g].key = k)

-----------------------------------------------------------------------------
(* What tests and messages say, and interleavings break *)

\* ProductionDeployment/README.md:94, "The worker handles scheduled source checks,
\* manual source checks": a request for a source that is there is served or taken
\* back.
RequestsAreServed ==
  \A k \in Key :
    (health[k].request = "pending")
    ~> (health[k].request = "none" \/ ~Has(configs, k))

=============================================================================

-------------------------- MODULE SourceCheckProofs --------------------------
(***************************************************************************)
(* The invariants of SourceCheck, for any sources, processes and number of *)
(* kills.  RowsInv says what a process holds before each of its calls; the *)
(* three properties of the runs each need a little more, and an assumption *)
(* about who else writes health rows, without which the code breaks them.  *)
(***************************************************************************)
EXTENDS SourceCheck, TLAPS

\* Before each of these calls a process holds a row that is there, of a source.
Writes == {"start", "fetch", "latest", "finish", "update_write", "recalculate_write",
           "request_write"}
Locals ==
  \A p \in Process :
    /\ pc[p] \in Writes => row[p].run # "absent"
    /\ pc[p] \in Writes \cup {"update", "update_read"} => conf[p].key \in Key
    /\ pc[p] \in {"checks", "ensure", "recalculate", "request", "recalculate_write",
                  "request_write"} => rest[p] \subseteq Listed(kept[p])

\* What the loop takes back was asked for, and what the first start checks is there.
Lists ==
  /\ pc[Loop] = "skip" => \A id \in rest[Loop] :
       kept[Loop][id].key \in Key /\ rows[Loop][kept[Loop][id].key].run # "absent"
  /\ pc[Startup] = "sync" => rest[Startup] \subseteq Listed(configs)

\* Goroutines work while the pass waits for them, handlers while the app serves.
Phases ==
  /\ pc[Loop] # "checks" => \A g \in Goroutine : pc[g] = "idle"
  /\ pc[Startup] # "serving" => \A h \in Handler : pc[h] = "idle"

RowsInv == TypeOK /\ Locals /\ Lists /\ Phases


-----------------------------------------------------------------------------
(* Rows and their changes *)

USE DEF Goto, WriteRow, DropCopy, DropLists, store, lists, copy

LEMMA RowTypes ==
  /\ NoRow \in HealthRow /\ NewRow \in HealthRow /\ NewRow.run = "idle" /\ NoRow.run = "absent"
<1>1. NoRow \in HealthRow /\ NoRow.run = "absent"
  BY DEF HealthRow, NoRow
<1>2. NewRow = [[NoRow EXCEPT !.run = "idle"] EXCEPT !.last = "other"]
  BY DEF NewRow
<1>3. /\ [NoRow EXCEPT !.run = "idle"] \in HealthRow
      /\ [NoRow EXCEPT !.run = "idle"].run = "idle"
  BY <1>1 DEF HealthRow
<1>4. QED
  BY <1>1, <1>2, <1>3 DEF HealthRow

LEMMA EmptyTypes ==
  /\ NoConfig \in Config /\ NoConfigs \in [ConfigId -> Config]
  /\ NoRows \in [Key -> HealthRow] /\ {} \in SUBSET ConfigId
BY RowTypes DEF NoConfig, NoConfigs, Config, NoRows, Mode

LEMMA Processes ==
  /\ Loop \in Process /\ Startup \in Process
  /\ Goroutine \subseteq Process /\ Handler \subseteq Process
BY DEF Process

LEMMA ReadTypes ==
  ASSUME NEW r \in HealthRow
  PROVE  Read(r) \in HealthRow /\ Read(r).run # "absent"
BY DEF HealthRow, Read

LEMMA DateTypes == ASSUME NEW m, NEW s PROVE FirstDate(m, s) \in {"zero", "later"}
BY DEF FirstDate

LEMMA RunTypes == ASSUME NEW r \in HealthRow, NEW v \in {"absent", "idle", "running"}
  PROVE [r EXCEPT !.run = v] \in HealthRow /\ [r EXCEPT !.run = v].run = v
BY DEF HealthRow

LEMMA RequestTypes == ASSUME NEW r \in HealthRow, NEW v \in {"none", "pending"}
  PROVE [r EXCEPT !.request = v] \in HealthRow /\ [r EXCEPT !.request = v].run = r.run
BY DEF HealthRow

LEMMA NextTypes == ASSUME NEW r \in HealthRow, NEW v \in {"zero", "later", "due"}
  PROVE [r EXCEPT !.next = v] \in HealthRow /\ [r EXCEPT !.next = v].run = r.run
BY DEF HealthRow

LEMMA FinishedTypes == ASSUME NEW r \in HealthRow, NEW ok \in BOOLEAN, NEW d \in {"zero", "later", "due"}
  PROVE Finished(r, ok, d) \in HealthRow /\ Finished(r, ok, d).run = "idle"
<1> DEFINE last == IF ok THEN "success" ELSE "failed"
           count == IF ok THEN 0 ELSE 1
<1>1. last \in {"success", "failed"} /\ count \in 0..1
  OBVIOUS
<1>2. Finished(r, ok, d) = [r EXCEPT !.run = "idle", !.last = last, !.failures = count, !.next = d]
  BY DEF Finished
<1> HIDE DEF last, count
<1>3. QED
  BY <1>1, <1>2 DEF HealthRow

LEMMA EnsuredTypes == ASSUME NEW r \in HealthRow, NEW c, NEW s
  PROVE Ensured(r, c, s) \in HealthRow /\ Ensured(r, c, s).run = "idle"
BY DateTypes DEF HealthRow, Ensured

LEMMA RequestedTypes == ASSUME NEW r \in HealthRow, NEW c, NEW s
  PROVE Requested(r, c, s) \in HealthRow /\ Requested(r, c, s).run = r.run
BY DateTypes DEF HealthRow, Requested

LEMMA RecalculatedTypes == ASSUME NEW r \in HealthRow, NEW c, NEW s
  PROVE Recalculated(r, c, s) \in HealthRow /\ Recalculated(r, c, s).run = r.run
BY DateTypes DEF HealthRow, Recalculated

LEMMA SettingsTypes == ASSUME TypeOK, NEW s \in SettingsRead PROVE s \in BOOLEAN
BY DEF TypeOK, SettingsRead

LEMMA RowsReadTypes == ASSUME TypeOK, NEW k \in Key, NEW r \in RowsRead(k)
  PROVE r \in HealthRow /\ r.run # "absent"
<1>1. health[k] \in HealthRow
  BY DEF TypeOK
<1>2. QED
  BY <1>1, ReadTypes, RowTypes DEF RowsRead

LEMMA SkippedTypes == ASSUME NEW r \in HealthRow
  PROVE LET s == [r EXCEPT !.request = "none", !.last = "other"]
        IN s \in HealthRow /\ s.run = r.run
BY DEF HealthRow

LEMMA TakenTypes == ASSUME NEW r \in HealthRow, NEW v \in {"none", "pending"}
  PROVE LET s == [r EXCEPT !.run = "running", !.last = "other", !.request = v]
        IN s \in HealthRow /\ s.run = "running" /\ s.last = "other"
BY DEF HealthRow

LEMMA SyncedTypes == ASSUME NEW r \in HealthRow, NEW l \in {"success", "failed"}, NEW n \in 0..1,
                            NEW v \in {"zero", "later"}
  PROVE LET s == [r EXCEPT !.last = l, !.failures = n, !.next = v]
        IN s \in HealthRow /\ s.run = r.run
BY DEF HealthRow

\* A row that is there is written.
LEMMA WriteTypes == ASSUME TypeOK, NEW k, NEW r \in HealthRow, r.run # "absent", WriteRow(k, r)
  PROVE /\ health' \in [Key -> HealthRow]
        /\ \A q \in Key : health'[q].run = "absent" => health'[q] = NoRow
BY DEF TypeOK

-----------------------------------------------------------------------------
(* Every action keeps RowsInv *)

LEMMA StartWorkerKeeps == ASSUME RowsInv, StartWorker PROVE RowsInv'
<1>1. TypeOK'
  BY Processes, RowTypes, EmptyTypes DEF RowsInv, TypeOK, Label, Locals, Writes, StartWorker
<1>2. Locals'
  BY SourceAssumption, RowTypes DEF RowsInv, TypeOK, Locals, Writes, Process, Listed,
     Config, NoConfig, StartWorker
<1>3. Lists'
  BY SourceAssumption DEF RowsInv, TypeOK, Lists, Phases, Process, Listed, Config, NoConfig,
     StartWorker
<1>4. Phases'
  BY SourceAssumption DEF RowsInv, TypeOK, Phases, Process, StartWorker
<1>5. QED
  BY <1>1, <1>2, <1>3, <1>4 DEF RowsInv

LEMMA ListRunningKeeps == ASSUME RowsInv, ListRunning PROVE RowsInv'
<1>1. TypeOK'
  <2>1. pc' \in [Process -> Label]
    BY Processes, ZenonT(30) DEF RowsInv, TypeOK, Label, ListRunning
  <2>2. rows' \in [Process -> [Key -> HealthRow]]
    BY Processes DEF RowsInv, TypeOK, ListRunning
  <2>3. QED
    BY <2>1, <2>2 DEF RowsInv, TypeOK, ListRunning
<1>2. Locals'
  BY SourceAssumption, RowTypes DEF RowsInv, TypeOK, Locals, Writes, Process, Listed,
     Config, NoConfig, ListRunning
<1>3. Lists'
  BY SourceAssumption DEF RowsInv, TypeOK, Lists, Phases, Process, Listed, Config, NoConfig,
     ListRunning
<1>4. Phases'
  BY SourceAssumption DEF RowsInv, TypeOK, Phases, Process, ListRunning
<1>5. QED
  BY <1>1, <1>2, <1>3, <1>4 DEF RowsInv

LEMMA ResetKeeps == ASSUME RowsInv, NEW k \in Key, Reset(k) PROVE RowsInv'
<1>1. TypeOK'
  <2>1. pc' \in [Process -> Label]
    BY Processes, ZenonT(30) DEF RowsInv, TypeOK, Label, Reset
  <2>2. rows[Loop][k] \in HealthRow
    BY Processes DEF RowsInv, TypeOK
  <2>3. /\ [rows[Loop][k] EXCEPT !.run = "idle"] \in HealthRow
        /\ [rows[Loop][k] EXCEPT !.run = "idle"].run = "idle"
    BY <2>2, RunTypes DEF Reset
  <2>4. /\ health' \in [Key -> HealthRow]
        /\ (\A q \in Key : health'[q].run = "absent" => health'[q] = NoRow)
    BY <2>3, WriteTypes DEF RowsInv, TypeOK, Reset
  <2>5. rows' \in [Process -> [Key -> HealthRow]]
    <3>1. CASE rows' = [rows EXCEPT ![Loop][k].run = "idle"]
      <4>1. rows' = [rows EXCEPT ![Loop] = [rows[Loop] EXCEPT ![k] = [rows[Loop][k] EXCEPT !.run = "idle"]]]
        BY <3>1
      <4>2. rows[Loop] \in [Key -> HealthRow]
        BY Processes DEF RowsInv, TypeOK
      <4>3. [rows[Loop] EXCEPT ![k] = [rows[Loop][k] EXCEPT !.run = "idle"]] \in [Key -> HealthRow]
        BY <4>2, <2>3
      <4>4. QED
        BY <4>1, <4>3 DEF RowsInv, TypeOK
    <3>2. CASE rows' = [rows EXCEPT ![Loop] = NoRows]
      BY <3>2, EmptyTypes DEF RowsInv, TypeOK
    <3>3. QED
      BY <3>1, <3>2 DEF Reset
  <2>6. QED
    BY <2>1, <2>2, <2>3, <2>4, <2>5 DEF RowsInv, TypeOK, Reset
<1>2. Locals'
  BY SourceAssumption, RowTypes DEF RowsInv, TypeOK, Locals, Writes, Process, Listed,
     Config, NoConfig, Reset
<1>3. Lists'
  BY SourceAssumption DEF RowsInv, TypeOK, Lists, Phases, Process, Listed, Config, NoConfig,
     Reset
<1>4. Phases'
  BY SourceAssumption DEF RowsInv, TypeOK, Phases, Process, Reset
<1>5. QED
  BY <1>1, <1>2, <1>3, <1>4 DEF RowsInv

LEMMA EndResetKeeps == ASSUME RowsInv, EndReset PROVE RowsInv'
<1>1. TypeOK'
  BY Processes, RowTypes, EmptyTypes DEF RowsInv, TypeOK, Label, Locals, Writes, EndReset
<1>2. Locals'
  BY SourceAssumption, RowTypes DEF RowsInv, TypeOK, Locals, Writes, Process, Listed,
     Config, NoConfig, EndReset
<1>3. Lists'
  BY SourceAssumption DEF RowsInv, TypeOK, Lists, Phases, Process, Listed, Config, NoConfig,
     EndReset
<1>4. Phases'
  BY SourceAssumption DEF RowsInv, TypeOK, Phases, Process, EndReset
<1>5. QED
  BY <1>1, <1>2, <1>3, <1>4 DEF RowsInv

LEMMA ListConfigsKeeps == ASSUME RowsInv, ListConfigs PROVE RowsInv'
<1>1. TypeOK'
  BY Processes, RowTypes, EmptyTypes DEF RowsInv, TypeOK, Label, Locals, Writes, ListConfigs
<1>2. Locals'
  BY SourceAssumption, RowTypes DEF RowsInv, TypeOK, Locals, Writes, Process, Listed,
     Config, NoConfig, ListConfigs
<1>3. Lists'
  BY SourceAssumption DEF RowsInv, TypeOK, Lists, Phases, Process, Listed, Config, NoConfig,
     ListConfigs
<1>4. Phases'
  BY SourceAssumption DEF RowsInv, TypeOK, Phases, Process, ListConfigs
<1>5. QED
  BY <1>1, <1>2, <1>3, <1>4 DEF RowsInv

LEMMA LoadSettingsKeeps == ASSUME RowsInv, LoadSettings PROVE RowsInv'
<1>1. TypeOK'
  BY Processes, SettingsTypes DEF RowsInv, TypeOK, Label, LoadSettings
<1>2. Locals'
  BY SourceAssumption, RowTypes DEF RowsInv, TypeOK, Locals, Writes, Process, Listed,
     Config, NoConfig, LoadSettings
<1>3. Lists'
  BY SourceAssumption DEF RowsInv, TypeOK, Lists, Phases, Process, Listed, Config, NoConfig,
     LoadSettings
<1>4. Phases'
  BY SourceAssumption DEF RowsInv, TypeOK, Phases, Process, LoadSettings
<1>5. QED
  BY <1>1, <1>2, <1>3, <1>4 DEF RowsInv

LEMMA ListHealthKeeps == ASSUME RowsInv, ListHealth PROVE RowsInv'
<1>1. TypeOK'
  <2>1. pc' \in [Process -> Label]
    BY Processes, ZenonT(30) DEF RowsInv, TypeOK, Label, ListHealth
  <2>2. rest' \in [Process -> SUBSET ConfigId]
    <3>1. PICK S \in SUBSET ConfigId : rest' = [rest EXCEPT ![Loop] = S]
      BY EmptyTypes DEF ListHealth, Listed
    <3>2. QED
      BY <3>1 DEF RowsInv, TypeOK
  <2>3. rows' \in [Process -> [Key -> HealthRow]]
    BY Processes, EmptyTypes, ZenonT(30) DEF RowsInv, TypeOK, ListHealth
  <2>4. kept' \in [Process -> [ConfigId -> Config]] /\ seen' \in [Process -> BOOLEAN]
    <3>1. CASE UNCHANGED <<kept, seen>>
      BY <3>1 DEF RowsInv, TypeOK
    <3>2. CASE DropLists(Loop)
      BY <3>2, EmptyTypes DEF RowsInv, TypeOK
    <3>3. QED
      BY <3>1, <3>2 DEF ListHealth
  <2>5. QED
    BY <2>1, <2>2, <2>3, <2>4 DEF RowsInv, TypeOK, ListHealth
<1>2. Locals'
  BY SourceAssumption, RowTypes DEF RowsInv, TypeOK, Locals, Writes, Process, Listed,
     Config, NoConfig, ListHealth
<1>3. Lists'
  <2>1. CASE pc'[Loop] = "skip"
    <3>1. rows'[Loop] = health /\ kept' = kept
            /\ rest'[Loop] = {id \in Listed(kept[Loop]) : Unasked(kept[Loop][id], health[kept[Loop][id].key])}
      BY <2>1, Processes DEF RowsInv, TypeOK, ListHealth
    <3>2. ASSUME NEW id \in rest'[Loop]
          PROVE kept'[Loop][id].key \in Key /\ rows'[Loop][kept'[Loop][id].key].run # "absent"
      <4>1. kept[Loop][id].key \in Key /\ health[kept[Loop][id].key].request = "pending"
        BY <3>1, <3>2, Processes DEF RowsInv, TypeOK, Listed, Unasked, Config
      <4>2. QED
        BY <4>1, <3>1 DEF RowsInv, TypeOK, NoRow
    <3>3. QED
      BY <3>2, SourceAssumption, Processes DEF RowsInv, TypeOK, Lists, ListHealth, Listed
  <2>2. QED
    BY <2>1, SourceAssumption, Processes DEF RowsInv, TypeOK, Lists, ListHealth, Listed
<1>4. Phases'
  BY SourceAssumption DEF RowsInv, TypeOK, Phases, Process, ListHealth
<1>5. QED
  BY <1>1, <1>2, <1>3, <1>4 DEF RowsInv

LEMMA SkipKeeps == ASSUME RowsInv, NEW id \in ConfigId, Skip(id) PROVE RowsInv'
<1>1. TypeOK'
  <2>1. /\ kept[Loop][id].key \in Key
        /\ rows[Loop][kept[Loop][id].key].run # "absent"
        /\ rows[Loop][kept[Loop][id].key] \in HealthRow
    BY Processes DEF RowsInv, TypeOK, Lists, Skip
  <2>2. /\ health' \in [Key -> HealthRow]
        /\ (\A q \in Key : health'[q].run = "absent" => health'[q] = NoRow)
    BY <2>1, SkippedTypes, WriteTypes DEF RowsInv, TypeOK, Skip
  <2>3. rest' \in [Process -> SUBSET ConfigId]
    BY Processes DEF RowsInv, TypeOK, Skip
  <2>4. QED
    BY <2>1, <2>2, <2>3 DEF RowsInv, TypeOK, Skip
<1>2. Locals'
  BY SourceAssumption, RowTypes DEF RowsInv, TypeOK, Locals, Writes, Process, Listed,
     Config, NoConfig, Skip
<1>3. Lists'
  BY SourceAssumption DEF RowsInv, TypeOK, Lists, Phases, Process, Listed, Config, NoConfig,
     Skip
<1>4. Phases'
  BY SourceAssumption DEF RowsInv, TypeOK, Phases, Process, Skip
<1>5. QED
  BY <1>1, <1>2, <1>3, <1>4 DEF RowsInv

LEMMA BeginChecksKeeps == ASSUME RowsInv, BeginChecks PROVE RowsInv'
<1>1. TypeOK'
  <2>1. pc' \in [Process -> Label]
    BY Processes DEF RowsInv, TypeOK, Label, BeginChecks
  <2>2. rest' \in [Process -> SUBSET ConfigId]
    BY Processes DEF RowsInv, TypeOK, Listed, BeginChecks
  <2>3. QED
    BY <2>1, <2>2 DEF RowsInv, TypeOK, BeginChecks
<1>2. Locals'
  BY SourceAssumption, RowTypes DEF RowsInv, TypeOK, Locals, Writes, Process, Listed,
     Config, NoConfig, BeginChecks
<1>3. Lists'
  BY SourceAssumption DEF RowsInv, TypeOK, Lists, Phases, Process, Listed, Config, NoConfig,
     BeginChecks
<1>4. Phases'
  BY SourceAssumption DEF RowsInv, TypeOK, Phases, Process, BeginChecks
<1>5. QED
  BY <1>1, <1>2, <1>3, <1>4 DEF RowsInv

LEMMA EndPassKeeps == ASSUME RowsInv, EndPass PROVE RowsInv'
<1>1. TypeOK'
  BY Processes, RowTypes, EmptyTypes DEF RowsInv, TypeOK, Label, Locals, Writes, EndPass
<1>2. Locals'
  BY SourceAssumption, RowTypes DEF RowsInv, TypeOK, Locals, Writes, Process, Listed,
     Config, NoConfig, EndPass
<1>3. Lists'
  BY SourceAssumption DEF RowsInv, TypeOK, Lists, Phases, Process, Listed, Config, NoConfig,
     EndPass
<1>4. Phases'
  BY SourceAssumption DEF RowsInv, TypeOK, Phases, Process, EndPass
<1>5. QED
  BY <1>1, <1>2, <1>3, <1>4 DEF RowsInv

LEMMA TakeKeeps ==
  ASSUME RowsInv, NEW g \in Goroutine, NEW id \in ConfigId, Take(g, id)
  PROVE  RowsInv'
<1>1. TypeOK'
  <2>1. pc' \in [Process -> Label]
    BY Processes DEF RowsInv, TypeOK, Label, Take
  <2>2. /\ kept[Loop][id].key \in Key
        /\ rows[Loop][kept[Loop][id].key] \in HealthRow
        /\ kept[Loop][id] \in Config
    BY Processes DEF RowsInv, TypeOK, Locals, Listed, Config, Take
  <2>3. Read(rows[Loop][kept[Loop][id].key]) \in HealthRow
    BY <2>2, ReadTypes DEF Take
  <2>4. ListedTrigger(id) \in {"none", "manual", "scheduled"}
    BY <2>2 DEF ListedTrigger, DueTrigger, HealthRow, Config
  <2>5. row' \in [Process -> HealthRow]
    BY <2>3, TakenTypes, Processes DEF RowsInv, TypeOK, HealthRow, Take
  <2>6. /\ conf' \in [Process -> Config]
        /\ trigger' \in [Goroutine -> {"none", "manual", "scheduled"}]
    BY <2>2, <2>4, Processes DEF RowsInv, TypeOK, Take
  <2>7. rest' \in [Process -> SUBSET ConfigId]
    BY Processes DEF RowsInv, TypeOK, Take
  <2>8. QED
    BY <2>1, <2>2, <2>3, <2>4, <2>5, <2>6, <2>7 DEF RowsInv, TypeOK, Take
<1>2. Locals'
  BY SourceAssumption, RowTypes DEF RowsInv, TypeOK, Locals, Writes, Process, Listed,
     Config, NoConfig, Take
<1>3. Lists'
  BY SourceAssumption DEF RowsInv, TypeOK, Lists, Phases, Process, Listed, Config, NoConfig,
     Take
<1>4. Phases'
  BY SourceAssumption DEF RowsInv, TypeOK, Phases, Process, Take
<1>5. QED
  BY <1>1, <1>2, <1>3, <1>4 DEF RowsInv

LEMMA StartKeeps == ASSUME RowsInv, NEW g \in Goroutine, Start(g) PROVE RowsInv'
<1>1. TypeOK'
  <2>1. pc' \in [Process -> Label]
    BY Processes DEF RowsInv, TypeOK, Label, Start
  <2>2. row[g] \in HealthRow /\ row[g].run # "absent"
    BY Processes DEF RowsInv, TypeOK, Locals, Writes, Start
  <2>3. /\ health' \in [Key -> HealthRow]
        /\ (\A q \in Key : health'[q].run = "absent" => health'[q] = NoRow)
    BY <2>2, WriteTypes DEF RowsInv, TypeOK, Start
  <2>4. QED
    BY <2>1, <2>2, <2>3 DEF RowsInv, TypeOK, Start
<1>2. Locals'
  BY SourceAssumption, RowTypes DEF RowsInv, TypeOK, Locals, Writes, Process, Listed,
     Config, NoConfig, Start
<1>3. Lists'
  BY SourceAssumption DEF RowsInv, TypeOK, Lists, Phases, Process, Listed, Config, NoConfig,
     Start
<1>4. Phases'
  BY SourceAssumption DEF RowsInv, TypeOK, Phases, Process, Start
<1>5. QED
  BY <1>1, <1>2, <1>3, <1>4 DEF RowsInv

LEMMA FetchKeeps == ASSUME RowsInv, NEW g \in Goroutine, Fetch(g) PROVE RowsInv'
<1>1. TypeOK'
  <2>1. pc' \in [Process -> Label]
    BY Processes DEF RowsInv, TypeOK, Label, Fetch
  <2>2. row' \in [Process -> HealthRow]
    <3>1. PICK ok \in BOOLEAN, date \in {"zero", "later", "due"} :
            row' = [row EXCEPT ![g] = Finished(row[g], ok, date)]
      BY DateTypes DEF Fetch
    <3>2. Finished(row[g], ok, date) \in HealthRow
      BY FinishedTypes, Processes DEF RowsInv, TypeOK
    <3>3. QED
      BY <3>1, <3>2 DEF RowsInv, TypeOK
  <2>3. QED
    BY <2>1, <2>2 DEF RowsInv, TypeOK, Fetch
<1>2. Locals'
  <2>1. PICK ok \in BOOLEAN, date \in {"zero", "later", "due"} :
          row' = [row EXCEPT ![g] = Finished(row[g], ok, date)]
    BY DateTypes DEF Fetch
  <2>2. row'[g].run # "absent"
    BY <2>1, FinishedTypes, Processes DEF RowsInv, TypeOK
  <2>3. QED
    BY <2>1, <2>2, Processes DEF RowsInv, TypeOK, Locals, Writes, Fetch, Listed
<1>3. Lists'
  BY SourceAssumption DEF RowsInv, TypeOK, Lists, Phases, Process, Listed, Config, NoConfig,
     Fetch
<1>4. Phases'
  BY SourceAssumption DEF RowsInv, TypeOK, Phases, Process, Fetch
<1>5. QED
  BY <1>1, <1>2, <1>3, <1>4 DEF RowsInv

LEMMA ReadLatestKeeps == ASSUME RowsInv, NEW g \in Goroutine, ReadLatest(g) PROVE RowsInv'
<1>1. TypeOK'
  <2>1. pc' \in [Process -> Label]
    BY Processes DEF RowsInv, TypeOK, Label, ReadLatest
  <2>2. row' \in [Process -> HealthRow]
    <3>1. row[g] \in HealthRow
      BY Processes DEF RowsInv, TypeOK
    <3>2. PICK v \in {"pending", row[g].request} : row' = [row EXCEPT ![g] = [row[g] EXCEPT !.request = v]] \/ row' = row
      BY DEF ReadLatest
    <3>3. [row[g] EXCEPT !.request = v] \in HealthRow
      BY <3>1, RequestTypes DEF HealthRow
    <3>4. QED
      BY <3>2, <3>3 DEF RowsInv, TypeOK
  <2>3. QED
    BY <2>1, <2>2 DEF RowsInv, TypeOK, ReadLatest
<1>2. Locals'
  <2>1. row'[g].run = row[g].run
    BY Processes, RequestTypes DEF RowsInv, TypeOK, HealthRow, ReadLatest
  <2>2. \A p \in Process \ {g} : row'[p] = row[p]
    BY Processes DEF RowsInv, TypeOK, ReadLatest
  <2>3. QED
    BY <2>1, <2>2, Processes DEF RowsInv, TypeOK, Locals, Writes, ReadLatest, Listed
<1>3. Lists'
  BY SourceAssumption DEF RowsInv, TypeOK, Lists, Phases, Process, Listed, Config, NoConfig,
     ReadLatest
<1>4. Phases'
  BY SourceAssumption DEF RowsInv, TypeOK, Phases, Process, ReadLatest
<1>5. QED
  BY <1>1, <1>2, <1>3, <1>4 DEF RowsInv

LEMMA FinishKeeps == ASSUME RowsInv, NEW g \in Goroutine, Finish(g) PROVE RowsInv'
<1>1. TypeOK'
  <2>1. pc' \in [Process -> Label]
    BY Processes DEF RowsInv, TypeOK, Label, Finish, EndCheck
  <2>2. row[g] \in HealthRow /\ row[g].run # "absent"
    BY Processes DEF RowsInv, TypeOK, Locals, Writes, Finish
  <2>3. /\ health' \in [Key -> HealthRow]
        /\ (\A q \in Key : health'[q].run = "absent" => health'[q] = NoRow)
    BY <2>2, WriteTypes DEF RowsInv, TypeOK, Finish
  <2>4. /\ cid' \in [Process -> ConfigId \cup {None}]
        /\ conf' \in [Process -> Config]
        /\ row' \in [Process -> HealthRow]
    BY Processes, EmptyTypes, RowTypes DEF RowsInv, TypeOK, Finish, EndCheck
  <2>5. trigger' \in [Goroutine -> {"none", "manual", "scheduled"}]
    BY DEF RowsInv, TypeOK, Finish, EndCheck
  <2>6. QED
    BY <2>1, <2>2, <2>3, <2>4, <2>5 DEF RowsInv, TypeOK, Finish, EndCheck
<1>2. Locals'
  BY SourceAssumption DEF RowsInv, TypeOK, Locals, Writes, Process, Listed, Config,
     NoConfig, EndCheck, Finish
<1>3. Lists'
  BY SourceAssumption DEF RowsInv, TypeOK, Lists, Process, EndCheck, Finish
<1>4. Phases'
  BY SourceAssumption DEF RowsInv, TypeOK, Phases, Process, EndCheck, Finish
<1>5. QED
  BY <1>1, <1>2, <1>3, <1>4 DEF RowsInv

LEMMA SeedListKeeps == ASSUME RowsInv, SeedList PROVE RowsInv'
<1>1. TypeOK'
  BY Processes, RowTypes, EmptyTypes DEF RowsInv, TypeOK, Label, Locals, Writes, SeedList
<1>2. Locals'
  BY SourceAssumption, RowTypes DEF RowsInv, TypeOK, Locals, Writes, Process, Listed,
     Config, NoConfig, SeedList
<1>3. Lists'
  BY SourceAssumption DEF RowsInv, TypeOK, Lists, Phases, Process, Listed, Config, NoConfig,
     SeedList
<1>4. Phases'
  BY SourceAssumption DEF RowsInv, TypeOK, Phases, Process, SeedList
<1>5. QED
  BY <1>1, <1>2, <1>3, <1>4 DEF RowsInv

LEMMA SeedConfigKeeps == ASSUME RowsInv, NEW k \in Key, SeedConfig(k) PROVE RowsInv'
<1>1. TypeOK'
  <2>1. pc' \in [Process -> Label]
    BY Processes DEF RowsInv, TypeOK, Label, SeedConfig
  <2>2. [key |-> k, mode |-> "auto"] \in Config
    BY DEF Config, Mode
  <2>3. configs' \in [ConfigId -> Config]
    BY <2>2 DEF RowsInv, TypeOK, SeedConfig
  <2>4. conf' \in [Process -> Config]
    BY <2>2, Processes DEF RowsInv, TypeOK, SeedConfig
  <2>5. kept' \in [Process -> [ConfigId -> Config]]
    BY <2>2, Processes DEF RowsInv, TypeOK, SeedConfig
  <2>6. QED
    BY <2>1, <2>2, <2>3, <2>4, <2>5 DEF RowsInv, TypeOK, SeedConfig
<1>2. Locals'
  BY SourceAssumption, RowTypes DEF RowsInv, TypeOK, Locals, Writes, Process, Listed,
     Config, NoConfig, SeedConfig
<1>3. Lists'
  BY SourceAssumption DEF RowsInv, TypeOK, Lists, Phases, Process, Listed, Config, NoConfig,
     SeedConfig
<1>4. Phases'
  BY SourceAssumption DEF RowsInv, TypeOK, Phases, Process, SeedConfig
<1>5. QED
  BY <1>1, <1>2, <1>3, <1>4 DEF RowsInv

LEMMA SeedHealthKeeps == ASSUME RowsInv, SeedHealth PROVE RowsInv'
<1>1. TypeOK'
  BY Processes, RowTypes, EmptyTypes DEF RowsInv, TypeOK, Label, Locals, Writes, SeedHealth
<1>2. Locals'
  BY SourceAssumption, RowTypes DEF RowsInv, TypeOK, Locals, Writes, Process, Listed,
     Config, NoConfig, SeedHealth
<1>3. Lists'
  BY SourceAssumption DEF RowsInv, TypeOK, Lists, Phases, Process, Listed, Config, NoConfig,
     SeedHealth
<1>4. Phases'
  BY SourceAssumption DEF RowsInv, TypeOK, Phases, Process, SeedHealth
<1>5. QED
  BY <1>1, <1>2, <1>3, <1>4 DEF RowsInv

LEMMA EndSeedKeeps == ASSUME RowsInv, EndSeed PROVE RowsInv'
<1>1. TypeOK'
  BY Processes, RowTypes, EmptyTypes DEF RowsInv, TypeOK, Label, Locals, Writes, EndSeed
<1>2. Locals'
  BY SourceAssumption, RowTypes DEF RowsInv, TypeOK, Locals, Writes, Process, Listed,
     Config, NoConfig, EndSeed
<1>3. Lists'
  BY SourceAssumption DEF RowsInv, TypeOK, Lists, Phases, Process, Listed, Config, NoConfig,
     EndSeed
<1>4. Phases'
  BY SourceAssumption DEF RowsInv, TypeOK, Phases, Process, EndSeed
<1>5. QED
  BY <1>1, <1>2, <1>3, <1>4 DEF RowsInv

LEMMA EnsureListKeeps == ASSUME RowsInv, EnsureList PROVE RowsInv'
<1>1. TypeOK'
  BY Processes, RowTypes, EmptyTypes DEF RowsInv, TypeOK, Label, Locals, Writes, EnsureList
<1>2. Locals'
  BY SourceAssumption, RowTypes DEF RowsInv, TypeOK, Locals, Writes, Process, Listed,
     Config, NoConfig, EnsureList
<1>3. Lists'
  BY SourceAssumption DEF RowsInv, TypeOK, Lists, Phases, Process, Listed, Config, NoConfig,
     EnsureList
<1>4. Phases'
  BY SourceAssumption DEF RowsInv, TypeOK, Phases, Process, EnsureList
<1>5. QED
  BY <1>1, <1>2, <1>3, <1>4 DEF RowsInv

LEMMA EnsureHealthKeeps == ASSUME RowsInv, EnsureHealth PROVE RowsInv'
<1>1. TypeOK'
  <2>1. pc' \in [Process -> Label]
    BY Processes DEF RowsInv, TypeOK, Label, EnsureHealth
  <2>2. seen' \in [Process -> BOOLEAN]
    BY SettingsTypes, Processes DEF RowsInv, TypeOK, EnsureHealth
  <2>3. rest' \in [Process -> SUBSET ConfigId]
    BY Processes DEF RowsInv, TypeOK, EnsureHealth, Listed
  <2>4. rows' \in [Process -> [Key -> HealthRow]]
    BY Processes DEF RowsInv, TypeOK, EnsureHealth
  <2>5. QED
    BY <2>1, <2>2, <2>3, <2>4 DEF RowsInv, TypeOK, EnsureHealth
<1>2. Locals'
  BY SourceAssumption, RowTypes DEF RowsInv, TypeOK, Locals, Writes, Process, Listed,
     Config, NoConfig, EnsureHealth
<1>3. Lists'
  BY SourceAssumption DEF RowsInv, TypeOK, Lists, Phases, Process, Listed, Config, NoConfig,
     EnsureHealth
<1>4. Phases'
  BY SourceAssumption DEF RowsInv, TypeOK, Phases, Process, EnsureHealth
<1>5. QED
  BY <1>1, <1>2, <1>3, <1>4 DEF RowsInv

LEMMA EnsureRowKeeps == ASSUME RowsInv, NEW id \in ConfigId, EnsureRow(id) PROVE RowsInv'
<1>1. TypeOK'
  <2>1. kept[Startup][id].key \in Key /\ rows[Startup][kept[Startup][id].key] \in HealthRow
    BY Processes DEF RowsInv, TypeOK, Locals, Listed, Config, EnsureRow
  <2>2. /\ health' \in [Key -> HealthRow]
        /\ (\A q \in Key : health'[q].run = "absent" => health'[q] = NoRow)
    BY <2>1, EnsuredTypes, WriteTypes DEF RowsInv, TypeOK, EnsureRow
  <2>3. rest' \in [Process -> SUBSET ConfigId]
    BY Processes DEF RowsInv, TypeOK, EnsureRow
  <2>4. QED
    BY <2>1, <2>2, <2>3 DEF RowsInv, TypeOK, EnsureRow
<1>2. Locals'
  BY SourceAssumption, RowTypes DEF RowsInv, TypeOK, Locals, Writes, Process, Listed,
     Config, NoConfig, EnsureRow
<1>3. Lists'
  BY SourceAssumption DEF RowsInv, TypeOK, Lists, Phases, Process, Listed, Config, NoConfig,
     EnsureRow
<1>4. Phases'
  BY SourceAssumption DEF RowsInv, TypeOK, Phases, Process, EnsureRow
<1>5. QED
  BY <1>1, <1>2, <1>3, <1>4 DEF RowsInv

LEMMA EndEnsureKeeps == ASSUME RowsInv, EndEnsure PROVE RowsInv'
<1>1. TypeOK'
  <2>1. pc' \in [Process -> Label]
    BY Processes DEF RowsInv, TypeOK, Label, EndEnsure
  <2>2. rest' \in [Process -> SUBSET ConfigId]
    <3>1. PICK S \in SUBSET ConfigId : rest' = [rest EXCEPT ![Startup] = S]
      BY EmptyTypes DEF EndEnsure, Listed
    <3>2. QED
      BY <3>1 DEF RowsInv, TypeOK
  <2>3. /\ rows' \in [Process -> [Key -> HealthRow]]
        /\ kept' \in [Process -> [ConfigId -> Config]]
        /\ seen' \in [Process -> BOOLEAN]
    <3>1. CASE UNCHANGED <<kept, rows, seen>>
      BY <3>1 DEF RowsInv, TypeOK
    <3>2. CASE DropLists(Startup)
      BY <3>2, EmptyTypes DEF RowsInv, TypeOK
    <3>3. QED
      BY <3>1, <3>2 DEF EndEnsure
  <2>4. QED
    BY <2>1, <2>2, <2>3 DEF RowsInv, TypeOK, EndEnsure
<1>2. Locals'
  BY SourceAssumption, RowTypes DEF RowsInv, TypeOK, Locals, Writes, Process, Listed,
     Config, NoConfig, EndEnsure
<1>3. Lists'
  BY SourceAssumption DEF RowsInv, TypeOK, Lists, Phases, Process, Listed, Config, NoConfig,
     EndEnsure
<1>4. Phases'
  BY SourceAssumption DEF RowsInv, TypeOK, Phases, Process, EndEnsure
<1>5. QED
  BY <1>1, <1>2, <1>3, <1>4 DEF RowsInv

LEMMA SyncSourceKeeps == ASSUME RowsInv, NEW id \in ConfigId, SyncSource(id) PROVE RowsInv'
<1>1. TypeOK'
  <2>1. configs[id].key \in Key /\ health[configs[id].key] \in HealthRow
    BY DEF RowsInv, TypeOK, Lists, Listed, Config, SyncSource
  <2>2. /\ Read(health[configs[id].key]) \in HealthRow
        /\ Read(health[configs[id].key]).run # "absent"
    BY <2>1, ReadTypes DEF SyncSource
  <2>3. /\ health' \in [Key -> HealthRow]
        /\ (\A q \in Key : health'[q].run = "absent" => health'[q] = NoRow)
    <3> DEFINE r == Read(health[configs[id].key])
               last(ok) == IF ok THEN "success" ELSE "failed"
               count == IF health[configs[id].key].run # "absent" THEN 0 ELSE 1
               date == FirstDate(configs[id].mode, paused)
               new(ok) == [r EXCEPT !.last = last(ok), !.failures = count, !.next = date]
    <3>1. PICK ok \in BOOLEAN : WriteRow(configs[id].key, new(ok))
      BY DEF SyncSource
    <3>2. last(ok) \in {"success", "failed"} /\ count \in 0..1 /\ date \in {"zero", "later"}
      BY DateTypes
    <3>3. r \in HealthRow /\ r.run # "absent"
      BY <2>2
    <3> HIDE DEF last, count, date, r
    <3>4. new(ok) \in HealthRow /\ new(ok).run # "absent"
      BY <3>2, <3>3, SyncedTypes
    <3> HIDE DEF new
    <3>5. QED
      BY <3>1, <3>4, WriteTypes DEF RowsInv
  <2>4. rest' \in [Process -> SUBSET ConfigId]
    BY Processes DEF RowsInv, TypeOK, SyncSource
  <2>5. QED
    BY <2>1, <2>2, <2>3, <2>4 DEF RowsInv, TypeOK, SyncSource
<1>2. Locals'
  BY SourceAssumption, RowTypes DEF RowsInv, TypeOK, Locals, Writes, Process, Listed,
     Config, NoConfig, SyncSource
<1>3. Lists'
  BY SourceAssumption DEF RowsInv, TypeOK, Lists, Phases, Process, Listed, Config, NoConfig,
     SyncSource
<1>4. Phases'
  BY SourceAssumption DEF RowsInv, TypeOK, Phases, Process, SyncSource
<1>5. QED
  BY <1>1, <1>2, <1>3, <1>4 DEF RowsInv

LEMMA ServeKeeps == ASSUME RowsInv, Serve PROVE RowsInv'
<1>1. TypeOK'
  BY Processes, RowTypes, EmptyTypes DEF RowsInv, TypeOK, Label, Locals, Writes, Serve
<1>2. Locals'
  BY SourceAssumption, RowTypes DEF RowsInv, TypeOK, Locals, Writes, Process, Listed,
     Config, NoConfig, Serve
<1>3. Lists'
  BY SourceAssumption DEF RowsInv, TypeOK, Lists, Phases, Process, Listed, Config, NoConfig,
     Serve
<1>4. Phases'
  BY SourceAssumption DEF RowsInv, TypeOK, Phases, Process, Serve
<1>5. QED
  BY <1>1, <1>2, <1>3, <1>4 DEF RowsInv

LEMMA StartupFailsKeeps == ASSUME RowsInv, StartupFails PROVE RowsInv'
<1>1. TypeOK'
  BY Processes, RowTypes, EmptyTypes DEF RowsInv, TypeOK, Label, Locals, Writes,
     StartupFails
<1>2. Locals'
  BY SourceAssumption, RowTypes DEF RowsInv, TypeOK, Locals, Writes, Process, Listed,
     Config, NoConfig, StartupFails
<1>3. Lists'
  BY SourceAssumption DEF RowsInv, TypeOK, Lists, Phases, Process, Listed, Config, NoConfig,
     StartupFails
<1>4. Phases'
  BY SourceAssumption DEF RowsInv, TypeOK, Phases, Process, StartupFails
<1>5. QED
  BY <1>1, <1>2, <1>3, <1>4 DEF RowsInv

LEMMA CreateSourceKeeps ==
  ASSUME RowsInv, NEW h \in Handler, NEW k \in Key, CreateSource(h, k)
  PROVE  RowsInv'
<1>1. TypeOK'
  <2>1. pc' \in [Process -> Label]
    BY Processes DEF RowsInv, TypeOK, Label, CreateSource
  <2>2. conf' \in [Process -> Config]
    BY Processes DEF RowsInv, TypeOK, Config, Mode, CreateSource
  <2>3. QED
    BY <2>1, <2>2 DEF RowsInv, TypeOK, CreateSource
<1>2. Locals'
  BY SourceAssumption, RowTypes DEF RowsInv, TypeOK, Locals, Writes, Process, Listed,
     Config, NoConfig, CreateSource
<1>3. Lists'
  BY SourceAssumption DEF RowsInv, TypeOK, Lists, Phases, Process, Listed, Config, NoConfig,
     CreateSource
<1>4. Phases'
  BY SourceAssumption DEF RowsInv, TypeOK, Phases, Process, Serving, CreateSource
<1>5. QED
  BY <1>1, <1>2, <1>3, <1>4 DEF RowsInv

LEMMA CreateConfigKeeps == ASSUME RowsInv, NEW h \in Handler, CreateConfig(h) PROVE RowsInv'
<1>1. TypeOK'
  BY Processes, RowTypes, EmptyTypes DEF RowsInv, TypeOK, Label, Locals, Writes,
     CreateConfig
<1>2. Locals'
  BY SourceAssumption, RowTypes DEF RowsInv, TypeOK, Locals, Writes, Process, Listed,
     Config, NoConfig, CreateConfig
<1>3. Lists'
  BY SourceAssumption DEF RowsInv, TypeOK, Lists, Phases, Process, Listed, Config, NoConfig,
     CreateConfig
<1>4. Phases'
  BY SourceAssumption DEF RowsInv, TypeOK, Phases, Process, CreateConfig
<1>5. QED
  BY <1>1, <1>2, <1>3, <1>4 DEF RowsInv

LEMMA CreateHealthKeeps == ASSUME RowsInv, NEW h \in Handler, CreateHealth(h) PROVE RowsInv'
<1>1. TypeOK'
  <2>1. pc' \in [Process -> Label]
    BY Processes DEF RowsInv, TypeOK, Label, CreateHealth
  <2>2. /\ health' \in [Key -> HealthRow]
        /\ (\A q \in Key : health'[q].run = "absent" => health'[q] = NoRow)
    <3>1. PICK v \in {"zero", "later"} : WriteRow(conf[h].key, [NewRow EXCEPT !.next = v])
      BY DateTypes DEF CreateHealth
    <3>2. /\ [NewRow EXCEPT !.next = v] \in HealthRow
          /\ [NewRow EXCEPT !.next = v].run # "absent"
      BY RowTypes, NextTypes
    <3>3. QED
      BY <3>1, <3>2, WriteTypes DEF RowsInv
  <2>3. /\ cid' \in [Process -> ConfigId \cup {None}]
        /\ conf' \in [Process -> Config]
        /\ row' \in [Process -> HealthRow]
    BY Processes, EmptyTypes, RowTypes DEF RowsInv, TypeOK, CreateHealth
  <2>4. QED
    BY <2>1, <2>2, <2>3 DEF RowsInv, TypeOK, CreateHealth
<1>2. Locals'
  BY SourceAssumption, RowTypes DEF RowsInv, TypeOK, Locals, Writes, Process, Listed,
     Config, NoConfig, CreateHealth
<1>3. Lists'
  BY SourceAssumption DEF RowsInv, TypeOK, Lists, Phases, Process, Listed, Config, NoConfig,
     CreateHealth
<1>4. Phases'
  BY SourceAssumption DEF RowsInv, TypeOK, Phases, Process, CreateHealth
<1>5. QED
  BY <1>1, <1>2, <1>3, <1>4 DEF RowsInv

LEMMA UpdateSourceKeeps ==
  ASSUME RowsInv, NEW h \in Handler, NEW id \in ConfigId, UpdateSource(h, id)
  PROVE  RowsInv'
<1>1. TypeOK'
  <2>1. pc' \in [Process -> Label]
    BY Processes DEF RowsInv, TypeOK, Label, UpdateSource
  <2>2. conf' \in [Process -> Config]
    <3>1. PICK m \in Mode : conf' = [conf EXCEPT ![h] = [configs[id] EXCEPT !.mode = m]]
      BY DEF UpdateSource
    <3>2. [configs[id] EXCEPT !.mode = m] \in Config
      <4>1. configs[id] \in Config
        BY DEF RowsInv, TypeOK
      <4>2. QED
        BY <4>1 DEF Config
    <3>3. QED
      BY <3>1, <3>2 DEF RowsInv, TypeOK
  <2>3. cid' \in [Process -> ConfigId \cup {None}]
    BY Processes DEF RowsInv, TypeOK, UpdateSource
  <2>4. QED
    BY <2>1, <2>2, <2>3 DEF RowsInv, TypeOK, UpdateSource
<1>2. Locals'
  BY SourceAssumption, RowTypes DEF RowsInv, TypeOK, Locals, Writes, Process, Listed,
     Config, NoConfig, UpdateSource
<1>3. Lists'
  BY SourceAssumption DEF RowsInv, TypeOK, Lists, Phases, Process, Listed, Config, NoConfig,
     UpdateSource
<1>4. Phases'
  BY SourceAssumption DEF RowsInv, TypeOK, Phases, Process, Serving, UpdateSource
<1>5. QED
  BY <1>1, <1>2, <1>3, <1>4 DEF RowsInv

LEMMA UpdateConfigKeeps == ASSUME RowsInv, NEW h \in Handler, UpdateConfig(h) PROVE RowsInv'
<1>1. TypeOK'
  BY Processes, RowTypes, EmptyTypes DEF RowsInv, TypeOK, Label, Locals, Writes,
     UpdateConfig
<1>2. Locals'
  BY SourceAssumption, RowTypes DEF RowsInv, TypeOK, Locals, Writes, Process, Listed,
     Config, NoConfig, UpdateConfig
<1>3. Lists'
  BY SourceAssumption DEF RowsInv, TypeOK, Lists, Phases, Process, Listed, Config, NoConfig,
     UpdateConfig
<1>4. Phases'
  BY SourceAssumption DEF RowsInv, TypeOK, Phases, Process, UpdateConfig
<1>5. QED
  BY <1>1, <1>2, <1>3, <1>4 DEF RowsInv

LEMMA UpdateReadKeeps == ASSUME RowsInv, NEW h \in Handler, UpdateRead(h) PROVE RowsInv'
<1>1. TypeOK'
  <2>1. pc' \in [Process -> Label]
    BY Processes, ZenonT(30) DEF RowsInv, TypeOK, Label, UpdateRead
  <2>2. health[conf[h].key] \in HealthRow
    BY Processes DEF RowsInv, TypeOK, Locals, UpdateRead
  <2>3. row' \in [Process -> HealthRow]
    <3>1. CASE DropCopy(h)
      BY <3>1, RowTypes DEF RowsInv, TypeOK
    <3>2. ASSUME NEW v \in {"zero", "later"},
                 row' = [row EXCEPT ![h] = [health[conf[h].key] EXCEPT !.next = v]]
          PROVE row' \in [Process -> HealthRow]
      <4>1. [health[conf[h].key] EXCEPT !.next = v] \in HealthRow
        BY <2>2, NextTypes
      <4>2. QED
        BY <3>2, <4>1 DEF RowsInv, TypeOK
    <3>3. QED
      BY <3>1, <3>2, DateTypes DEF UpdateRead
  <2>4. cid' \in [Process -> ConfigId \cup {None}] /\ conf' \in [Process -> Config]
    <3>1. CASE DropCopy(h)
      BY <3>1, EmptyTypes DEF RowsInv, TypeOK
    <3>2. CASE UNCHANGED <<cid, conf>>
      BY <3>2 DEF RowsInv, TypeOK
    <3>3. QED
      BY <3>1, <3>2 DEF UpdateRead
  <2>5. QED
    BY <2>1, <2>2, <2>3, <2>4 DEF RowsInv, TypeOK, UpdateRead
<1>2. Locals'
  <2>1. health[conf[h].key] \in HealthRow
    BY Processes DEF RowsInv, TypeOK, Locals, UpdateRead
  <2>2. pc'[h] = "update_write" => row'[h].run # "absent" /\ conf' = conf
    <3>1. ASSUME pc'[h] = "update_write"
          PROVE row'[h].run # "absent" /\ conf' = conf
      <4>1. /\ health[conf[h].key].run # "absent" /\ conf' = conf
            /\ \E v \in {"zero", "later"} :
                 row' = [row EXCEPT ![h] = [health[conf[h].key] EXCEPT !.next = v]]
        BY <3>1, Processes, DateTypes DEF RowsInv, TypeOK, UpdateRead
      <4>2. PICK v \in {"zero", "later"} :
              row' = [row EXCEPT ![h] = [health[conf[h].key] EXCEPT !.next = v]]
        BY <4>1
      <4>3. row'[h] = [health[conf[h].key] EXCEPT !.next = v]
        BY <4>2, Processes DEF RowsInv, TypeOK
      <4>4. QED
        BY <4>1, <4>3, <2>1, NextTypes
    <3>2. QED
      BY <3>1
  <2>3. \A p \in Process \ {h} : row'[p] = row[p] /\ conf'[p] = conf[p]
    BY Processes DEF RowsInv, TypeOK, UpdateRead
  <2>4. pc'[h] \in {"idle", "update_write"} /\ \A p \in Process \ {h} : pc'[p] = pc[p]
    BY Processes DEF RowsInv, TypeOK, UpdateRead
  <2>5. rest' = rest /\ kept' = kept /\ (pc'[h] = "update_write" => conf[h].key \in Key)
    BY Processes DEF RowsInv, Locals, UpdateRead
  <2>6. QED
    BY <2>2, <2>3, <2>4, <2>5 DEF RowsInv, Locals, Writes, Listed
<1>3. Lists'
  BY SourceAssumption DEF RowsInv, TypeOK, Lists, Phases, Process, Listed, Config, NoConfig,
     UpdateRead
<1>4. Phases'
  BY SourceAssumption DEF RowsInv, TypeOK, Phases, Process, UpdateRead
<1>5. QED
  BY <1>1, <1>2, <1>3, <1>4 DEF RowsInv

LEMMA DeleteConfigKeeps ==
  ASSUME RowsInv, NEW h \in Handler, NEW id \in ConfigId, DeleteConfig(h, id)
  PROVE  RowsInv'
<1>1. TypeOK'
  BY Processes, RowTypes, EmptyTypes DEF RowsInv, TypeOK, Label, Locals, Writes,
     DeleteConfig
<1>2. Locals'
  BY SourceAssumption, RowTypes DEF RowsInv, TypeOK, Locals, Writes, Process, Listed,
     Config, NoConfig, DeleteConfig
<1>3. Lists'
  BY SourceAssumption DEF RowsInv, TypeOK, Lists, Phases, Process, Serving, DeleteConfig
<1>4. Phases'
  BY SourceAssumption DEF RowsInv, TypeOK, Phases, Process, Serving, DeleteConfig
<1>5. QED
  BY <1>1, <1>2, <1>3, <1>4 DEF RowsInv

LEMMA DeleteHealthKeeps == ASSUME RowsInv, NEW h \in Handler, DeleteHealth(h) PROVE RowsInv'
<1>1. TypeOK'
  BY Processes, RowTypes, EmptyTypes DEF RowsInv, TypeOK, Label, Locals, Writes,
     DeleteHealth
<1>2. Locals'
  BY SourceAssumption, RowTypes DEF RowsInv, TypeOK, Locals, Writes, Process, Listed,
     Config, NoConfig, DeleteHealth
<1>3. Lists'
  BY SourceAssumption DEF RowsInv, TypeOK, Lists, Phases, Process, Listed, Config, NoConfig,
     DeleteHealth
<1>4. Phases'
  BY SourceAssumption DEF RowsInv, TypeOK, Phases, Process, DeleteHealth
<1>5. QED
  BY <1>1, <1>2, <1>3, <1>4 DEF RowsInv

LEMMA UpdateScheduleKeeps ==
  ASSUME RowsInv, NEW h \in Handler, UpdateSchedule(h)
  PROVE  RowsInv'
<1>1. TypeOK'
  BY Processes, RowTypes, EmptyTypes DEF RowsInv, TypeOK, Label, Locals, Writes,
     UpdateSchedule
<1>2. Locals'
  BY SourceAssumption, RowTypes DEF RowsInv, TypeOK, Locals, Writes, Process, Listed,
     Config, NoConfig, UpdateSchedule
<1>3. Lists'
  BY SourceAssumption DEF RowsInv, TypeOK, Lists, Phases, Process, Listed, Config, NoConfig,
     UpdateSchedule
<1>4. Phases'
  BY SourceAssumption DEF RowsInv, TypeOK, Phases, Process, Serving, UpdateSchedule
<1>5. QED
  BY <1>1, <1>2, <1>3, <1>4 DEF RowsInv

LEMMA RecalculateListKeeps ==
  ASSUME RowsInv, NEW h \in Handler, RecalculateList(h)
  PROVE  RowsInv'
<1>1. TypeOK'
  <2>1. pc' \in [Process -> Label]
    BY Processes DEF RowsInv, TypeOK, Label, RecalculateList
  <2>2. seen' \in [Process -> BOOLEAN]
    BY SettingsTypes, Processes DEF RowsInv, TypeOK, RecalculateList
  <2>3. rest' \in [Process -> SUBSET ConfigId]
    BY Processes DEF RowsInv, TypeOK, Listed, RecalculateList
  <2>4. kept' \in [Process -> [ConfigId -> Config]]
    BY Processes DEF RowsInv, TypeOK, RecalculateList
  <2>5. QED
    BY <2>1, <2>2, <2>3, <2>4 DEF RowsInv, TypeOK, RecalculateList
<1>2. Locals'
  BY SourceAssumption, RowTypes DEF RowsInv, TypeOK, Locals, Writes, Process, Listed,
     Config, NoConfig, RecalculateList
<1>3. Lists'
  BY SourceAssumption DEF RowsInv, TypeOK, Lists, Phases, Process, Listed, Config, NoConfig,
     RecalculateList
<1>4. Phases'
  BY SourceAssumption DEF RowsInv, TypeOK, Phases, Process, RecalculateList
<1>5. QED
  BY <1>1, <1>2, <1>3, <1>4 DEF RowsInv

LEMMA RequestChecksKeeps ==
  ASSUME RowsInv, NEW h \in Handler, NEW K \in SUBSET Key, RequestChecks(h, K)
  PROVE  RowsInv'
<1>1. TypeOK'
  <2>1. pc' \in [Process -> Label]
    BY Processes DEF RowsInv, TypeOK, Label, RequestChecks
  <2>2. seen' \in [Process -> BOOLEAN]
    BY SettingsTypes, Processes DEF RowsInv, TypeOK, RequestChecks
  <2>3. rest' \in [Process -> SUBSET ConfigId]
    BY Processes DEF RowsInv, TypeOK, Listed, RequestChecks
  <2>4. kept' \in [Process -> [ConfigId -> Config]]
    BY Processes DEF RowsInv, TypeOK, RequestChecks
  <2>5. QED
    BY <2>1, <2>2, <2>3, <2>4 DEF RowsInv, TypeOK, RequestChecks
<1>2. Locals'
  BY SourceAssumption, RowTypes DEF RowsInv, TypeOK, Locals, Writes, Process, Listed,
     Config, NoConfig, RequestChecks
<1>3. Lists'
  BY SourceAssumption DEF RowsInv, TypeOK, Lists, Phases, Process, Listed, Config, NoConfig,
     RequestChecks
<1>4. Phases'
  BY SourceAssumption DEF RowsInv, TypeOK, Phases, Process, Serving, RequestChecks
<1>5. QED
  BY <1>1, <1>2, <1>3, <1>4 DEF RowsInv

LEMMA ReadNextKeeps ==
  ASSUME RowsInv, NEW h \in Handler, NEW id \in ConfigId, ReadNext(h, id)
  PROVE  RowsInv'
<1>1. TypeOK'
  <2>1. pc' \in [Process -> Label]
    BY Processes DEF RowsInv, TypeOK, Label, ReadNext
  <2>2. kept[h][id].key \in Key /\ kept[h][id] \in Config
    BY Processes DEF RowsInv, TypeOK, Locals, Listed, Config, ReadNext
  <2>3. row' \in [Process -> HealthRow]
    BY <2>2, RowsReadTypes, RequestedTypes, RecalculatedTypes, Processes DEF RowsInv,
       TypeOK, ReadNext
  <2>4. conf' \in [Process -> Config] /\ rest' \in [Process -> SUBSET ConfigId]
    BY <2>2, Processes DEF RowsInv, TypeOK, ReadNext
  <2>5. QED
    BY <2>1, <2>2, <2>3, <2>4 DEF RowsInv, TypeOK, ReadNext
<1>2. Locals'
  <2>1. kept[h][id].key \in Key /\ rest[h] \subseteq Listed(kept[h])
    BY Processes DEF RowsInv, TypeOK, Locals, Listed, Config, ReadNext
  <2>2. row'[h].run # "absent"
    <3>1. PICK r \in RowsRead(kept[h][id].key) :
            row' = [row EXCEPT ![h] = IF pc[h] = "request"
                                      THEN Requested(r, kept[h][id], seen[h])
                                      ELSE Recalculated(r, kept[h][id], seen[h])]
      BY DEF ReadNext
    <3>2. r \in HealthRow /\ r.run # "absent"
      BY <2>1, RowsReadTypes DEF RowsInv
    <3>3. row'[h] \in {Requested(r, kept[h][id], seen[h]), Recalculated(r, kept[h][id], seen[h])}
      BY <3>1, Processes DEF RowsInv, TypeOK
    <3>4. QED
      BY <3>2, <3>3, RequestedTypes, RecalculatedTypes
  <2>3. \A p \in Process \ {h} : row'[p] = row[p] /\ conf'[p] = conf[p] /\ pc'[p] = pc[p] /\ rest'[p] = rest[p]
    BY Processes DEF RowsInv, TypeOK, ReadNext
  <2>4. conf'[h].key \in Key /\ rest'[h] \subseteq rest[h] /\ kept' = kept
          /\ pc'[h] \in {"request_write", "recalculate_write"}
    BY <2>1, Processes DEF RowsInv, TypeOK, ReadNext
  <2>5. QED
    BY <2>1, <2>2, <2>3, <2>4 DEF RowsInv, Locals, Writes, Listed
<1>3. Lists'
  BY SourceAssumption DEF RowsInv, TypeOK, Lists, Phases, Process, Listed, Config, NoConfig,
     ReadNext
<1>4. Phases'
  BY SourceAssumption DEF RowsInv, TypeOK, Phases, Process, ReadNext
<1>5. QED
  BY <1>1, <1>2, <1>3, <1>4 DEF RowsInv

LEMMA WriteNextKeeps == ASSUME RowsInv, NEW h \in Handler, WriteNext(h) PROVE RowsInv'
<1>1. TypeOK'
  BY Processes, RowTypes, EmptyTypes DEF RowsInv, TypeOK, Label, Locals, Writes, WriteNext
<1>2. Locals'
  BY SourceAssumption, RowTypes DEF RowsInv, TypeOK, Locals, Writes, Process, Listed,
     Config, NoConfig, WriteNext
<1>3. Lists'
  BY SourceAssumption DEF RowsInv, TypeOK, Lists, Phases, Process, Listed, Config, NoConfig,
     WriteNext
<1>4. Phases'
  BY SourceAssumption DEF RowsInv, TypeOK, Phases, Process, WriteNext
<1>5. QED
  BY <1>1, <1>2, <1>3, <1>4 DEF RowsInv

LEMMA AnswerKeeps == ASSUME RowsInv, NEW h \in Handler, Answer(h) PROVE RowsInv'
<1>1. TypeOK'
  BY Processes, RowTypes, EmptyTypes DEF RowsInv, TypeOK, Label, Locals, Writes, Answer
<1>2. Locals'
  BY SourceAssumption, RowTypes DEF RowsInv, TypeOK, Locals, Writes, Process, Listed,
     Config, NoConfig, Answer
<1>3. Lists'
  BY SourceAssumption DEF RowsInv, TypeOK, Lists, Phases, Process, Listed, Config, NoConfig,
     Answer
<1>4. Phases'
  BY SourceAssumption DEF RowsInv, TypeOK, Phases, Process, Answer
<1>5. QED
  BY <1>1, <1>2, <1>3, <1>4 DEF RowsInv

LEMMA HandlerFailsKeeps == ASSUME RowsInv, NEW h \in Handler, HandlerFails(h) PROVE RowsInv'
<1>1. TypeOK'
  BY Processes, RowTypes, EmptyTypes DEF RowsInv, TypeOK, Label, Locals, Writes,
     HandlerFails
<1>2. Locals'
  BY SourceAssumption, RowTypes DEF RowsInv, TypeOK, Locals, Writes, Process, Listed,
     Config, NoConfig, HandlerFails
<1>3. Lists'
  BY SourceAssumption DEF RowsInv, TypeOK, Lists, Phases, Process, Listed, Config, NoConfig,
     HandlerFails
<1>4. Phases'
  BY SourceAssumption DEF RowsInv, TypeOK, Phases, Process, HandlerFails
<1>5. QED
  BY <1>1, <1>2, <1>3, <1>4 DEF RowsInv

LEMMA DateComesKeeps == ASSUME RowsInv, NEW k \in Key, DateComes(k) PROVE RowsInv'
<1>1. TypeOK'
  <2>1. health[k] \in HealthRow /\ health[k].run # "absent"
    BY DEF RowsInv, TypeOK, DateComes, NoRow
  <2>2. WriteRow(k, [health[k] EXCEPT !.next = "due"])
    BY DEF DateComes
  <2>3. /\ [health[k] EXCEPT !.next = "due"] \in HealthRow
        /\ [health[k] EXCEPT !.next = "due"].run # "absent"
    BY <2>1, NextTypes
  <2>4. /\ health' \in [Key -> HealthRow]
        /\ (\A q \in Key : health'[q].run = "absent" => health'[q] = NoRow)
    BY <2>2, <2>3, WriteTypes DEF RowsInv
  <2>5. QED
    BY <2>4 DEF RowsInv, TypeOK, DateComes
<1>2. Locals'
  BY SourceAssumption, RowTypes DEF RowsInv, TypeOK, Locals, Writes, Process, Listed,
     Config, NoConfig, DateComes
<1>3. Lists'
  BY SourceAssumption DEF RowsInv, TypeOK, Lists, Phases, Process, Listed, Config, NoConfig,
     DateComes
<1>4. Phases'
  BY SourceAssumption DEF RowsInv, TypeOK, Phases, Process, DateComes
<1>5. QED
  BY <1>1, <1>2, <1>3, <1>4 DEF RowsInv

LEMMA RestartWorkerKeeps == ASSUME RowsInv, RestartWorker PROVE RowsInv'
<1>1. TypeOK'
  <2>1. pc' \in [Process -> Label]
    BY DEF RowsInv, TypeOK, Label, Restart, RestartWorker
  <2>2. /\ kept' \in [Process -> [ConfigId -> Config]]
        /\ rows' \in [Process -> [Key -> HealthRow]]
    BY EmptyTypes DEF RowsInv, TypeOK, Restart, RestartWorker
  <2>3. /\ seen' \in [Process -> BOOLEAN]
        /\ rest' \in [Process -> SUBSET ConfigId]
        /\ kills' \in 0..MaxKills
    BY SourceAssumption DEF RowsInv, TypeOK, Restart, RestartWorker
  <2>4. /\ cid' \in [Process -> ConfigId \cup {None}]
        /\ conf' \in [Process -> Config]
        /\ row' \in [Process -> HealthRow]
    BY EmptyTypes, RowTypes DEF RowsInv, TypeOK, Restart, RestartWorker
  <2>5. trigger' \in [Goroutine -> {"none", "manual", "scheduled"}]
    BY DEF RowsInv, TypeOK, RestartWorker
  <2>6. QED
    BY <2>1, <2>2, <2>3, <2>4, <2>5 DEF RowsInv, TypeOK, RestartWorker, Restart
<1>2. Locals'
  BY DEF RowsInv, Locals, Writes, Listed, Restart, RestartWorker
<1>3. Lists'
  BY SourceAssumption, Processes DEF RowsInv, Lists, Listed, Restart, RestartWorker
<1>4. Phases'
  BY SourceAssumption, Processes DEF RowsInv, Phases, Process, Restart, RestartWorker
<1>5. QED
  BY <1>1, <1>2, <1>3, <1>4 DEF RowsInv

LEMMA RestartAppKeeps == ASSUME RowsInv, RestartApp PROVE RowsInv'
<1>1. TypeOK'
  <2>1. pc' \in [Process -> Label]
    BY DEF RowsInv, TypeOK, Label, Restart, RestartApp
  <2>2. /\ kept' \in [Process -> [ConfigId -> Config]]
        /\ rows' \in [Process -> [Key -> HealthRow]]
    BY EmptyTypes DEF RowsInv, TypeOK, Restart, RestartApp
  <2>3. /\ seen' \in [Process -> BOOLEAN]
        /\ rest' \in [Process -> SUBSET ConfigId]
        /\ kills' \in 0..MaxKills
    BY SourceAssumption DEF RowsInv, TypeOK, Restart, RestartApp
  <2>4. /\ cid' \in [Process -> ConfigId \cup {None}]
        /\ conf' \in [Process -> Config]
        /\ row' \in [Process -> HealthRow]
    BY EmptyTypes, RowTypes DEF RowsInv, TypeOK, Restart, RestartApp
  <2>5. trigger' \in [Goroutine -> {"none", "manual", "scheduled"}]
    BY DEF RowsInv, TypeOK, RestartApp
  <2>6. QED
    BY <2>1, <2>2, <2>3, <2>4, <2>5 DEF RowsInv, TypeOK, RestartApp, Restart
<1>2. Locals'
  BY DEF RowsInv, Locals, Writes, Listed, Restart, RestartApp
<1>3. Lists'
  BY SourceAssumption, Processes DEF RowsInv, Lists, Listed, Restart, RestartApp
<1>4. Phases'
  BY SourceAssumption, Processes DEF RowsInv, Phases, Process, Restart, RestartApp
<1>5. QED
  BY <1>1, <1>2, <1>3, <1>4 DEF RowsInv

LEMMA InitKeeps == Init => RowsInv
<1> SUFFICES ASSUME Init PROVE RowsInv
  OBVIOUS
<1>1. TypeOK
  <2>1. /\ configs \in [ConfigId -> Config] /\ health \in [Key -> HealthRow]
        /\ \A k \in Key : health[k].run = "absent" => health[k] = NoRow
    BY EmptyTypes DEF Init, NoRows
  <2>2. kills \in 0..MaxKills /\ first \in BOOLEAN /\ paused \in BOOLEAN
    <3>1. kills \in 0..MaxKills
      BY SourceAssumption DEF Init
    <3>2. first \in BOOLEAN /\ paused \in BOOLEAN
      BY Zenon DEF Init
    <3>3. QED
      BY <3>1, <3>2
  <2>3. pc \in [Process -> Label]
    BY DEF Init, Label
  <2>4. /\ /\ kept \in [Process -> [ConfigId -> Config]]
        /\ rows \in [Process -> [Key -> HealthRow]]
        /\ seen \in [Process -> BOOLEAN] /\ rest \in [Process -> SUBSET ConfigId]
    BY EmptyTypes DEF Init
  <2>5. /\ cid \in [Process -> ConfigId \cup {None}] /\ conf \in [Process -> Config]
        /\ row \in [Process -> HealthRow] /\ trigger \in [Goroutine -> {"none", "manual", "scheduled"}]
    BY EmptyTypes, RowTypes DEF Init
  <2>6. QED
    BY <2>1, <2>2, <2>3, <2>4, <2>5 DEF TypeOK
<1>2. Locals /\ Lists /\ Phases
  BY SourceAssumption, Processes DEF Init, Locals, Lists, Phases, Writes, Process
<1>3. QED
  BY <1>1, <1>2 DEF RowsInv

LEMMA StepKeeps == ASSUME RowsInv, [Next]_vars PROVE RowsInv'
<1>1. CASE UNCHANGED vars
  BY <1>1 DEF vars, RowsInv, TypeOK, Locals, Lists, Phases, Listed
<1>2. CASE Next
  BY <1>2, StartWorkerKeeps, ListRunningKeeps, ResetKeeps, EndResetKeeps, ListConfigsKeeps,
     LoadSettingsKeeps, ListHealthKeeps, SkipKeeps, BeginChecksKeeps, EndPassKeeps,
     TakeKeeps, StartKeeps, FetchKeeps, ReadLatestKeeps, FinishKeeps,
     SeedListKeeps, SeedConfigKeeps, SeedHealthKeeps, EndSeedKeeps, EnsureListKeeps,
     EnsureHealthKeeps, EnsureRowKeeps, EndEnsureKeeps, SyncSourceKeeps, ServeKeeps,
     StartupFailsKeeps, CreateSourceKeeps, CreateConfigKeeps, CreateHealthKeeps, UpdateSourceKeeps,
     UpdateConfigKeeps, UpdateReadKeeps, DeleteConfigKeeps, DeleteHealthKeeps, UpdateScheduleKeeps,
     RecalculateListKeeps, RequestChecksKeeps, ReadNextKeeps, WriteNextKeeps, AnswerKeeps,
     HandlerFailsKeeps, DateComesKeeps, RestartWorkerKeeps, RestartAppKeeps
     DEF Next, LoopStep, GoroutineStep, StartupStep, HandlerStep, HandlerGoesOn
<1>3. QED
  BY <1>1, <1>2

\* A process always holds what its next call needs, whichever processes are killed
\* or fail in between.
THEOREM RowsInvHolds == Spec => []RowsInv
BY InitKeeps, StepKeeps, PTL DEF Spec

\* Configurations, health rows and all copies of them keep their types, and no
\* call writes half a row: one that is not there has no fields.
THEOREM SourceTypes == Spec => []TypeOK
<1>1. RowsInv => TypeOK
  BY DEF RowsInv
<1>2. QED
  BY <1>1, RowsInvHolds, PTL

-----------------------------------------------------------------------------
(* Status and failures: StatusFitsFailures *)

\* Status and failures fit in every row and in every copy of one.
Fits(r) == /\ r.last = "failed" => r.failures > 0
           /\ r.last = "success" => r.failures = 0
EveryCopyFits ==
  /\ pc[Startup] # "sync"
  /\ \A k \in Key : Fits(health[k])
  /\ \A p \in Process : Fits(row[p]) /\ \A k \in Key : Fits(rows[p][k])

OneKeyEach(list) == \A i, j \in ConfigId :
  list[i].key = list[j].key /\ list[i].key # None => i = j

LEMMA FitsOfChanges ==
  /\ Fits(NoRow) /\ Fits(NewRow)
  /\ \A r \in HealthRow : Fits(r) => Fits(Read(r))
  /\ \A r \in HealthRow, v \in {"absent", "idle", "running"} : Fits(r) => Fits([r EXCEPT !.run = v])
  /\ \A r \in HealthRow, v \in {"none", "pending"} : Fits(r) => Fits([r EXCEPT !.request = v])
  /\ \A r \in HealthRow, v \in {"zero", "later", "due"} : Fits(r) => Fits([r EXCEPT !.next = v])
  /\ \A r \in HealthRow : Fits([r EXCEPT !.request = "none", !.last = "other"])
<1>1. Fits(NoRow) /\ Fits(NewRow)
  <2>1. /\ NoRow.last = "none"
        /\ NewRow = [[NoRow EXCEPT !.run = "idle"] EXCEPT !.last = "other"]
    BY DEF NoRow, NewRow
  <2>2. NewRow.last = "other"
    BY <2>1, RowTypes, RunTypes DEF HealthRow
  <2>3. QED
    BY <2>1, <2>2 DEF Fits
<1>2. QED
  BY <1>1 DEF Fits, Read, HealthRow

LEMMA FitsOfChecks == ASSUME NEW r \in HealthRow
  PROVE /\ \A ok \in BOOLEAN, date \in {"zero", "later", "due"} : Fits(Finished(r, ok, date))
        /\ \A c, s : Fits(r) => /\ Fits(Ensured(r, c, s)) /\ Fits(Requested(r, c, s))
                                /\ Fits(Recalculated(r, c, s))
<1>1. ASSUME NEW ok \in BOOLEAN, NEW date \in {"zero", "later", "due"} PROVE Fits(Finished(r, ok, date))
  <2>1. Finished(r, ok, date).last = (IF ok THEN "success" ELSE "failed")
          /\ Finished(r, ok, date).failures = (IF ok THEN 0 ELSE 1)
    BY DEF Finished, HealthRow
  <2>2. QED
    BY <2>1 DEF Fits
<1>2. ASSUME NEW c, NEW s, Fits(r)
      PROVE Fits(Ensured(r, c, s)) /\ Fits(Requested(r, c, s)) /\ Fits(Recalculated(r, c, s))
  <2>1. Ensured(r, c, s).failures = r.failures /\ Requested(r, c, s).failures = r.failures
          /\ Recalculated(r, c, s).failures = r.failures
    BY DEF Ensured, Requested, Recalculated, HealthRow
  <2>2. /\ Ensured(r, c, s).last \in {r.last, "other"}
        /\ Requested(r, c, s).last \in {r.last, "other"}
          /\ Recalculated(r, c, s).last = r.last
    BY DEF Ensured, Requested, Recalculated, HealthRow
  <2>3. QED
    BY <2>1, <2>2, <1>2 DEF Fits
<1>3. QED
  BY <1>1, <1>2

LEMMA FitsPut == ASSUME RowsInv, EveryCopyFits, NEW p \in Process, NEW r, Fits(r), row' = [row EXCEPT ![p] = r]
  PROVE \A q \in Process : Fits(row'[q])
BY DEF RowsInv, TypeOK, EveryCopyFits

LEMMA FitsWritten == ASSUME RowsInv, EveryCopyFits, NEW k, NEW r, Fits(r), WriteRow(k, r)
  PROVE \A q \in Key : Fits(health'[q])
BY DEF RowsInv, TypeOK, EveryCopyFits

LEMMA FitsListed == ASSUME RowsInv, EveryCopyFits, NEW p \in Process, rows' = [rows EXCEPT ![p] = health] \/ rows' = [rows EXCEPT ![p] = NoRows]
  PROVE \A q \in Process : \A k \in Key : Fits(rows'[q][k])
<1>1. \A k \in Key : Fits(NoRows[k]) /\ Fits(health[k])
  BY FitsOfChanges DEF NoRows, EveryCopyFits
<1>2. \A q \in Process : rows'[q] \in {rows[q], health, NoRows}
  BY DEF RowsInv, TypeOK
<1>3. QED
  BY <1>1, <1>2 DEF EveryCopyFits

LEMMA FitsStep == ASSUME RowsInv, EveryCopyFits, ~SyncOnStartup, Next PROVE EveryCopyFits'
<1>1. ASSUME StartWorker PROVE EveryCopyFits'
  BY <1>1, Processes, SourceAssumption DEF RowsInv, TypeOK, EveryCopyFits, Fits, NoRow,
     NoRows, StartWorker
<1>2. ASSUME ListRunning PROVE EveryCopyFits'
  <2>1. \A p \in Process : \A k \in Key : Fits(rows'[p][k])
    BY <1>2, FitsListed, Processes DEF ListRunning, EveryCopyFits
  <2>2. QED
    BY <1>2, Processes, SourceAssumption, <2>1 DEF RowsInv, TypeOK, EveryCopyFits,
       ListRunning
<1>3. ASSUME NEW k \in Key, Reset(k) PROVE EveryCopyFits'
  <2>1. rows[Loop][k] \in HealthRow /\ Fits(rows[Loop][k])
    BY Processes DEF RowsInv, TypeOK, EveryCopyFits
  <2>2. Fits([rows[Loop][k] EXCEPT !.run = "idle"])
    BY <2>1, FitsOfChanges
  <2>3. \A q \in Key : Fits(health'[q])
    BY <1>3, <2>2, FitsWritten DEF Reset, EveryCopyFits
  <2>4. \A p \in Process : \A q \in Key : Fits(rows'[p][q])
    <3>1. CASE rows' = [rows EXCEPT ![Loop][k].run = "idle"]
      <4>1. \A p \in Process : \A q \in Key :
              rows'[p][q] = rows[p][q] \/ rows'[p][q] = [rows[Loop][k] EXCEPT !.run = "idle"]
        BY <3>1, Processes DEF RowsInv, TypeOK
      <4>2. QED
        BY <4>1, <2>2 DEF EveryCopyFits
    <3>2. CASE rows' = [rows EXCEPT ![Loop] = NoRows]
      BY <3>2, FitsListed, Processes
    <3>3. QED
      BY <1>3, <3>1, <3>2 DEF Reset
  <2>5. QED
    BY <1>3, Processes, SourceAssumption, <2>1, <2>2, <2>3, <2>4 DEF RowsInv, TypeOK,
       EveryCopyFits, Reset
<1>4. ASSUME EndReset PROVE EveryCopyFits'
  BY <1>4, Processes, SourceAssumption DEF RowsInv, TypeOK, EveryCopyFits, Fits, NoRow,
     NoRows, EndReset
<1>5. ASSUME ListConfigs PROVE EveryCopyFits'
  BY <1>5, Processes, SourceAssumption DEF RowsInv, TypeOK, EveryCopyFits, Fits, NoRow,
     NoRows, ListConfigs
<1>6. ASSUME LoadSettings PROVE EveryCopyFits'
  BY <1>6, Processes, SourceAssumption DEF RowsInv, TypeOK, EveryCopyFits, Fits, NoRow,
     NoRows, LoadSettings
<1>7. ASSUME ListHealth PROVE EveryCopyFits'
  <2>1. \A p \in Process : \A k \in Key : Fits(rows'[p][k])
    BY <1>7, FitsListed, Processes DEF ListHealth, EveryCopyFits
  <2>2. QED
    BY <1>7, Processes, SourceAssumption, <2>1 DEF RowsInv, TypeOK, EveryCopyFits,
       ListHealth
<1>8. ASSUME NEW id \in ConfigId, Skip(id) PROVE EveryCopyFits'
  <2>1. kept[Loop][id].key \in Key
    BY <1>8 DEF RowsInv, Lists, Skip
  <2>2. rows[Loop][kept[Loop][id].key] \in HealthRow
    BY <2>1, Processes DEF RowsInv, TypeOK
  <2>3. \A k \in Key : Fits(health'[k])
    <3> DEFINE skipped == [rows[Loop][kept[Loop][id].key] EXCEPT !.request = "none", !.last = "other"]
    <3>1. Fits(skipped)
      BY <2>2, FitsOfChanges
    <3>2. WriteRow(kept[Loop][id].key, skipped) \/ UNCHANGED health
      BY <1>8 DEF Skip
    <3> HIDE DEF skipped
    <3>3. CASE WriteRow(kept[Loop][id].key, skipped)
      BY <3>1, <3>3, FitsWritten
    <3>4. CASE UNCHANGED health
      BY <3>4 DEF EveryCopyFits
    <3>5. QED
      BY <3>2, <3>3, <3>4
  <2>4. QED
    BY <1>8, Processes, SourceAssumption, <2>1, <2>2, <2>3 DEF RowsInv, TypeOK,
       EveryCopyFits, Skip
<1>9. ASSUME BeginChecks PROVE EveryCopyFits'
  BY <1>9, Processes, SourceAssumption DEF RowsInv, TypeOK, EveryCopyFits, Fits, NoRow,
     NoRows, BeginChecks
<1>10. ASSUME EndPass PROVE EveryCopyFits'
  BY <1>10, Processes, SourceAssumption DEF RowsInv, TypeOK, EveryCopyFits, Fits, NoRow,
     NoRows, EndPass
<1>11. ASSUME NEW g \in Goroutine, NEW id \in ConfigId, Take(g, id) PROVE EveryCopyFits'
  BY <1>11, Processes, SourceAssumption DEF RowsInv, TypeOK, EveryCopyFits, Fits, NoRow,
     NoRows, Take
<1>12. ASSUME NEW g \in Goroutine, Start(g) PROVE EveryCopyFits'
  <2>1. \A k \in Key : Fits(health'[k])
    BY <1>12, FitsWritten, Processes DEF Start, EveryCopyFits
  <2>2. QED
    BY <1>12, Processes, SourceAssumption, <2>1 DEF RowsInv, TypeOK, EveryCopyFits, Start
<1>13. ASSUME NEW g \in Goroutine, Fetch(g) PROVE EveryCopyFits'
  <2>1. \A p \in Process : Fits(row'[p])
    <3>1. PICK ok \in BOOLEAN, date \in {"zero", "later", "due"} :
            row' = [row EXCEPT ![g] = Finished(row[g], ok, date)]
      BY <1>13, DateTypes DEF Fetch
    <3>2. Fits(Finished(row[g], ok, date))
      BY FitsOfChecks, Processes DEF RowsInv, TypeOK
    <3>3. QED
      BY <3>1, <3>2, FitsPut, Processes
  <2>2. QED
    BY <1>13, Processes, SourceAssumption, <2>1 DEF RowsInv, TypeOK, EveryCopyFits, Fetch
<1>14. ASSUME NEW g \in Goroutine, ReadLatest(g) PROVE EveryCopyFits'
  <2>1. \A p \in Process : Fits(row'[p])
    <3>1. row[g] \in HealthRow /\ Fits(row[g])
      BY Processes DEF RowsInv, TypeOK, EveryCopyFits
    <3>2. PICK v \in {"pending", row[g].request} :
            row' = [row EXCEPT ![g] = [row[g] EXCEPT !.request = v]] \/ row' = row
      BY <1>14 DEF ReadLatest
    <3>3. Fits([row[g] EXCEPT !.request = v])
      BY <3>1, FitsOfChanges DEF HealthRow
    <3>4. QED
      BY <3>2, <3>3, FitsPut, Processes DEF EveryCopyFits
  <2>2. QED
    BY <1>14, Processes, SourceAssumption, <2>1 DEF RowsInv, TypeOK, EveryCopyFits,
       ReadLatest
<1>15. ASSUME NEW g \in Goroutine, Finish(g) PROVE EveryCopyFits'
  <2>1. \A k \in Key : Fits(health'[k])
    BY <1>15, FitsWritten, Processes DEF Finish, EveryCopyFits
  <2>2. \A p \in Process : Fits(row'[p])
    BY <1>15, FitsPut, FitsOfChanges, Processes DEF Finish, EndCheck
  <2>3. QED
    BY <1>15, Processes, SourceAssumption, <2>1, <2>2 DEF RowsInv, TypeOK, EveryCopyFits,
       Finish, EndCheck
<1>16. ASSUME SeedList PROVE EveryCopyFits'
  BY <1>16, Processes, SourceAssumption DEF RowsInv, TypeOK, EveryCopyFits, Fits, NoRow,
     NoRows, SeedList
<1>17. ASSUME NEW k \in Key, SeedConfig(k) PROVE EveryCopyFits'
  BY <1>17, Processes, SourceAssumption DEF RowsInv, TypeOK, EveryCopyFits, Fits, NoRow,
     NoRows, SeedConfig
<1>18. ASSUME SeedHealth PROVE EveryCopyFits'
  <2>1. \A k \in Key : Fits(health'[k])
    BY <1>18, FitsOfChanges, FitsWritten DEF SeedHealth
  <2>2. \A p \in Process : Fits(row'[p])
    BY <1>18, FitsPut, FitsOfChanges, Processes DEF SeedHealth
  <2>3. QED
    BY <1>18, Processes, SourceAssumption, <2>1, <2>2 DEF RowsInv, TypeOK, EveryCopyFits,
       SeedHealth
<1>19. ASSUME EndSeed PROVE EveryCopyFits'
  BY <1>19, Processes, SourceAssumption DEF RowsInv, TypeOK, EveryCopyFits, Fits, NoRow,
     NoRows, EndSeed
<1>20. ASSUME EnsureList PROVE EveryCopyFits'
  BY <1>20, Processes, SourceAssumption DEF RowsInv, TypeOK, EveryCopyFits, Fits, NoRow,
     NoRows, EnsureList
<1>21. ASSUME EnsureHealth PROVE EveryCopyFits'
  BY <1>21, Processes, SourceAssumption DEF RowsInv, TypeOK, EveryCopyFits, Fits, NoRow,
     NoRows, EnsureHealth
<1>22. ASSUME NEW id \in ConfigId, EnsureRow(id) PROVE EveryCopyFits'
  <2>1. kept[Startup][id].key \in Key
    BY <1>22, Processes DEF RowsInv, TypeOK, Locals, Listed, Config, EnsureRow
  <2>2. /\ rows[Startup][kept[Startup][id].key] \in HealthRow
        /\ Fits(rows[Startup][kept[Startup][id].key])
    BY <2>1, Processes DEF RowsInv, TypeOK, EveryCopyFits
  <2>3. \A k \in Key : Fits(health'[k])
    BY <1>22, <2>2, FitsOfChecks, FitsWritten DEF EnsureRow
  <2>4. QED
    BY <1>22, Processes, SourceAssumption, <2>1, <2>2, <2>3 DEF RowsInv, TypeOK,
       EveryCopyFits, EnsureRow
<1>23. ASSUME EndEnsure PROVE EveryCopyFits'
  <2>1. pc' = [pc EXCEPT ![Startup] = "serving"] /\ DropLists(Startup)
    BY <1>23 DEF EndEnsure
  <2>2. \A p \in Process : \A k \in Key : Fits(rows'[p][k])
    BY <2>1, FitsListed, Processes
  <2>3. QED
    BY <1>23, Processes, SourceAssumption, <2>1, <2>2 DEF RowsInv, TypeOK, EveryCopyFits,
       EndEnsure
<1>24. ASSUME NEW id \in ConfigId, SyncSource(id) PROVE EveryCopyFits'
  BY <1>24, Processes, SourceAssumption DEF RowsInv, TypeOK, EveryCopyFits, Fits, NoRow,
     NoRows, SyncSource
<1>25. ASSUME Serve PROVE EveryCopyFits'
  BY <1>25, Processes, SourceAssumption DEF RowsInv, TypeOK, EveryCopyFits, Fits, NoRow,
     NoRows, Serve
<1>26. ASSUME StartupFails PROVE EveryCopyFits'
  BY <1>26, Processes, SourceAssumption DEF RowsInv, TypeOK, EveryCopyFits, Fits, NoRow,
     NoRows, StartupFails
<1>27. ASSUME NEW h \in Handler, NEW k \in Key, CreateSource(h, k) PROVE EveryCopyFits'
  BY <1>27, Processes, SourceAssumption DEF RowsInv, TypeOK, EveryCopyFits, Fits, NoRow,
     NoRows, CreateSource
<1>28. ASSUME NEW h \in Handler, CreateConfig(h) PROVE EveryCopyFits'
  BY <1>28, Processes, SourceAssumption DEF RowsInv, TypeOK, EveryCopyFits, Fits, NoRow,
     NoRows, CreateConfig
<1>29. ASSUME NEW h \in Handler, CreateHealth(h) PROVE EveryCopyFits'
  <2>1. \A k \in Key : Fits(health'[k])
    <3>1. PICK v \in {"zero", "later"} : WriteRow(conf[h].key, [NewRow EXCEPT !.next = v])
      BY <1>29, DateTypes DEF CreateHealth
    <3>2. Fits([NewRow EXCEPT !.next = v])
      BY RowTypes, FitsOfChanges
    <3>3. QED
      BY <3>1, <3>2, FitsWritten
  <2>2. \A p \in Process : Fits(row'[p])
    BY <1>29, FitsPut, FitsOfChanges, Processes DEF CreateHealth
  <2>3. QED
    BY <1>29, Processes, SourceAssumption, <2>1, <2>2 DEF RowsInv, TypeOK, EveryCopyFits,
       CreateHealth
<1>30. ASSUME NEW h \in Handler, NEW id \in ConfigId, UpdateSource(h, id) PROVE EveryCopyFits'
  BY <1>30, Processes, SourceAssumption DEF RowsInv, TypeOK, EveryCopyFits, Fits, NoRow,
     NoRows, UpdateSource
<1>31. ASSUME NEW h \in Handler, UpdateConfig(h) PROVE EveryCopyFits'
  BY <1>31, Processes, SourceAssumption DEF RowsInv, TypeOK, EveryCopyFits, Fits, NoRow,
     NoRows, UpdateConfig
<1>32. ASSUME NEW h \in Handler, UpdateRead(h) PROVE EveryCopyFits'
  <2>1. \A p \in Process : Fits(row'[p])
    <3>1. health[conf[h].key] \in HealthRow /\ Fits(health[conf[h].key])
      BY <1>32, Processes DEF RowsInv, TypeOK, Locals, UpdateRead, EveryCopyFits
    <3>2. CASE DropCopy(h)
      BY <3>2, FitsPut, FitsOfChanges, Processes
    <3>3. ASSUME NEW v \in {"zero", "later"},
                 row' = [row EXCEPT ![h] = [health[conf[h].key] EXCEPT !.next = v]]
          PROVE \A p \in Process : Fits(row'[p])
      <4>1. Fits([health[conf[h].key] EXCEPT !.next = v])
        BY <3>1, FitsOfChanges
      <4>2. QED
        BY <3>3, <4>1, FitsPut, Processes
    <3>4. QED
      BY <1>32, <3>2, <3>3, DateTypes DEF UpdateRead
  <2>2. QED
    BY <1>32, Processes, SourceAssumption, <2>1 DEF RowsInv, TypeOK, EveryCopyFits,
       UpdateRead
<1>33. ASSUME NEW h \in Handler, NEW id \in ConfigId, DeleteConfig(h, id) PROVE EveryCopyFits'
  BY <1>33, Processes, SourceAssumption DEF RowsInv, TypeOK, EveryCopyFits, Fits, NoRow,
     NoRows, DeleteConfig
<1>34. ASSUME NEW h \in Handler, DeleteHealth(h) PROVE EveryCopyFits'
  BY <1>34, Processes, SourceAssumption DEF RowsInv, TypeOK, EveryCopyFits, Fits, NoRow,
     NoRows, DeleteHealth
<1>35. ASSUME NEW h \in Handler, UpdateSchedule(h) PROVE EveryCopyFits'
  BY <1>35, Processes, SourceAssumption DEF RowsInv, TypeOK, EveryCopyFits, Fits, NoRow,
     NoRows, UpdateSchedule
<1>36. ASSUME NEW h \in Handler, RecalculateList(h) PROVE EveryCopyFits'
  BY <1>36, Processes, SourceAssumption DEF RowsInv, TypeOK, EveryCopyFits, Fits, NoRow,
     NoRows, RecalculateList
<1>37. ASSUME NEW h \in Handler, NEW K \in SUBSET Key, RequestChecks(h, K) PROVE EveryCopyFits'
  BY <1>37, Processes, SourceAssumption DEF RowsInv, TypeOK, EveryCopyFits, Fits, NoRow,
     NoRows, RequestChecks
<1>38. ASSUME NEW h \in Handler, NEW id \in ConfigId, ReadNext(h, id) PROVE EveryCopyFits'
  <2>1. kept[h][id].key \in Key
    BY <1>38, Processes DEF RowsInv, TypeOK, Locals, Listed, Config, ReadNext
  <2>2. \A p \in Process : Fits(row'[p])
    <3>1. PICK r \in RowsRead(kept[h][id].key) :
            row' = [row EXCEPT ![h] = IF pc[h] = "request"
                                      THEN Requested(r, kept[h][id], seen[h])
                                      ELSE Recalculated(r, kept[h][id], seen[h])]
      BY <1>38 DEF ReadNext
    <3>2. r \in HealthRow
      BY <2>1, RowsReadTypes DEF RowsInv
    <3>3. Fits(r)
      BY <2>1, FitsOfChanges, RowTypes DEF RowsInv, TypeOK, RowsRead, EveryCopyFits
    <3>4. /\ Fits(Requested(r, kept[h][id], seen[h]))
          /\ Fits(Recalculated(r, kept[h][id], seen[h]))
      BY <3>2, <3>3, FitsOfChecks
    <3>5. QED
      BY <3>1, <3>4, FitsPut, Processes
  <2>3. QED
    BY <1>38, Processes, SourceAssumption, <2>1, <2>2 DEF RowsInv, TypeOK, EveryCopyFits,
       ReadNext
<1>39. ASSUME NEW h \in Handler, WriteNext(h) PROVE EveryCopyFits'
  BY <1>39, Processes, SourceAssumption DEF RowsInv, TypeOK, EveryCopyFits, Fits, NoRow,
     NoRows, WriteNext
<1>40. ASSUME NEW h \in Handler, Answer(h) PROVE EveryCopyFits'
  BY <1>40, Processes, SourceAssumption DEF RowsInv, TypeOK, EveryCopyFits, Fits, NoRow,
     NoRows, Answer
<1>41. ASSUME NEW h \in Handler, HandlerFails(h) PROVE EveryCopyFits'
  BY <1>41, Processes, SourceAssumption DEF RowsInv, TypeOK, EveryCopyFits, Fits, NoRow,
     NoRows, HandlerFails
<1>42. ASSUME NEW k \in Key, DateComes(k) PROVE EveryCopyFits'
  BY <1>42, Processes, SourceAssumption DEF RowsInv, TypeOK, EveryCopyFits, Fits, NoRow,
     NoRows, DateComes
<1>43. ASSUME RestartWorker PROVE EveryCopyFits'
  BY <1>43, FitsOfChanges, Processes, SourceAssumption DEF RowsInv, TypeOK, EveryCopyFits,
     NoRows, Restart, RestartWorker
<1>44. ASSUME RestartApp PROVE EveryCopyFits'
  BY <1>44, FitsOfChanges, Processes, SourceAssumption DEF RowsInv, TypeOK, EveryCopyFits,
     NoRows, Restart, RestartApp
<1>45. QED
  BY <1>1, <1>2, <1>3, <1>4, <1>5, <1>6, <1>7, <1>8, <1>9, <1>10, <1>11, <1>12, <1>13,
     <1>14, <1>15, <1>16, <1>17, <1>18, <1>19, <1>20, <1>21, <1>22, <1>23, <1>24, <1>25,
     <1>26, <1>27, <1>28, <1>29, <1>30, <1>31, <1>32, <1>33, <1>34, <1>35, <1>36, <1>37,
     <1>38, <1>39, <1>40, <1>41, <1>42, <1>43, <1>44 DEF Next, LoopStep, GoroutineStep,
     StartupStep, HandlerStep, HandlerGoesOn

-----------------------------------------------------------------------------
(* Keys and checks: OneCheckPerSource *)

\* With two administrators, or when the list of keys cannot be read, a key may be
\* stored twice.
OneAdministrator ==
  /\ \A h1, h2 \in Handler : h1 = h2
  /\ Handler = {} \/ ~StoreMayFail

\* Keys are stored once, whoever is about to store one has found it free, and
\* what the pass has listed has each key once.
KeysApart ==
  /\ OneKeyEach(configs) /\ OneKeyEach(kept[Loop])
  /\ pc[Startup] \in {"seed", "seed_health"} => kept[Startup] = configs
  /\ \A h \in Handler :
       /\ pc[h] = "create" => ~Has(configs, conf[h].key)
       /\ pc[h] = "update" => cid[h] \in ConfigId /\ configs[cid[h]].key = conf[h].key
\* Nobody checks the source of what is still to be checked.
ChecksApart ==
  \A g \in Goroutine : \A id \in rest[Loop] :
     pc[Loop] = "checks" => ~Checking(g, kept[Loop][id].key)
OneInv == KeysApart /\ ChecksApart /\ OneCheckPerSource

LEMMA OneStep == ASSUME OneAdministrator, RowsInv, OneInv, Next PROVE OneInv'
<1>1. ASSUME StartWorker PROVE OneInv'
  BY <1>1, Processes, SourceAssumption DEF OneAdministrator, RowsInv, TypeOK, Phases,
     OneInv, KeysApart, OneKeyEach, ChecksApart, OneCheckPerSource, Checking, Has,
     NoConfigs, NoConfig, StartWorker
<1>2. ASSUME ListRunning PROVE OneInv'
  BY <1>2, Processes, SourceAssumption DEF OneAdministrator, RowsInv, TypeOK, Phases,
     OneInv, KeysApart, OneKeyEach, ChecksApart, OneCheckPerSource, Checking, Has,
     NoConfigs, NoConfig, ListRunning
<1>3. ASSUME NEW k \in Key, Reset(k) PROVE OneInv'
  BY <1>3, Processes, SourceAssumption DEF OneAdministrator, RowsInv, TypeOK, Phases,
     OneInv, KeysApart, OneKeyEach, ChecksApart, OneCheckPerSource, Checking, Has,
     NoConfigs, NoConfig, Reset
<1>4. ASSUME EndReset PROVE OneInv'
  BY <1>4, Processes, SourceAssumption DEF OneAdministrator, RowsInv, TypeOK, Phases,
     OneInv, KeysApart, OneKeyEach, ChecksApart, OneCheckPerSource, Checking, Has,
     NoConfigs, NoConfig, EndReset
<1>5. ASSUME ListConfigs PROVE OneInv'
  BY <1>5, Processes, SourceAssumption DEF OneAdministrator, RowsInv, TypeOK, Phases,
     OneInv, KeysApart, OneKeyEach, ChecksApart, OneCheckPerSource, Checking, Has,
     NoConfigs, NoConfig, ListConfigs
<1>6. ASSUME LoadSettings PROVE OneInv'
  BY <1>6, Processes, SourceAssumption DEF OneAdministrator, RowsInv, TypeOK, Phases,
     OneInv, KeysApart, OneKeyEach, ChecksApart, OneCheckPerSource, Checking, Has,
     NoConfigs, NoConfig, LoadSettings
<1>7. ASSUME ListHealth PROVE OneInv'
  BY <1>7, Processes, SourceAssumption DEF OneAdministrator, RowsInv, TypeOK, Phases,
     OneInv, KeysApart, OneKeyEach, ChecksApart, OneCheckPerSource, Checking, Has,
     NoConfigs, NoConfig, ListHealth
<1>8. ASSUME NEW id \in ConfigId, Skip(id) PROVE OneInv'
  BY <1>8, Processes, SourceAssumption DEF OneAdministrator, RowsInv, TypeOK, Phases,
     OneInv, KeysApart, OneKeyEach, ChecksApart, OneCheckPerSource, Checking, Has,
     NoConfigs, NoConfig, Skip
<1>9. ASSUME BeginChecks PROVE OneInv'
  BY <1>9, Processes, SourceAssumption DEF OneAdministrator, RowsInv, TypeOK, Phases,
     OneInv, KeysApart, OneKeyEach, ChecksApart, OneCheckPerSource, Checking, Has,
     NoConfigs, NoConfig, BeginChecks
<1>10. ASSUME EndPass PROVE OneInv'
  BY <1>10, Processes, SourceAssumption DEF OneAdministrator, RowsInv, TypeOK, Phases,
     OneInv, KeysApart, OneKeyEach, ChecksApart, OneCheckPerSource, Checking, Has,
     NoConfigs, NoConfig, EndPass
<1>11. ASSUME NEW g \in Goroutine, NEW id \in ConfigId, Take(g, id) PROVE OneInv'
  <2>1. KeysApart'
    BY <1>11, Processes, SourceAssumption DEF RowsInv, TypeOK, OneInv, KeysApart,
       OneKeyEach, Has, Take, Process
  <2>2. ChecksApart'
    <3>1. /\ OneKeyEach(kept[Loop]) /\ kept[Loop][id].key # None
          /\ rest[Loop] \subseteq Listed(kept[Loop])
      BY <1>11, Processes DEF RowsInv, Locals, OneInv, KeysApart, Take, Listed
    <3>2. /\ kept' = kept /\ rest'[Loop] = rest[Loop] \ {id} /\ conf'[g] = kept[Loop][id]
          /\ \A q \in Goroutine \ {g} : conf'[q] = conf[q] /\ pc'[q] = pc[q]
      BY <1>11, Processes, SourceAssumption DEF RowsInv, TypeOK, Take
    <3>3. ASSUME NEW q \in Goroutine, NEW j \in rest'[Loop] PROVE ~Checking(q, kept[Loop][j].key)'
      <4>1. /\ j \in rest[Loop]
            /\ j # id
            /\ j \in ConfigId
            /\ kept[Loop][j].key # kept[Loop][id].key
        BY <3>1, <3>2, <3>3 DEF OneKeyEach, Listed
      <4>2. CASE q = g
        BY <4>1, <4>2, <3>2 DEF Checking
      <4>3. CASE q # g
        BY <1>11, <4>1, <4>3, <3>2 DEF Checking, Take, OneInv, ChecksApart
      <4>4. QED
        BY <4>2, <4>3
    <3>4. QED
      BY <3>2, <3>3 DEF ChecksApart, Checking
  <2>3. OneCheckPerSource'
    <3>1. /\ conf'[g] = kept[Loop][id]
          /\ \A q \in Goroutine \ {g} : conf'[q] = conf[q] /\ pc'[q] = pc[q]
      BY <1>11, Processes, SourceAssumption DEF RowsInv, TypeOK, Take
    <3>2. \A q \in Goroutine : ~Checking(q, kept[Loop][id].key)
      BY <1>11 DEF Take, OneInv, ChecksApart
    <3>3. \A q \in Goroutine \ {g}, k \in Key : Checking(q, k)' <=> Checking(q, k)
      BY <3>1 DEF Checking
    <3>4. \A k \in Key : Checking(g, k)' => k = kept[Loop][id].key
      BY <3>1 DEF Checking
    <3>5. QED
      BY <3>2, <3>3, <3>4 DEF OneInv, OneCheckPerSource
  <2>4. QED
    BY <2>1, <2>2, <2>3 DEF OneInv
<1>12. ASSUME NEW g \in Goroutine, Start(g) PROVE OneInv'
  BY <1>12, Processes, SourceAssumption DEF OneAdministrator, RowsInv, TypeOK, Phases,
     OneInv, KeysApart, OneKeyEach, ChecksApart, OneCheckPerSource, Checking, Has,
     NoConfigs, NoConfig, Start
<1>13. ASSUME NEW g \in Goroutine, Fetch(g) PROVE OneInv'
  BY <1>13, Processes, SourceAssumption DEF OneAdministrator, RowsInv, TypeOK, Phases,
     OneInv, KeysApart, OneKeyEach, ChecksApart, OneCheckPerSource, Checking, Has,
     NoConfigs, NoConfig, Fetch
<1>14. ASSUME NEW g \in Goroutine, ReadLatest(g) PROVE OneInv'
  BY <1>14, Processes, SourceAssumption DEF OneAdministrator, RowsInv, TypeOK, Phases,
     OneInv, KeysApart, OneKeyEach, ChecksApart, OneCheckPerSource, Checking, Has,
     NoConfigs, NoConfig, ReadLatest
<1>15. ASSUME NEW g \in Goroutine, Finish(g) PROVE OneInv'
  <2>1. KeysApart'
    BY <1>15, Processes, SourceAssumption DEF RowsInv, TypeOK, OneInv, KeysApart,
       OneKeyEach, Has, Finish, EndCheck, Process
  <2>2. ChecksApart'
    BY <1>15, Processes, SourceAssumption DEF RowsInv, TypeOK, OneInv, ChecksApart,
       Checking, Finish, EndCheck
  <2>3. OneCheckPerSource'
    BY <1>15, Processes, SourceAssumption DEF RowsInv, TypeOK, OneInv, OneCheckPerSource,
       Checking, Finish, EndCheck
  <2>4. QED
    BY <2>1, <2>2, <2>3 DEF OneInv
<1>16. ASSUME SeedList PROVE OneInv'
  BY <1>16, Processes, SourceAssumption DEF OneAdministrator, RowsInv, TypeOK, Phases,
     OneInv, KeysApart, OneKeyEach, ChecksApart, OneCheckPerSource, Checking, Has,
     NoConfigs, NoConfig, SeedList
<1>17. ASSUME NEW k \in Key, SeedConfig(k) PROVE OneInv'
  <2>1. KeysApart'
    <3>1. PICK id \in ConfigId :
            /\ configs[id] = NoConfig
            /\ configs' = [configs EXCEPT ![id] = [key |-> k, mode |-> "auto"]]
            /\ kept' = [kept EXCEPT ![Startup][id] = [key |-> k, mode |-> "auto"]]
      BY <1>17 DEF SeedConfig, Free
    <3>2. kept[Startup] = configs /\ \A i \in ConfigId : configs[i].key # k
      BY <1>17 DEF SeedConfig, Unseeded, Has, OneInv, KeysApart
    <3>3. \A i \in ConfigId : configs'[i] = IF i = id THEN [key |-> k, mode |-> "auto"] ELSE configs[i]
      BY <3>1 DEF RowsInv, TypeOK
    <3>4. OneKeyEach(configs)'
      BY <3>2, <3>3 DEF OneKeyEach, OneInv, KeysApart
    <3>5. kept'[Startup] = configs' /\ kept'[Loop] = kept[Loop]
      BY <3>1, <3>2, Processes, SourceAssumption DEF RowsInv, TypeOK
    <3>6. \A h \in Handler : pc'[h] = "idle"
      BY <1>17, Processes, SourceAssumption DEF RowsInv, TypeOK, Phases, SeedConfig
    <3>7. QED
      BY <3>4, <3>5, <3>6 DEF OneInv, KeysApart, OneKeyEach
  <2>2. ChecksApart'
    BY <1>17, Processes, SourceAssumption DEF RowsInv, TypeOK, OneInv, ChecksApart,
       Checking, SeedConfig, Process
  <2>3. OneCheckPerSource'
    BY <1>17, Processes, SourceAssumption DEF RowsInv, TypeOK, OneInv, OneCheckPerSource,
       Checking, SeedConfig, Process
  <2>4. QED
    BY <2>1, <2>2, <2>3 DEF OneInv
<1>18. ASSUME SeedHealth PROVE OneInv'
  BY <1>18, Processes, SourceAssumption DEF OneAdministrator, RowsInv, TypeOK, Phases,
     OneInv, KeysApart, OneKeyEach, ChecksApart, OneCheckPerSource, Checking, Has,
     NoConfigs, NoConfig, SeedHealth
<1>19. ASSUME EndSeed PROVE OneInv'
  BY <1>19, Processes, SourceAssumption DEF OneAdministrator, RowsInv, TypeOK, Phases,
     OneInv, KeysApart, OneKeyEach, ChecksApart, OneCheckPerSource, Checking, Has,
     NoConfigs, NoConfig, EndSeed
<1>20. ASSUME EnsureList PROVE OneInv'
  BY <1>20, Processes, SourceAssumption DEF OneAdministrator, RowsInv, TypeOK, Phases,
     OneInv, KeysApart, OneKeyEach, ChecksApart, OneCheckPerSource, Checking, Has,
     NoConfigs, NoConfig, EnsureList
<1>21. ASSUME EnsureHealth PROVE OneInv'
  BY <1>21, Processes, SourceAssumption DEF OneAdministrator, RowsInv, TypeOK, Phases,
     OneInv, KeysApart, OneKeyEach, ChecksApart, OneCheckPerSource, Checking, Has,
     NoConfigs, NoConfig, EnsureHealth
<1>22. ASSUME NEW id \in ConfigId, EnsureRow(id) PROVE OneInv'
  BY <1>22, Processes, SourceAssumption DEF OneAdministrator, RowsInv, TypeOK, Phases,
     OneInv, KeysApart, OneKeyEach, ChecksApart, OneCheckPerSource, Checking, Has,
     NoConfigs, NoConfig, EnsureRow
<1>23. ASSUME EndEnsure PROVE OneInv'
  BY <1>23, Processes, SourceAssumption DEF OneAdministrator, RowsInv, TypeOK, Phases,
     OneInv, KeysApart, OneKeyEach, ChecksApart, OneCheckPerSource, Checking, Has,
     NoConfigs, NoConfig, EndEnsure
<1>24. ASSUME NEW id \in ConfigId, SyncSource(id) PROVE OneInv'
  BY <1>24, Processes, SourceAssumption DEF OneAdministrator, RowsInv, TypeOK, Phases,
     OneInv, KeysApart, OneKeyEach, ChecksApart, OneCheckPerSource, Checking, Has,
     NoConfigs, NoConfig, SyncSource
<1>25. ASSUME Serve PROVE OneInv'
  BY <1>25, Processes, SourceAssumption DEF OneAdministrator, RowsInv, TypeOK, Phases,
     OneInv, KeysApart, OneKeyEach, ChecksApart, OneCheckPerSource, Checking, Has,
     NoConfigs, NoConfig, Serve
<1>26. ASSUME StartupFails PROVE OneInv'
  BY <1>26, Processes, SourceAssumption DEF OneAdministrator, RowsInv, TypeOK, Phases,
     OneInv, KeysApart, OneKeyEach, ChecksApart, OneCheckPerSource, Checking, Has,
     NoConfigs, NoConfig, StartupFails
<1>27. ASSUME NEW h \in Handler, NEW k \in Key, CreateSource(h, k) PROVE OneInv'
  <2>1. KeysApart'
    <3>1. StoreMayFail = FALSE /\ \A i \in ConfigId : configs[i].key # k
      BY <1>27 DEF OneAdministrator, CreateSource, KeyIsFree, Has
    <3>2. conf'[h].key = k /\ configs' = configs /\ kept' = kept /\ pc'[h] = "create"
            /\ \A q \in Handler : q = h
      BY <1>27, Processes DEF RowsInv, TypeOK, CreateSource, OneAdministrator
    <3>3. pc'[Startup] = "serving"
      BY <1>27, Processes, SourceAssumption DEF RowsInv, TypeOK, CreateSource, Serving
    <3>4. QED
      BY <3>1, <3>2, <3>3 DEF OneInv, KeysApart, OneKeyEach, Has
  <2>2. ChecksApart'
    BY <1>27, Processes, SourceAssumption DEF RowsInv, TypeOK, OneInv, ChecksApart,
       Checking, CreateSource, Process
  <2>3. OneCheckPerSource'
    BY <1>27, Processes, SourceAssumption DEF RowsInv, TypeOK, OneInv, OneCheckPerSource,
       Checking, CreateSource, Process
  <2>4. QED
    BY <2>1, <2>2, <2>3 DEF OneInv
<1>28. ASSUME NEW h \in Handler, CreateConfig(h) PROVE OneInv'
  BY <1>28, Processes, SourceAssumption DEF OneAdministrator, RowsInv, TypeOK, Phases,
     OneInv, KeysApart, OneKeyEach, ChecksApart, OneCheckPerSource, Checking, Has,
     NoConfigs, NoConfig, CreateConfig
<1>29. ASSUME NEW h \in Handler, CreateHealth(h) PROVE OneInv'
  BY <1>29, Processes, SourceAssumption DEF OneAdministrator, RowsInv, TypeOK, Phases,
     OneInv, KeysApart, OneKeyEach, ChecksApart, OneCheckPerSource, Checking, Has,
     NoConfigs, NoConfig, CreateHealth
<1>30. ASSUME NEW h \in Handler, NEW id \in ConfigId, UpdateSource(h, id) PROVE OneInv'
  BY <1>30, Processes, SourceAssumption DEF OneAdministrator, RowsInv, TypeOK, Phases,
     OneInv, KeysApart, OneKeyEach, ChecksApart, OneCheckPerSource, Checking, Has,
     NoConfigs, NoConfig, UpdateSource
<1>31. ASSUME NEW h \in Handler, UpdateConfig(h) PROVE OneInv'
  BY <1>31, Processes, SourceAssumption DEF OneAdministrator, RowsInv, TypeOK, Phases,
     OneInv, KeysApart, OneKeyEach, ChecksApart, OneCheckPerSource, Checking, Has,
     NoConfigs, NoConfig, UpdateConfig
<1>32. ASSUME NEW h \in Handler, UpdateRead(h) PROVE OneInv'
  <2>1. KeysApart'
    <3>1. configs' = configs /\ kept' = kept /\ pc'[h] \in {"idle", "update_write"}
            /\ pc'[Startup] = pc[Startup] /\ \A q \in Handler : q = h
      BY <1>32, Processes, SourceAssumption DEF RowsInv, TypeOK, UpdateRead,
         OneAdministrator
    <3>2. QED
      BY <3>1 DEF OneInv, KeysApart, OneKeyEach
  <2>2. ChecksApart'
    <3>1. kept' = kept /\ rest' = rest /\ pc'[Loop] = pc[Loop]
            /\ \A g \in Goroutine : pc'[g] = pc[g] /\ conf'[g] = conf[g]
      BY <1>32, Processes, SourceAssumption DEF RowsInv, TypeOK, UpdateRead
    <3>2. QED
      BY <3>1 DEF OneInv, ChecksApart, Checking
  <2>3. OneCheckPerSource'
    <3>1. \A g \in Goroutine : pc'[g] = pc[g] /\ conf'[g] = conf[g]
      BY <1>32, Processes, SourceAssumption DEF RowsInv, TypeOK, UpdateRead
    <3>2. QED
      BY <3>1 DEF OneInv, OneCheckPerSource, Checking
  <2>4. QED
    BY <2>1, <2>2, <2>3 DEF OneInv
<1>33. ASSUME NEW h \in Handler, NEW id \in ConfigId, DeleteConfig(h, id) PROVE OneInv'
  <2>1. KeysApart'
    <3>1. \A i \in ConfigId : configs'[i] = IF i = id THEN NoConfig ELSE configs[i]
      BY <1>33 DEF RowsInv, TypeOK, DeleteConfig
    <3>2. /\ kept' = kept
          /\ pc'[h] = "delete_health"
          /\ pc'[Startup] = "serving"
          /\ \A q \in Handler : q = h
      BY <1>33, Processes, SourceAssumption DEF RowsInv, TypeOK, DeleteConfig, Serving,
         OneAdministrator
    <3>3. QED
      BY <3>1, <3>2 DEF OneInv, KeysApart, OneKeyEach, NoConfig
  <2>2. ChecksApart'
    BY <1>33, Processes, SourceAssumption DEF RowsInv, TypeOK, OneInv, ChecksApart,
       Checking, DeleteConfig, Serving, Process
  <2>3. OneCheckPerSource'
    BY <1>33, Processes, SourceAssumption DEF RowsInv, TypeOK, OneInv, OneCheckPerSource,
       Checking, DeleteConfig, Serving, Process
  <2>4. QED
    BY <2>1, <2>2, <2>3 DEF OneInv
<1>34. ASSUME NEW h \in Handler, DeleteHealth(h) PROVE OneInv'
  BY <1>34, Processes, SourceAssumption DEF OneAdministrator, RowsInv, TypeOK, Phases,
     OneInv, KeysApart, OneKeyEach, ChecksApart, OneCheckPerSource, Checking, Has,
     NoConfigs, NoConfig, DeleteHealth
<1>35. ASSUME NEW h \in Handler, UpdateSchedule(h) PROVE OneInv'
  BY <1>35, Processes, SourceAssumption DEF OneAdministrator, RowsInv, TypeOK, Phases,
     OneInv, KeysApart, OneKeyEach, ChecksApart, OneCheckPerSource, Checking, Has,
     NoConfigs, NoConfig, UpdateSchedule
<1>36. ASSUME NEW h \in Handler, RecalculateList(h) PROVE OneInv'
  BY <1>36, Processes, SourceAssumption DEF OneAdministrator, RowsInv, TypeOK, Phases,
     OneInv, KeysApart, OneKeyEach, ChecksApart, OneCheckPerSource, Checking, Has,
     NoConfigs, NoConfig, RecalculateList
<1>37. ASSUME NEW h \in Handler, NEW K \in SUBSET Key, RequestChecks(h, K) PROVE OneInv'
  BY <1>37, Processes, SourceAssumption DEF OneAdministrator, RowsInv, TypeOK, Phases,
     OneInv, KeysApart, OneKeyEach, ChecksApart, OneCheckPerSource, Checking, Has,
     NoConfigs, NoConfig, RequestChecks
<1>38. ASSUME NEW h \in Handler, NEW id \in ConfigId, ReadNext(h, id) PROVE OneInv'
  BY <1>38, Processes, SourceAssumption DEF OneAdministrator, RowsInv, TypeOK, Phases,
     OneInv, KeysApart, OneKeyEach, ChecksApart, OneCheckPerSource, Checking, Has,
     NoConfigs, NoConfig, ReadNext
<1>39. ASSUME NEW h \in Handler, WriteNext(h) PROVE OneInv'
  BY <1>39, Processes, SourceAssumption DEF OneAdministrator, RowsInv, TypeOK, Phases,
     OneInv, KeysApart, OneKeyEach, ChecksApart, OneCheckPerSource, Checking, Has,
     NoConfigs, NoConfig, WriteNext
<1>40. ASSUME NEW h \in Handler, Answer(h) PROVE OneInv'
  BY <1>40, Processes, SourceAssumption DEF OneAdministrator, RowsInv, TypeOK, Phases,
     OneInv, KeysApart, OneKeyEach, ChecksApart, OneCheckPerSource, Checking, Has,
     NoConfigs, NoConfig, Answer
<1>41. ASSUME NEW h \in Handler, HandlerFails(h) PROVE OneInv'
  BY <1>41, Processes, SourceAssumption DEF OneAdministrator, RowsInv, TypeOK, Phases,
     OneInv, KeysApart, OneKeyEach, ChecksApart, OneCheckPerSource, Checking, Has,
     NoConfigs, NoConfig, HandlerFails
<1>42. ASSUME NEW k \in Key, DateComes(k) PROVE OneInv'
  BY <1>42, Processes, SourceAssumption DEF OneAdministrator, RowsInv, TypeOK, Phases,
     OneInv, KeysApart, OneKeyEach, ChecksApart, OneCheckPerSource, Checking, Has,
     NoConfigs, NoConfig, DateComes
<1>43. ASSUME RestartWorker PROVE OneInv'
  <2>1. KeysApart'
    <3>1. configs' = configs /\ kept'[Loop] = NoConfigs /\ kept'[Startup] = kept[Startup]
            /\ pc'[Startup] = pc[Startup]
            /\ \A h \in Handler : pc'[h] = pc[h] /\ conf'[h] = conf[h] /\ cid'[h] = cid[h]
      BY <1>43, Processes, SourceAssumption DEF RestartWorker, Restart
    <3>2. QED
      BY <3>1 DEF OneInv, KeysApart, OneKeyEach, NoConfigs, NoConfig, Has
  <2>2. ChecksApart'
    BY <1>43, Processes DEF RestartWorker, Restart, ChecksApart
  <2>3. OneCheckPerSource'
    <3>1. \A g \in Goroutine : pc'[g] = "idle"
      BY <1>43, Processes, SourceAssumption DEF RestartWorker, Restart
    <3>2. QED
      BY <3>1 DEF OneCheckPerSource, Checking
  <2>4. QED
    BY <2>1, <2>2, <2>3 DEF OneInv
<1>44. ASSUME RestartApp PROVE OneInv'
  <2>1. KeysApart'
    <3>1. configs' = configs /\ kept'[Loop] = kept[Loop] /\ pc'[Startup] = "seed_list"
            /\ \A h \in Handler : pc'[h] = "idle"
      BY <1>44, Processes, SourceAssumption DEF RestartApp, Restart
    <3>2. QED
      BY <3>1 DEF OneInv, KeysApart, OneKeyEach
  <2>2. ChecksApart'
    <3>1. /\ kept'[Loop] = kept[Loop] /\ rest'[Loop] = rest[Loop] /\ pc'[Loop] = pc[Loop]
          /\ \A g \in Goroutine : pc'[g] = pc[g] /\ conf'[g] = conf[g]
      BY <1>44, Processes, SourceAssumption DEF RestartApp, Restart
    <3>2. QED
      BY <3>1 DEF OneInv, ChecksApart, Checking
  <2>3. OneCheckPerSource'
    <3>1. \A g \in Goroutine : pc'[g] = pc[g] /\ conf'[g] = conf[g]
      BY <1>44, Processes, SourceAssumption DEF RestartApp, Restart
    <3>2. QED
      BY <3>1 DEF OneInv, OneCheckPerSource, Checking
  <2>4. QED
    BY <2>1, <2>2, <2>3 DEF OneInv
<1>45. QED
  BY <1>1, <1>2, <1>3, <1>4, <1>5, <1>6, <1>7, <1>8, <1>9, <1>10, <1>11, <1>12, <1>13,
     <1>14, <1>15, <1>16, <1>17, <1>18, <1>19, <1>20, <1>21, <1>22, <1>23, <1>24, <1>25,
     <1>26, <1>27, <1>28, <1>29, <1>30, <1>31, <1>32, <1>33, <1>34, <1>35, <1>36, <1>37,
     <1>38, <1>39, <1>40, <1>41, <1>42, <1>43, <1>44 DEF Next, LoopStep, GoroutineStep,
     StartupStep, HandlerStep, HandlerGoesOn

-----------------------------------------------------------------------------
(* The running mark: RunningIsOwned *)

\* What the loop writes back of a row, and a goroutine after its check, is not
\* running.
NoMarkIsKept ==
  /\ pc[Loop] = "skip" => \A k \in Key : rows[Loop][k].run # "running"
  /\ \A g \in Goroutine : pc[g] \in {"latest", "finish"} => row[g].run # "running"

LEMMA MarkStep ==
  ASSUME RowsInv, Handler = {}, ~StoreMayFail, NoMarkIsKept, RunningIsOwned, Next
  PROVE  (NoMarkIsKept /\ RunningIsOwned)'
<1>1. ASSUME StartWorker PROVE (NoMarkIsKept /\ RunningIsOwned)'
  BY <1>1, Processes, SourceAssumption DEF RowsInv, TypeOK, Phases, NoMarkIsKept,
     RunningIsOwned, Checking, LeftRunning, NoRow, NoRows, StartWorker
<1>2. ASSUME ListRunning PROVE (NoMarkIsKept /\ RunningIsOwned)'
  BY <1>2, Processes, SourceAssumption DEF RowsInv, TypeOK, Phases, NoMarkIsKept,
     RunningIsOwned, Checking, LeftRunning, NoRow, NoRows, ListRunning
<1>3. ASSUME NEW k \in Key, Reset(k) PROVE (NoMarkIsKept /\ RunningIsOwned)'
  <2>1. NoMarkIsKept'
    BY <1>3, Processes, SourceAssumption DEF RowsInv, TypeOK, NoMarkIsKept, Reset
  <2>2. RunningIsOwned'
    <3>1. /\ pc[Loop] = "reset"
          /\ pc' = pc
          /\ conf' = conf
          /\ rows' = [rows EXCEPT ![Loop][k].run = "idle"]
            /\ health' = [health EXCEPT ![k] = [rows[Loop][k] EXCEPT !.run = "idle"]]
      BY <1>3 DEF Reset
    <3>2. health'[k].run = "idle" /\ \A q \in Key \ {k} : health'[q] = health[q] /\ rows'[Loop][q] = rows[Loop][q]
      BY <3>1, Processes, RunTypes DEF RowsInv, TypeOK
    <3>3. QED
      BY <3>1, <3>2 DEF RunningIsOwned, Checking, LeftRunning
  <2>3. QED
    BY <2>1, <2>2
<1>4. ASSUME EndReset PROVE (NoMarkIsKept /\ RunningIsOwned)'
  BY <1>4, Processes, SourceAssumption DEF RowsInv, TypeOK, Phases, NoMarkIsKept,
     RunningIsOwned, Checking, LeftRunning, NoRow, NoRows, EndReset
<1>5. ASSUME ListConfigs PROVE (NoMarkIsKept /\ RunningIsOwned)'
  BY <1>5, Processes, SourceAssumption DEF RowsInv, TypeOK, Phases, NoMarkIsKept,
     RunningIsOwned, Checking, LeftRunning, NoRow, NoRows, ListConfigs
<1>6. ASSUME LoadSettings PROVE (NoMarkIsKept /\ RunningIsOwned)'
  BY <1>6, Processes, SourceAssumption DEF RowsInv, TypeOK, Phases, NoMarkIsKept,
     RunningIsOwned, Checking, LeftRunning, NoRow, NoRows, LoadSettings
<1>7. ASSUME ListHealth PROVE (NoMarkIsKept /\ RunningIsOwned)'
  BY <1>7, Processes, SourceAssumption DEF RowsInv, TypeOK, Phases, NoMarkIsKept,
     RunningIsOwned, Checking, LeftRunning, NoRow, NoRows, ListHealth
<1>8. ASSUME NEW id \in ConfigId, Skip(id) PROVE (NoMarkIsKept /\ RunningIsOwned)'
  <2>1. NoMarkIsKept'
    BY <1>8 DEF NoMarkIsKept, Skip
  <2>2. RunningIsOwned'
    <3>1. kept[Loop][id].key \in Key /\ pc[Loop] = "skip" /\ pc' = pc /\ conf' = conf
            /\ health' = [health EXCEPT ![kept[Loop][id].key] =
                 [rows[Loop][kept[Loop][id].key] EXCEPT !.request = "none", !.last = "other"]]
      BY <1>8 DEF RowsInv, Lists, Skip
    <3>2. /\ rows[Loop][kept[Loop][id].key] \in HealthRow
          /\ rows[Loop][kept[Loop][id].key].run # "running"
      BY <3>1, Processes DEF RowsInv, TypeOK, NoMarkIsKept
    <3>3. health'[kept[Loop][id].key].run # "running"
      BY <3>1, <3>2, SkippedTypes DEF RowsInv, TypeOK
    <3>4. \A q \in Key : health'[q].run = "running" => health[q].run = "running"
      BY <3>1, <3>3 DEF RowsInv, TypeOK
    <3>5. QED
      BY <3>1, <3>4 DEF RunningIsOwned, Checking, LeftRunning
  <2>3. QED
    BY <2>1, <2>2
<1>9. ASSUME BeginChecks PROVE (NoMarkIsKept /\ RunningIsOwned)'
  BY <1>9, Processes, SourceAssumption DEF RowsInv, TypeOK, Phases, NoMarkIsKept,
     RunningIsOwned, Checking, LeftRunning, NoRow, NoRows, BeginChecks
<1>10. ASSUME EndPass PROVE (NoMarkIsKept /\ RunningIsOwned)'
  BY <1>10, Processes, SourceAssumption DEF RowsInv, TypeOK, Phases, NoMarkIsKept,
     RunningIsOwned, Checking, LeftRunning, NoRow, NoRows, EndPass
<1>11. ASSUME NEW g \in Goroutine, NEW id \in ConfigId, Take(g, id) PROVE (NoMarkIsKept /\ RunningIsOwned)'
  <2>1. NoMarkIsKept'
    BY <1>11, Processes, SourceAssumption DEF RowsInv, TypeOK, NoMarkIsKept, Take
  <2>2. RunningIsOwned'
    <3>1. /\ /\ pc[Loop] = "checks"
          /\ pc'[Loop] = pc[Loop]
          /\ health' = health
          /\ pc[g] = "idle"
          /\ \A q \in Goroutine \ {g} : conf'[q] = conf[q] /\ pc'[q] = pc[q]
      BY <1>11, Processes, SourceAssumption DEF RowsInv, TypeOK, Take
    <3>2. QED
      BY <3>1 DEF RunningIsOwned, Checking, LeftRunning
  <2>3. QED
    BY <2>1, <2>2
<1>12. ASSUME NEW g \in Goroutine, Start(g) PROVE (NoMarkIsKept /\ RunningIsOwned)'
  BY <1>12, Processes, SourceAssumption DEF RowsInv, TypeOK, Phases, NoMarkIsKept,
     RunningIsOwned, Checking, LeftRunning, NoRow, NoRows, Start
<1>13. ASSUME NEW g \in Goroutine, Fetch(g) PROVE (NoMarkIsKept /\ RunningIsOwned)'
  <2>1. NoMarkIsKept'
    <3>1. row'[g].run # "running"
      <4>1. PICK ok \in BOOLEAN, date \in {"zero", "later", "due"} :
              row' = [row EXCEPT ![g] = Finished(row[g], ok, date)]
        BY <1>13, DateTypes DEF Fetch
      <4>2. QED
        BY <4>1, FinishedTypes, Processes DEF RowsInv, TypeOK
    <3>2. rows' = rows /\ pc'[Loop] = pc[Loop] /\ \A q \in Goroutine \ {g} : row'[q] = row[q] /\ pc'[q] = pc[q]
      BY <1>13, Processes, SourceAssumption DEF RowsInv, TypeOK, Fetch
    <3>3. QED
      BY <3>1, <3>2 DEF NoMarkIsKept
  <2>2. RunningIsOwned'
    <3>1. /\ /\ pc[g] = "fetch"
          /\ pc'[g] = "latest"
          /\ pc'[Loop] = pc[Loop]
          /\ health' = health
          /\ rows' = rows /\ conf' = conf /\ \A q \in Goroutine \ {g} : pc'[q] = pc[q]
      BY <1>13, Processes, SourceAssumption DEF RowsInv, TypeOK, Fetch
    <3>2. \A q \in Goroutine, k \in Key : Checking(q, k) => Checking(q, k)'
      BY <3>1 DEF Checking
    <3>3. QED
      BY <3>1, <3>2 DEF RunningIsOwned, LeftRunning
  <2>3. QED
    BY <2>1, <2>2
<1>14. ASSUME NEW g \in Goroutine, ReadLatest(g) PROVE (NoMarkIsKept /\ RunningIsOwned)'
  <2>1. NoMarkIsKept'
    <3>1. row'[g].run # "running"
      <4>1. row[g] \in HealthRow /\ row[g].run # "running"
        BY <1>14, Processes DEF RowsInv, TypeOK, NoMarkIsKept, ReadLatest
      <4>2. PICK v \in {"pending", row[g].request} :
              row' = [row EXCEPT ![g] = [row[g] EXCEPT !.request = v]] \/ row' = row
        BY <1>14 DEF ReadLatest
      <4>3. [row[g] EXCEPT !.request = v].run = row[g].run
        BY <4>1, RequestTypes DEF HealthRow
      <4>4. QED
        BY <4>1, <4>2, <4>3, Processes DEF RowsInv, TypeOK
    <3>2. rows' = rows /\ pc'[Loop] = pc[Loop] /\ \A q \in Goroutine \ {g} : row'[q] = row[q] /\ pc'[q] = pc[q]
      BY <1>14, Processes, SourceAssumption DEF RowsInv, TypeOK, ReadLatest
    <3>3. QED
      BY <3>1, <3>2 DEF NoMarkIsKept
  <2>2. RunningIsOwned'
    <3>1. /\ /\ pc[g] = "latest"
          /\ pc'[g] = "finish"
          /\ pc'[Loop] = pc[Loop]
          /\ health' = health
          /\ rows' = rows /\ conf' = conf /\ \A q \in Goroutine \ {g} : pc'[q] = pc[q]
      BY <1>14, Processes, SourceAssumption DEF RowsInv, TypeOK, ReadLatest
    <3>2. \A q \in Goroutine, k \in Key : Checking(q, k) => Checking(q, k)'
      BY <3>1 DEF Checking
    <3>3. QED
      BY <3>1, <3>2 DEF RunningIsOwned, LeftRunning
  <2>3. QED
    BY <2>1, <2>2
<1>15. ASSUME NEW g \in Goroutine, Finish(g) PROVE (NoMarkIsKept /\ RunningIsOwned)'
  <2>1. NoMarkIsKept'
    <3>1. rows' = rows /\ pc'[Loop] = pc[Loop] /\ pc'[g] = "idle"
            /\ \A q \in Goroutine \ {g} : row'[q] = row[q] /\ pc'[q] = pc[q]
      BY <1>15, Processes, SourceAssumption DEF RowsInv, TypeOK, Finish, EndCheck
    <3>2. QED
      BY <3>1 DEF NoMarkIsKept
  <2>2. RunningIsOwned'
    <3>1. /\ rows' = rows
          /\ pc'[Loop] = pc[Loop]
          /\ conf[g].key \in Key
          /\ row[g].run # "running"
            /\ \A q \in Goroutine \ {g} : conf'[q] = conf[q] /\ pc'[q] = pc[q]
      BY <1>15, Processes, SourceAssumption DEF RowsInv, TypeOK, Locals, Writes, Finish,
         EndCheck, NoMarkIsKept
    <3>2. \A k \in Key : health'[k] = IF k = conf[g].key THEN row[g] ELSE health[k]
      BY <1>15 DEF RowsInv, TypeOK, Finish
    <3>3. \A k \in Key, q \in Goroutine : Checking(q, k) /\ k # conf[g].key => Checking(q, k)'
      BY <3>1 DEF Checking
    <3>4. QED
      BY <3>1, <3>2, <3>3 DEF RunningIsOwned, LeftRunning
  <2>3. QED
    BY <2>1, <2>2
<1>16. ASSUME SeedList PROVE (NoMarkIsKept /\ RunningIsOwned)'
  BY <1>16, Processes, SourceAssumption DEF RowsInv, TypeOK, Phases, NoMarkIsKept,
     RunningIsOwned, Checking, LeftRunning, NoRow, NoRows, SeedList
<1>17. ASSUME NEW k \in Key, SeedConfig(k) PROVE (NoMarkIsKept /\ RunningIsOwned)'
  BY <1>17, Processes, SourceAssumption DEF RowsInv, TypeOK, Phases, NoMarkIsKept,
     RunningIsOwned, Checking, LeftRunning, NoRow, NoRows, SeedConfig
<1>18. ASSUME SeedHealth PROVE (NoMarkIsKept /\ RunningIsOwned)'
  <2>1. NoMarkIsKept'
    <3>1. /\ pc'[Loop] = pc[Loop] /\ rows'[Loop] = rows[Loop]
          /\ \A g \in Goroutine : pc'[g] = pc[g] /\ conf'[g] = conf[g] /\ row'[g] = row[g]
      BY <1>18, Processes, SourceAssumption DEF RowsInv, TypeOK, SeedHealth
    <3>2. QED
      BY <3>1 DEF NoMarkIsKept
  <2>2. RunningIsOwned'
    <3>1. /\ pc'[Loop] = pc[Loop] /\ rows'[Loop] = rows[Loop]
          /\ \A g \in Goroutine : pc'[g] = pc[g] /\ conf'[g] = conf[g] /\ row'[g] = row[g]
      BY <1>18, Processes, SourceAssumption DEF RowsInv, TypeOK, SeedHealth
    <3>2. \A k \in Key : health'[k].run = "running" => health[k].run = "running"
      BY <1>18, RowTypes DEF RowsInv, TypeOK, SeedHealth
    <3>3. QED
      BY <3>1, <3>2 DEF RunningIsOwned, Checking, LeftRunning
  <2>3. QED
    BY <2>1, <2>2
<1>19. ASSUME EndSeed PROVE (NoMarkIsKept /\ RunningIsOwned)'
  BY <1>19, Processes, SourceAssumption DEF RowsInv, TypeOK, Phases, NoMarkIsKept,
     RunningIsOwned, Checking, LeftRunning, NoRow, NoRows, EndSeed
<1>20. ASSUME EnsureList PROVE (NoMarkIsKept /\ RunningIsOwned)'
  BY <1>20, Processes, SourceAssumption DEF RowsInv, TypeOK, Phases, NoMarkIsKept,
     RunningIsOwned, Checking, LeftRunning, NoRow, NoRows, EnsureList
<1>21. ASSUME EnsureHealth PROVE (NoMarkIsKept /\ RunningIsOwned)'
  BY <1>21, Processes, SourceAssumption DEF RowsInv, TypeOK, Phases, NoMarkIsKept,
     RunningIsOwned, Checking, LeftRunning, NoRow, NoRows, EnsureHealth
<1>22. ASSUME NEW id \in ConfigId, EnsureRow(id) PROVE (NoMarkIsKept /\ RunningIsOwned)'
  <2>1. NoMarkIsKept'
    <3>1. /\ pc'[Loop] = pc[Loop] /\ rows'[Loop] = rows[Loop]
          /\ \A g \in Goroutine : pc'[g] = pc[g] /\ conf'[g] = conf[g] /\ row'[g] = row[g]
      BY <1>22, Processes, SourceAssumption DEF RowsInv, TypeOK, EnsureRow
    <3>2. QED
      BY <3>1 DEF NoMarkIsKept
  <2>2. RunningIsOwned'
    <3>1. /\ pc'[Loop] = pc[Loop] /\ rows'[Loop] = rows[Loop]
          /\ \A g \in Goroutine : pc'[g] = pc[g] /\ conf'[g] = conf[g] /\ row'[g] = row[g]
      BY <1>22, Processes, SourceAssumption DEF RowsInv, TypeOK, EnsureRow
    <3>2. \A k \in Key : health'[k].run = "running" => health[k].run = "running"
      <4>1. kept[Startup][id].key \in Key
        BY <1>22, Processes DEF RowsInv, TypeOK, Locals, Listed, Config, EnsureRow
      <4>2. rows[Startup][kept[Startup][id].key] \in HealthRow
        BY <4>1, Processes DEF RowsInv, TypeOK
      <4>3. QED
        BY <1>22, <4>2, EnsuredTypes DEF RowsInv, TypeOK, EnsureRow
    <3>3. QED
      BY <3>1, <3>2 DEF RunningIsOwned, Checking, LeftRunning
  <2>3. QED
    BY <2>1, <2>2
<1>23. ASSUME EndEnsure PROVE (NoMarkIsKept /\ RunningIsOwned)'
  BY <1>23, Processes, SourceAssumption DEF RowsInv, TypeOK, Phases, NoMarkIsKept,
     RunningIsOwned, Checking, LeftRunning, NoRow, NoRows, EndEnsure
<1>24. ASSUME NEW id \in ConfigId, SyncSource(id) PROVE (NoMarkIsKept /\ RunningIsOwned)'
  <2>1. NoMarkIsKept'
    <3>1. /\ pc'[Loop] = pc[Loop] /\ rows'[Loop] = rows[Loop]
          /\ \A g \in Goroutine : pc'[g] = pc[g] /\ conf'[g] = conf[g] /\ row'[g] = row[g]
      BY <1>24, Processes, SourceAssumption DEF RowsInv, TypeOK, SyncSource
    <3>2. QED
      BY <3>1 DEF NoMarkIsKept
  <2>2. RunningIsOwned'
    <3>1. /\ pc'[Loop] = pc[Loop] /\ rows'[Loop] = rows[Loop]
          /\ \A g \in Goroutine : pc'[g] = pc[g] /\ conf'[g] = conf[g] /\ row'[g] = row[g]
      BY <1>24, Processes, SourceAssumption DEF RowsInv, TypeOK, SyncSource
    <3>2. \A k \in Key : health'[k].run = "running" => health[k].run = "running"
      <4> DEFINE k == configs[id].key
                 r == Read(health[k])
                 date == FirstDate(configs[id].mode, paused)
                 count == IF health[k].run # "absent" THEN 0 ELSE 1
                 last(ok) == IF ok THEN "success" ELSE "failed"
                 new(ok) == [r EXCEPT !.last = last(ok), !.failures = count, !.next = date]
      <4>1. k \in Key /\ health[k] \in HealthRow
        BY <1>24, Processes DEF RowsInv, TypeOK, Lists, Listed, Config, SyncSource
      <4>2. PICK ok \in BOOLEAN : WriteRow(k, new(ok))
        BY <1>24 DEF SyncSource
      <4>3. /\ last(ok) \in {"success", "failed"}
            /\ count \in 0..1
            /\ date \in {"zero", "later"}
        BY DateTypes
      <4>4. r \in HealthRow /\ (r.run = "running" => health[k].run = "running")
        BY <4>1, ReadTypes DEF Read, HealthRow
      <4> HIDE DEF last, count, date, r
      <4>5. new(ok).run = r.run
        <5>1. r \in HealthRow
          BY <4>4
        <5>2. QED
          BY <5>1, <4>3, SyncedTypes, ZenonT(30)
      <4> HIDE DEF new
      <4>6. QED
        BY <4>1, <4>2, <4>4, <4>5 DEF RowsInv, TypeOK
    <3>3. QED
      BY <3>1, <3>2 DEF RunningIsOwned, Checking, LeftRunning
  <2>3. QED
    BY <2>1, <2>2
<1>25. ASSUME Serve PROVE (NoMarkIsKept /\ RunningIsOwned)'
  BY <1>25, Processes, SourceAssumption DEF RowsInv, TypeOK, Phases, NoMarkIsKept,
     RunningIsOwned, Checking, LeftRunning, NoRow, NoRows, Serve
<1>26. ASSUME StartupFails PROVE (NoMarkIsKept /\ RunningIsOwned)'
  BY <1>26, Processes, SourceAssumption DEF RowsInv, TypeOK, Phases, NoMarkIsKept,
     RunningIsOwned, Checking, LeftRunning, NoRow, NoRows, StartupFails
<1>27. ASSUME NEW h \in Handler, NEW k \in Key, CreateSource(h, k) PROVE (NoMarkIsKept /\ RunningIsOwned)'
  BY <1>27, Processes, SourceAssumption DEF RowsInv, TypeOK, Phases, NoMarkIsKept,
     RunningIsOwned, Checking, LeftRunning, NoRow, NoRows, CreateSource
<1>28. ASSUME NEW h \in Handler, CreateConfig(h) PROVE (NoMarkIsKept /\ RunningIsOwned)'
  BY <1>28, Processes, SourceAssumption DEF RowsInv, TypeOK, Phases, NoMarkIsKept,
     RunningIsOwned, Checking, LeftRunning, NoRow, NoRows, CreateConfig
<1>29. ASSUME NEW h \in Handler, CreateHealth(h) PROVE (NoMarkIsKept /\ RunningIsOwned)'
  BY <1>29, Processes, SourceAssumption DEF RowsInv, TypeOK, Phases, NoMarkIsKept,
     RunningIsOwned, Checking, LeftRunning, NoRow, NoRows, CreateHealth
<1>30. ASSUME NEW h \in Handler, NEW id \in ConfigId, UpdateSource(h, id) PROVE (NoMarkIsKept /\ RunningIsOwned)'
  BY <1>30, Processes, SourceAssumption DEF RowsInv, TypeOK, Phases, NoMarkIsKept,
     RunningIsOwned, Checking, LeftRunning, NoRow, NoRows, UpdateSource
<1>31. ASSUME NEW h \in Handler, UpdateConfig(h) PROVE (NoMarkIsKept /\ RunningIsOwned)'
  BY <1>31, Processes, SourceAssumption DEF RowsInv, TypeOK, Phases, NoMarkIsKept,
     RunningIsOwned, Checking, LeftRunning, NoRow, NoRows, UpdateConfig
<1>32. ASSUME NEW h \in Handler, UpdateRead(h) PROVE (NoMarkIsKept /\ RunningIsOwned)'
  BY <1>32, Processes, SourceAssumption DEF RowsInv, TypeOK, Phases, NoMarkIsKept,
     RunningIsOwned, Checking, LeftRunning, NoRow, NoRows, UpdateRead
<1>33. ASSUME NEW h \in Handler, NEW id \in ConfigId, DeleteConfig(h, id) PROVE (NoMarkIsKept /\ RunningIsOwned)'
  BY <1>33, Processes, SourceAssumption DEF RowsInv, TypeOK, Phases, NoMarkIsKept,
     RunningIsOwned, Checking, LeftRunning, NoRow, NoRows, DeleteConfig
<1>34. ASSUME NEW h \in Handler, DeleteHealth(h) PROVE (NoMarkIsKept /\ RunningIsOwned)'
  BY <1>34, Processes, SourceAssumption DEF RowsInv, TypeOK, Phases, NoMarkIsKept,
     RunningIsOwned, Checking, LeftRunning, NoRow, NoRows, DeleteHealth
<1>35. ASSUME NEW h \in Handler, UpdateSchedule(h) PROVE (NoMarkIsKept /\ RunningIsOwned)'
  BY <1>35, Processes, SourceAssumption DEF RowsInv, TypeOK, Phases, NoMarkIsKept,
     RunningIsOwned, Checking, LeftRunning, NoRow, NoRows, UpdateSchedule
<1>36. ASSUME NEW h \in Handler, RecalculateList(h) PROVE (NoMarkIsKept /\ RunningIsOwned)'
  BY <1>36, Processes, SourceAssumption DEF RowsInv, TypeOK, Phases, NoMarkIsKept,
     RunningIsOwned, Checking, LeftRunning, NoRow, NoRows, RecalculateList
<1>37. ASSUME NEW h \in Handler, NEW K \in SUBSET Key, RequestChecks(h, K) PROVE (NoMarkIsKept /\ RunningIsOwned)'
  BY <1>37, Processes, SourceAssumption DEF RowsInv, TypeOK, Phases, NoMarkIsKept,
     RunningIsOwned, Checking, LeftRunning, NoRow, NoRows, RequestChecks
<1>38. ASSUME NEW h \in Handler, NEW id \in ConfigId, ReadNext(h, id) PROVE (NoMarkIsKept /\ RunningIsOwned)'
  BY <1>38, Processes, SourceAssumption DEF RowsInv, TypeOK, Phases, NoMarkIsKept,
     RunningIsOwned, Checking, LeftRunning, NoRow, NoRows, ReadNext
<1>39. ASSUME NEW h \in Handler, WriteNext(h) PROVE (NoMarkIsKept /\ RunningIsOwned)'
  BY <1>39, Processes, SourceAssumption DEF RowsInv, TypeOK, Phases, NoMarkIsKept,
     RunningIsOwned, Checking, LeftRunning, NoRow, NoRows, WriteNext
<1>40. ASSUME NEW h \in Handler, Answer(h) PROVE (NoMarkIsKept /\ RunningIsOwned)'
  BY <1>40, Processes, SourceAssumption DEF RowsInv, TypeOK, Phases, NoMarkIsKept,
     RunningIsOwned, Checking, LeftRunning, NoRow, NoRows, Answer
<1>41. ASSUME NEW h \in Handler, HandlerFails(h) PROVE (NoMarkIsKept /\ RunningIsOwned)'
  BY <1>41, Processes, SourceAssumption DEF RowsInv, TypeOK, Phases, NoMarkIsKept,
     RunningIsOwned, Checking, LeftRunning, NoRow, NoRows, HandlerFails
<1>42. ASSUME NEW k \in Key, DateComes(k) PROVE (NoMarkIsKept /\ RunningIsOwned)'
  BY <1>42, Processes, SourceAssumption DEF RowsInv, TypeOK, Phases, NoMarkIsKept,
     RunningIsOwned, Checking, LeftRunning, NoRow, NoRows, DateComes
<1>43. ASSUME RestartWorker PROVE (NoMarkIsKept /\ RunningIsOwned)'
  BY <1>43, Processes, SourceAssumption DEF NoMarkIsKept, RunningIsOwned, RestartWorker,
     Restart
<1>44. ASSUME RestartApp PROVE (NoMarkIsKept /\ RunningIsOwned)'
  <2>1. NoMarkIsKept'
    <3>1. /\ pc'[Loop] = pc[Loop] /\ rows'[Loop] = rows[Loop]
          /\ \A g \in Goroutine : pc'[g] = pc[g] /\ conf'[g] = conf[g] /\ row'[g] = row[g]
      BY <1>44, Processes, SourceAssumption DEF RestartApp, Restart
    <3>2. QED
      BY <3>1 DEF NoMarkIsKept
  <2>2. RunningIsOwned'
    <3>1. /\ pc'[Loop] = pc[Loop] /\ rows'[Loop] = rows[Loop] /\ health' = health
          /\ \A g \in Goroutine : pc'[g] = pc[g] /\ conf'[g] = conf[g]
      BY <1>44, Processes, SourceAssumption DEF RestartApp, Restart
    <3>2. QED
      BY <3>1 DEF RunningIsOwned, Checking, LeftRunning
  <2>3. QED
    BY <2>1, <2>2
<1>45. QED
  BY <1>1, <1>2, <1>3, <1>4, <1>5, <1>6, <1>7, <1>8, <1>9, <1>10, <1>11, <1>12, <1>13,
     <1>14, <1>15, <1>16, <1>17, <1>18, <1>19, <1>20, <1>21, <1>22, <1>23, <1>24, <1>25,
     <1>26, <1>27, <1>28, <1>29, <1>30, <1>31, <1>32, <1>33, <1>34, <1>35, <1>36, <1>37,
     <1>38, <1>39, <1>40, <1>41, <1>42, <1>43, <1>44 DEF Next, LoopStep, GoroutineStep,
     StartupStep, HandlerStep, HandlerGoesOn

\* With at most one administrator and a store that answers, or with no
\* administrator at all, no source is checked by two goroutines, whatever is killed
\* and restarted.
THEOREM ChecksAreExclusive ==
  ASSUME OneAdministrator
  PROVE  Spec => []OneCheckPerSource
<1>1. Init => OneInv
  BY SourceAssumption, Processes DEF Init, OneInv, KeysApart, OneKeyEach, ChecksApart,
     OneCheckPerSource, Checking, NoConfigs, NoConfig, Process
<1>2. ASSUME RowsInv, OneInv, [Next]_vars PROVE OneInv'
  <2>1. CASE UNCHANGED vars
    BY <1>2, <2>1 DEF vars, OneInv, KeysApart, OneKeyEach, ChecksApart, OneCheckPerSource,
       Checking, Has
  <2>2. QED
    BY <1>2, <2>1, OneStep
<1>3. OneInv => OneCheckPerSource
  BY DEF OneInv
<1>4. QED
  BY <1>1, <1>2, <1>3, RowsInvHolds, PTL DEF Spec

\* Unless the first start checks the sources itself, a status never contradicts the
\* count of failures, whichever stale copies are written, by how many
\* administrators, and whichever calls fail.
THEOREM StatusAlwaysFits ==
  ASSUME ~SyncOnStartup
  PROVE  Spec => []StatusFitsFailures
<1>1. Init => EveryCopyFits
  <2> SUFFICES ASSUME Init PROVE EveryCopyFits
    OBVIOUS
  <2>1. pc[Startup] # "sync"
    BY SourceAssumption, Processes DEF Init
  <2>2. \A k \in Key : Fits(health[k])
    BY FitsOfChanges DEF Init, NoRows
  <2>3. \A p \in Process : Fits(row[p]) /\ \A k \in Key : Fits(rows[p][k])
    BY FitsOfChanges DEF Init, NoRows
  <2>4. QED
    BY <2>1, <2>2, <2>3 DEF EveryCopyFits
<1>2. ASSUME RowsInv, EveryCopyFits, [Next]_vars PROVE EveryCopyFits'
  <2>1. CASE UNCHANGED vars
    BY <1>2, <2>1 DEF vars, EveryCopyFits
  <2>2. QED
    BY <1>2, <2>1, FitsStep
<1>3. EveryCopyFits => StatusFitsFailures
  BY DEF EveryCopyFits, StatusFitsFailures, Fits
<1>4. QED
  BY <1>1, <1>2, <1>3, RowsInvHolds, PTL DEF Spec

\* Where administrators leave the rows alone and the store answers, a source is
\* marked running only while it is checked or until the worker has reset it.
THEOREM MarksAreOwned ==
  ASSUME Handler = {}, ~StoreMayFail
  PROVE  Spec => []RunningIsOwned
<1>1. Init => NoMarkIsKept /\ RunningIsOwned
  BY SourceAssumption, Processes, RowTypes DEF Init, NoMarkIsKept, RunningIsOwned, NoRows,
     Process
<1>2. ASSUME RowsInv, NoMarkIsKept, RunningIsOwned, [Next]_vars
      PROVE (NoMarkIsKept /\ RunningIsOwned)'
  <2>1. CASE UNCHANGED vars
    BY <1>2, <2>1 DEF vars, NoMarkIsKept, RunningIsOwned, Checking, LeftRunning
  <2>2. QED
    BY <1>2, <2>1, MarkStep
<1>3. QED
  BY <1>1, <1>2, RowsInvHolds, PTL DEF Spec

=============================================================================

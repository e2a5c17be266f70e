----------------------------- MODULE SmartAlerts -----------------------------
(***************************************************************************)
(* The alerts of saved smart views: triggerSmartViewAlertsForTender and    *)
(* recordSmartAlertDelivery of the store, for one tenant.  Runs of it      *)
(* overlap: every tender the worker writes starts one, a reprocess starts  *)
(* one for each tender it accepts, and a test alert is one for a single    *)
(* channel.  One step is one statement, or one message to the mail server. *)
(***************************************************************************)
EXTENDS Integers, FiniteSets

CONSTANTS
  Run,         \* runs that overlap
  View,
  Subject,     \* tenders with the tags they have got: other tags, another subject
  TestSubject, \* the subject of every test alert
  Channel,     \* channels: type and destination
  Emailing,    \* those of type email
  Forms,       \* the views that users save
  Settings,    \* the switches that administrators set
  MaxUnsure,   \* bound: keys of mails that were sent and not recorded
  New, Gone,   \* a view that is not saved yet, and one that was deleted
  None

Switch == {"alerts", "email"}
Frequency == {"immediate", "digest"}
Status == {"sent", "skipped", "failed", "pending_digest"}

\* A saved view: whether alerts are on and paused, what its filters let through,
\* its enabled channels, and the channel of a test: the first one, enabled or
\* not, or the user's own when there is none.
SavedView ==
  [flags : SUBSET {"alerts", "paused"}, frequency : Frequency,
   wants : SUBSET Subject, channels : SUBSET Channel, first : Channel]

\* The dedup key of a delivery: the view, the tender with its tags, the channel.
Key == [view : View, subject : Subject, channel : Channel]

ASSUME AlertsAssumption ==
  /\ TestSubject \in Subject
  /\ Emailing \subseteq Channel
  /\ Forms \subseteq SavedView /\ Settings \subseteq SUBSET Switch
  /\ None \notin Key /\ None \notin Status
  /\ MaxUnsure \in Nat
  /\ New \notin SavedView /\ Gone \notin SavedView

VARIABLES
  switches,    \* smart_extraction_settings: alerts_enabled, email_alerts_enabled
  views,       \* saved_smart_views: what was saved, New or Gone
  deliveries,  \* smart_alert_deliveries: the status of the row of a key, or None
  doing,       \* what a run does next
  seen,        \* what it still needs of the switches
  subject,     \* what it is about
  due,         \* the deliveries it has still to make
  digest,      \* the views of these that do not alert immediately
  key,         \* the delivery under way
  outcome,     \* its status
  promised,    \* history: all deliveries of a run
  mailed,      \* history: the runs that have sent the mail of a key
  unsure       \* history: keys of a mail that was sent and not recorded

alertRows == <<switches, views, deliveries>>
alertRun == <<doing, seen, subject, due, digest, key, outcome>>
alertNotes == <<promised, mailed, unsure>>
alertVars == <<alertRows, alertRun, alertNotes>>

AlertsInit ==
  /\ switches = {}
  /\ views = [v \in View |-> New]
  /\ deliveries = [k \in Key |-> None]
  /\ doing = [r \in Run |-> "idle"]
  /\ seen = [r \in Run |-> {}]
  /\ subject = [r \in Run |-> TestSubject]
  /\ due = [r \in Run |-> {}] /\ digest = [r \in Run |-> {}]
  /\ key = [r \in Run |-> None] /\ outcome = [r \in Run |-> None]
  /\ promised = [r \in Run |-> {}]
  /\ mailed = [k \in Key |-> {}] /\ unsure = {}

Saved(v) == views[v] \notin {New, Gone}
Recorded(k) == deliveries[k] # None

-----------------------------------------------------------------------------
(* Users *)

SetSwitches(on) ==
  /\ switches' = on
  /\ UNCHANGED <<views, deliveries, alertRun, alertNotes>>

\* UpsertSavedSmartView: a new view, or one that is there.
SaveView(v, form) ==
  /\ views[v] # Gone
  /\ views' = [views EXCEPT ![v] = form]
  /\ UNCHANGED <<switches, deliveries, alertRun, alertNotes>>

\* The deliveries of a deleted view stay.
DeleteView(v) ==
  /\ Saved(v)
  /\ views' = [views EXCEPT ![v] = Gone]
  /\ UNCHANGED <<switches, deliveries, alertRun, alertNotes>>

-----------------------------------------------------------------------------
(* A run *)

\* A tender was accepted: without the switch for alerts nothing happens.
Trigger(r, s) ==
  /\ doing[r] = "idle" /\ s # TestSubject /\ "alerts" \in switches
  /\ seen' = [seen EXCEPT ![r] = switches \ {"alerts"}]
  /\ subject' = [subject EXCEPT ![r] = s]
  /\ doing' = [doing EXCEPT ![r] = "views"]
  /\ UNCHANGED <<alertRows, due, digest, key, outcome, alertNotes>>

Alerting(v) == Saved(v) /\ "alerts" \in views[v].flags /\ "paused" \notin views[v].flags

ReadViews(r) ==
  LET on == {v \in View : Alerting(v) /\ subject[r] \in views[v].wants}
      all == {k \in Key : /\ k.view \in on /\ k.channel \in views[k.view].channels
                          /\ k.subject = subject[r]}
  IN /\ doing[r] = "views"
     /\ due' = [due EXCEPT ![r] = all]
     /\ digest' = [digest EXCEPT ![r] = {v \in on : views[v].frequency # "immediate"}]
     /\ promised' = [promised EXCEPT ![r] = all]
     /\ doing' = [doing EXCEPT ![r] = "look"]
     /\ subject' = [subject EXCEPT ![r] = TestSubject]
     /\ UNCHANGED <<alertRows, seen, key, outcome, mailed, unsure>>

\* TestSmartViewAlert: one channel, at once, whatever the flags.  It reads the
\* view, ...
TestAlert(r, v) ==
  LET k == [view |-> v, subject |-> TestSubject, channel |-> views[v].first] IN
  /\ doing[r] = "idle" /\ Saved(v)
  /\ due' = [due EXCEPT ![r] = {k}] /\ promised' = [promised EXCEPT ![r] = {k}]
  /\ doing' = [doing EXCEPT ![r] = "switches"]
  /\ UNCHANGED <<alertRows, seen, subject, digest, key, outcome, mailed, unsure>>

\* ... then the switches, of which the one for alerts does not matter.
ReadSwitches(r) ==
  /\ doing[r] = "switches"
  /\ seen' = [seen EXCEPT ![r] = switches \ {"alerts"}]
  /\ doing' = [doing EXCEPT ![r] = "look"]
  /\ UNCHANGED <<alertRows, subject, due, digest, key, outcome, alertNotes>>

\* What becomes of a delivery that needs no mail.
Unmailed(r, k) ==
  IF k.view \in digest[r] THEN "pending_digest"
  ELSE IF k.channel \notin Emailing THEN "sent"
  ELSE "skipped"
NeedsMail(r, k) == k.view \notin digest[r] /\ k.channel \in Emailing /\ "email" \in seen[r]

\* The run takes up a delivery.
Deliver(r, k) ==
  /\ key' = [key EXCEPT ![r] = k]
  /\ doing' = [doing EXCEPT ![r] = IF NeedsMail(r, k) THEN "send" ELSE "insert"]
  /\ outcome' = [outcome EXCEPT ![r] = Unmailed(r, k)]

\* Mutant: a duplicate ends the run.
LookOnce(r) ==
  /\ doing[r] = "look"
  /\ \E k \in due[r] :
       IF Recorded(k)
       THEN due' = [due EXCEPT ![r] = {}] /\ UNCHANGED <<doing, key, outcome>>
       ELSE due' = [due EXCEPT ![r] = @ \ {k}] /\ Deliver(r, k)
  /\ UNCHANGED <<alertRows, seen, subject, digest, alertNotes>>

\* recordSmartAlertDelivery begins with the count of the key: what is recorded is
\* a duplicate and not delivered again, whatever its status.
Look(r) ==
  /\ doing[r] = "look"
  /\ \E k \in due[r] :
       /\ due' = [due EXCEPT ![r] = @ \ {k}]
       /\ IF Recorded(k) THEN UNCHANGED <<doing, key, outcome>> ELSE Deliver(r, k)
  /\ UNCHANGED <<alertRows, seen, subject, digest, alertNotes>>

\* The count may fail, and the delivery goes on as if nothing was recorded.
LookFails(r) ==
  /\ doing[r] = "look"
  /\ \E k \in due[r] :
       /\ due' = [due EXCEPT ![r] = @ \ {k}]
       /\ Deliver(r, k)
       /\ unsure' = IF k.channel \in Emailing THEN unsure \cup {k} ELSE unsure
  /\ Cardinality(unsure') <= MaxUnsure
  /\ UNCHANGED <<alertRows, seen, subject, digest, promised, mailed>>

\* A run has ended and its copies are gone.
RunEnds(r) ==
  /\ doing' = [doing EXCEPT ![r] = "idle"]
  /\ seen' = [seen EXCEPT ![r] = {}] /\ digest' = [digest EXCEPT ![r] = {}]
  /\ subject' = [subject EXCEPT ![r] = TestSubject]
  /\ due' = [due EXCEPT ![r] = {}] /\ promised' = [promised EXCEPT ![r] = {}]
  /\ key' = [key EXCEPT ![r] = None] /\ outcome' = [outcome EXCEPT ![r] = None]
  /\ UNCHANGED <<alertRows, mailed>>

FinishRun(r) ==
  /\ doing[r] = "look" /\ due[r] = {}
  /\ RunEnds(r)
  /\ UNCHANGED unsure

\* Mutant: the error of the mail server is not looked at.
SendUnseen(r) ==
  /\ doing[r] = "send"
  /\ doing' = [doing EXCEPT ![r] = "insert"]
  /\ outcome' = [outcome EXCEPT ![r] = "sent"]
  /\ UNCHANGED <<alertRows, seen, subject, due, digest, key, alertNotes>>

\* The mail server takes the mail, ...
Send(r) ==
  /\ doing[r] = "send"
  /\ doing' = [doing EXCEPT ![r] = "insert"]
  /\ outcome' = [outcome EXCEPT ![r] = "sent"]
  /\ mailed' = [mailed EXCEPT ![key[r]] = @ \cup {r}]
  /\ UNCHANGED <<alertRows, seen, subject, due, digest, key, promised, unsure>>

\* ... or refuses it, or it takes it and the answer is lost.
SendFails(r) ==
  /\ doing[r] = "send"
  /\ doing' = [doing EXCEPT ![r] = "insert"]
  /\ outcome' = [outcome EXCEPT ![r] = "failed"]
  /\ mailed' \in {mailed, [mailed EXCEPT ![key[r]] = @ \cup {r}]}
  /\ UNCHANGED <<alertRows, seen, subject, due, digest, key, promised, unsure>>

\* Mutant: a duplicate is noted in the row.
InsertDuplicate(r) ==
  /\ doing[r] = "insert"
  /\ deliveries' = [deliveries EXCEPT ![key[r]] =
       IF @ = None THEN outcome[r] ELSE "duplicate_suppressed"]
  /\ doing' = [doing EXCEPT ![r] = "look"]
  /\ key' = [key EXCEPT ![r] = None] /\ outcome' = [outcome EXCEPT ![r] = None]
  /\ UNCHANGED <<switches, views, seen, subject, due, digest, alertNotes>>

\* Mutant: only what was sent is recorded.
InsertSent(r) ==
  /\ doing[r] = "insert"
  /\ deliveries' = [deliveries EXCEPT ![key[r]] =
       IF @ # None \/ outcome[r] = "failed" THEN @ ELSE outcome[r]]
  /\ doing' = [doing EXCEPT ![r] = "look"]
  /\ key' = [key EXCEPT ![r] = None] /\ outcome' = [outcome EXCEPT ![r] = None]
  /\ UNCHANGED <<switches, views, seen, subject, due, digest, alertNotes>>

\* on conflict(dedup_key) do nothing: the first run keeps its row.
Insert(r) ==
  /\ doing[r] = "insert"
  /\ deliveries' = [deliveries EXCEPT ![key[r]] = IF @ = None THEN outcome[r] ELSE @]
  /\ doing' = [doing EXCEPT ![r] = "look"]
  /\ key' = [key EXCEPT ![r] = None] /\ outcome' = [outcome EXCEPT ![r] = None]
  /\ UNCHANGED <<switches, views, seen, subject, due, digest, alertNotes>>

\* A run is cut off: its process stops, its request is given up, the row cannot
\* be inserted.
CutRun(r) ==
  /\ doing[r] # "idle"
  /\ unsure' = IF doing[r] = "insert" /\ mailed[key[r]] # {}
               THEN unsure \cup {key[r]} ELSE unsure
  /\ Cardinality(unsure') <= MaxUnsure
  /\ RunEnds(r)

RunStep(r) ==
  \/ \E s \in Subject : Trigger(r, s)
  \/ \E v \in View : TestAlert(r, v)
  \/ ReadViews(r) \/ ReadSwitches(r) \/ Look(r) \/ LookFails(r) \/ FinishRun(r)
  \/ Send(r) \/ SendFails(r) \/ Insert(r)
  \/ CutRun(r)

AlertsNext ==
  \/ \E on \in Settings : SetSwitches(on)
  \/ \E v \in View : DeleteView(v) \/ \E form \in Forms : SaveView(v, form)
  \/ \E r \in Run : RunStep(r)

AlertsSpec == AlertsInit /\ [][AlertsNext]_alertVars

-----------------------------------------------------------------------------
(* Properties *)

AlertsTypeOK ==
  /\ switches \subseteq Switch
  /\ views \in [View -> SavedView \cup {New, Gone}]
  /\ deliveries \in [Key -> Status \cup {None}]
  /\ doing \in [Run -> {"idle", "views", "switches", "look", "send", "insert"}]
  /\ seen \in [Run -> SUBSET Switch]
  /\ subject \in [Run -> Subject]
  /\ due \in [Run -> SUBSET Key] /\ promised \in [Run -> SUBSET Key]
  /\ digest \in [Run -> SUBSET View]
  /\ key \in [Run -> Key \cup {None}]
  /\ outcome \in [Run -> Status \cup {None}]
  /\ mailed \in [Key -> SUBSET Run]
  /\ unsure \subseteq Key

Holding(r) == IF doing[r] \in {"send", "insert"} THEN {key[r]} ELSE {}

\* No mail is forgotten: what a run has mailed is recorded or about to be recorded
\* by it, so that it is not mailed again, unless the run was cut off or could not
\* look.
MailIsRemembered ==
  \A k \in Key \ unsure : \A r \in mailed[k] :
    Recorded(k) \/ (doing[r] = "insert" /\ key[r] = k)

\* A run that is about to mail has not mailed that already, however often it was
\* triggered: only runs that overlap can repeat each other's mail.
NoRunRepeatsItself ==
  \A r \in Run : doing[r] = "send" /\ key[r] \notin unsure => r \notin mailed[key[r]]

\* The history does not lie: a mail that is recorded as sent was sent, whoever
\* sent it and whoever recorded it.
SentWasMailed ==
  \A k \in Key : k.channel \in Emailing /\ deliveries[k] = "sent" => mailed[k] # {}

\* A run that is not cut off leaves a record for every channel of every view the
\* tender belongs to, also when other runs were there first and mails failed.
NothingIsSkipped ==
  \A r \in Run : \A k \in promised[r] \ (due[r] \cup Holding(r)) : Recorded(k)

=============================================================================

---------------------------- MODULE AlertMonitor ----------------------------
(***************************************************************************)
(* RunAlertMonitor of the app: the operational alerts evaluated at start   *)
(* and on every tick, and AlertNotifier, which tells a webhook what has    *)
(* changed.  The alerts are evaluated one after the other while the system *)
(* changes, a post may fail with or without having arrived, and the active *)
(* set lives in memory.  A code has one summary, so the codes stand for    *)
(* the alerts.                                                             *)
(***************************************************************************)
EXTENDS LoginRateLimiter

CONSTANTS
  Backups,            \* the conditions of the backup directory, of BackupState
  Extractors,         \* the answers of Healthz: subset of {"up", "down"}, {} if not configured
  JobSnapshots,       \* what JobAlertSnapshot finds, of Snapshots or Unreadable
  Unreadable,
  ThrottleThreshold, FailureThreshold, BacklogMaxJobs, BacklogMaxAge,
  MaxRestarts         \* bound: restarts of the app

BackupState == {"unconfigured", "unreadable", "missing", "stale", "fresh"}
Snapshots == [queued : Nat, processing : Nat, retry : Nat, failed : Nat, oldest : Nat]

ASSUME MonitorAssumption ==
  /\ Backups \subseteq BackupState /\ Backups # {}
  /\ Extractors \subseteq {"up", "down"}
  /\ JobSnapshots \subseteq Snapshots \cup {Unreadable} /\ JobSnapshots # {}
  /\ ThrottleThreshold \in Nat \ {0} /\ FailureThreshold \in Nat \ {0}
  /\ BacklogMaxJobs \in Nat \ {0} /\ BacklogMaxAge \in Nat
  /\ MaxRestarts \in Nat

\* The codes in the order of their posts: by severity, then by name.
CodeOrder ==
  <<"extractor_unhealthy",
    "backup_dir_unreadable", "backup_missing", "backup_stale",
    "backup_dir_unconfigured",
    "extractor_failures_unknown", "extractor_failures_accumulating",
    "login_throttling",
    "worker_backlog_unknown", "worker_backlog_growth">>
Code == {CodeOrder[i] : i \in DOMAIN CodeOrder}
Before(c, d) == \E i, j \in DOMAIN CodeOrder : i < j /\ CodeOrder[i] = c /\ CodeOrder[j] = d

VARIABLES
  backup, extractor, snapshot,  \* what the alerts are about, besides the limiter
  step,      \* what the monitor does next
  found,     \* the alerts of this round
  todo,      \* the codes of this loop of Sync not yet looked at
  post,      \* the message under way
  active,    \* the active set of the notifier
  told,      \* history: the last message on a code that arrived
  unsure,    \* history: codes on which the notifier does not know what arrived last
  restarts

world == <<backup, extractor, snapshot>>
history == <<told, unsure>>
monitorVars == <<world, step, found, todo, post, active, history, restarts>>
vars == <<limiterVars, monitorVars>>

NoPost == [status |-> "none", code |-> "none"]

Init ==
  /\ LimiterInit
  /\ backup \in Backups /\ extractor \in Extractors \cup {"none"} /\ snapshot \in JobSnapshots
  /\ (extractor = "none") <=> (Extractors = {})
  /\ step = "backup" /\ found = {} /\ todo = {} /\ post = NoPost /\ active = {}
  /\ told = [c \in Code |-> "nothing"] /\ unsure = {}
  /\ restarts = 0

-----------------------------------------------------------------------------
(* The alerts *)

BackupAlert(state) ==
  CASE state = "unconfigured" -> {"backup_dir_unconfigured"}
    [] state = "unreadable"   -> {"backup_dir_unreadable"}
    [] state = "missing"      -> {"backup_missing"}
    [] state = "stale"        -> {"backup_stale"}
    [] OTHER                  -> {}

\* A window without enough throttle events is no alert.
LoginThrottleAlert ==
  IF Len(Recent) >= ThrottleThreshold THEN {"login_throttling"} ELSE {}

ExtractorHealthAlert(answer) == IF answer = "down" THEN {"extractor_unhealthy"} ELSE {}

ExtractorFailureAlert(jobs) ==
  IF jobs = Unreadable THEN {"extractor_failures_unknown"}
  ELSE IF jobs.failed + jobs.retry >= FailureThreshold THEN {"extractor_failures_accumulating"}
  ELSE {}

WorkerBacklogAlert(jobs) ==
  IF jobs = Unreadable THEN {"worker_backlog_unknown"}
  ELSE IF jobs.queued + jobs.retry + jobs.processing >= BacklogMaxJobs \/ jobs.oldest > BacklogMaxAge
  THEN {"worker_backlog_growth"}
  ELSE {}

\* The codes that the constants allow.
Watched ==
  UNION ({BackupAlert(b) : b \in Backups} \cup {ExtractorHealthAlert(e) : e \in Extractors}
         \cup {ExtractorFailureAlert(j) \cup WorkerBacklogAlert(j) : j \in JobSnapshots})
    \cup {"login_throttling"}

\* What an evaluation in one instant would find.
Holding ==
  BackupAlert(backup) \cup LoginThrottleAlert \cup ExtractorHealthAlert(extractor)
    \cup ExtractorFailureAlert(snapshot) \cup WorkerBacklogAlert(snapshot)

-----------------------------------------------------------------------------
(* The monitor *)

Finds(here, alerts, next) ==
  /\ step = here /\ step' = next
  /\ found' = found \cup alerts
  /\ UNCHANGED <<world, todo, post, active, history, restarts>>

\* operationalAlerts evaluates one alert after the other; the two about jobs read
\* the store twice.
CheckBackups == Finds("backup", BackupAlert(backup), "throttle") /\ UNCHANGED limiterVars
CheckThrottle == Finds("throttle", LoginThrottleAlert, "extractor") /\ Snapshot
CheckExtractor ==
  Finds("extractor", ExtractorHealthAlert(extractor), "failures") /\ UNCHANGED limiterVars
CheckFailures ==
  Finds("failures", ExtractorFailureAlert(snapshot), "backlog") /\ UNCHANGED limiterVars
CheckBacklog ==
  /\ step = "backlog" /\ step' = "fire"
  /\ found' = found \cup WorkerBacklogAlert(snapshot)
  /\ todo' = found'
  /\ UNCHANGED <<limiterVars, world, post, active, history, restarts>>

\* Mutant: every alert is posted in every round.
FireAlways ==
  /\ step = "fire" /\ post = NoPost
  /\ \E c \in todo :
       /\ \A d \in todo \ {c} : Before(c, d)
       /\ todo' = todo \ {c}
       /\ post' = [status |-> "firing", code |-> c]
  /\ UNCHANGED <<limiterVars, world, step, found, active, history, restarts>>

\* Mutant: an alert is active before it is posted.
FireFirst ==
  /\ step = "fire" /\ post = NoPost
  /\ \E c \in todo :
       /\ \A d \in todo \ {c} : Before(c, d)
       /\ todo' = todo \ {c}
       /\ post' = IF c \in active THEN NoPost ELSE [status |-> "firing", code |-> c]
       /\ active' = active \cup {c}
  /\ UNCHANGED <<limiterVars, world, step, found, history, restarts>>

\* Sync, first loop: the alerts in order; one that is active already is skipped.
Fire ==
  /\ step = "fire" /\ post = NoPost
  /\ \E c \in todo :
       /\ \A d \in todo \ {c} : Before(c, d)
       /\ todo' = todo \ {c}
       /\ post' = IF c \in active THEN NoPost ELSE [status |-> "firing", code |-> c]
  /\ UNCHANGED <<limiterVars, world, step, found, active, history, restarts>>

\* The second loop goes over the active codes, those the first has added included.
FireDone ==
  /\ step = "fire" /\ post = NoPost /\ todo = {}
  /\ step' = "resolve" /\ todo' = active
  /\ UNCHANGED <<limiterVars, world, found, post, active, history, restarts>>

\* ... in any order; one that was found again is skipped.
Resolve ==
  /\ step = "resolve" /\ post = NoPost
  /\ \E c \in todo :
       /\ todo' = todo \ {c}
       /\ post' = IF c \in found THEN NoPost ELSE [status |-> "resolved", code |-> c]
  /\ UNCHANGED <<limiterVars, world, step, found, active, history, restarts>>

ResolveDone ==
  /\ step = "resolve" /\ post = NoPost /\ todo = {}
  /\ step' = "sleep" /\ found' = {}
  /\ UNCHANGED <<limiterVars, world, todo, post, active, history, restarts>>

\* send: the webhook has the message and its answer arrives, ...
Acknowledged(c) ==
  /\ post # NoPost /\ post.code = c
  /\ active' = IF post.status = "firing" THEN active \cup {c} ELSE active \ {c}
  /\ told' = [told EXCEPT ![c] = post.status]
  /\ unsure' = unsure \ {c}
  /\ post' = NoPost
  /\ UNCHANGED <<limiterVars, world, step, found, todo, restarts>>

\* ... or it has the message and answers with an error, late or never, ...
Unanswered ==
  /\ post # NoPost
  /\ told' = [told EXCEPT ![post.code] = post.status]
  /\ unsure' = unsure \cup {post.code}
  /\ post' = NoPost
  /\ UNCHANGED <<limiterVars, world, step, found, todo, active, restarts>>

\* Mutant: an error of the post is not looked at.
LostUnseen ==
  /\ post # NoPost
  /\ post' = NoPost
  /\ active' = IF post.status = "firing" THEN active \cup {post.code} ELSE active \ {post.code}
  /\ UNCHANGED <<limiterVars, world, step, found, todo, history, restarts>>

\* ... or it cannot be reached.
Lost ==
  /\ post # NoPost
  /\ post' = NoPost
  /\ UNCHANGED <<limiterVars, world, step, found, todo, active, history, restarts>>

Wake ==
  /\ step = "sleep" /\ step' = "backup"
  /\ UNCHANGED <<limiterVars, world, found, todo, post, active, history, restarts>>

-----------------------------------------------------------------------------
(* Everything else *)

\* The world changes by itself.
Change ==
  /\ backup' \in Backups /\ snapshot' \in JobSnapshots
  /\ extractor' \in IF Extractors = {} THEN {extractor} ELSE Extractors
  /\ Cardinality({i \in 1..3 : world'[i] # world[i]}) = 1
  /\ UNCHANGED <<limiterVars, step, found, todo, post, active, history, restarts>>

\* The app is stopped at any point and started again; a message under way may
\* have arrived before (Unanswered) or not.
RestartApp ==
  /\ restarts < MaxRestarts /\ restarts' = restarts + 1
  /\ Forget
  /\ step' = "backup" /\ found' = {} /\ todo' = {} /\ post' = NoPost /\ active' = {}
  /\ unsure' = {c \in Code : told[c] # "nothing"}
  /\ UNCHANGED <<world, told>>

Monitor ==
  \/ CheckBackups \/ CheckThrottle \/ CheckExtractor \/ CheckFailures \/ CheckBacklog
  \/ Fire \/ FireDone \/ Resolve \/ ResolveDone
  \/ Unanswered \/ Lost \/ (\E c \in Code : Acknowledged(c))
  \/ Wake

Next ==
  \/ Monitor
  \/ LimiterNext /\ UNCHANGED monitorVars
  \/ Change
  \/ RestartApp

\* The monitor goes on, time passes, and a webhook that is asked again and again
\* answers some time.
Fairness ==
  /\ WF_vars(Monitor)
  /\ WF_vars(Tick /\ UNCHANGED monitorVars)
  /\ \A c \in Watched : SF_vars(Acknowledged(c))

Spec == Init /\ [][Next]_vars

FairSpec == Spec /\ Fairness

-----------------------------------------------------------------------------
(* Properties *)

MonitorTypeOK ==
  /\ LimiterTypeOK
  /\ backup \in Backups /\ extractor \in Extractors \cup {"none"} /\ snapshot \in JobSnapshots
  /\ step \in {"backup", "throttle", "extractor", "failures", "backlog", "fire", "resolve", "sleep"}
  /\ found \subseteq Code /\ todo \subseteq Code /\ active \subseteq Code /\ unsure \subseteq Code
  /\ post \in [status : {"firing", "resolved"}, code : Code] \cup {NoPost}
  /\ told \in [Code -> {"nothing", "firing", "resolved"}]
  /\ restarts \in 0..MaxRestarts

\* The active set is what the webhook has been told, wherever a post failed, as
\* long as neither a lost answer nor a restart leaves it open what was told.
ReceiverAgrees ==
  \A c \in Code \ unsure : c \in active <=> told[c] = "firing"

\* Nothing is posted twice and nothing is resolved that did not fire, except to
\* repeat what may not have arrived.
NoDuplicatePosts ==
  post # NoPost /\ post.code \notin unsure
  => (post.status = "resolved") <=> (told[post.code] = "firing")

\* An alert that holds from some time on is told in the end, and stays so, and one
\* that does not hold any more is resolved.  What stays open is a post that arrived
\* though its answer was an error, when the condition changed back at once, and an
\* alert that ended while the app was started again.
AlertsArrive ==
  \A c \in Watched :
    /\ <>[](c \in Holding) => <>[](told[c] = "firing" \/ (c \in unsure /\ c \in active))
    /\ <>[](c \notin Holding) => <>[](told[c] # "firing" \/ (c \in unsure /\ c \notin active))

=============================================================================

------------------------- MODULE AlertMonitorProofs -------------------------
(***************************************************************************)
(* The alert notifier and its webhook agree, for every set of conditions,  *)
(* thresholds, attempts to log in and restarts.                            *)
(***************************************************************************)
EXTENDS AlertMonitor, LoginRateLimiterProofs

-----------------------------------------------------------------------------
(* The codes *)

LEMMA Codes ==
  /\ "extractor_unhealthy" \in Code
  /\ "backup_dir_unreadable" \in Code /\ "backup_missing" \in Code
  /\ "backup_stale" \in Code /\ "backup_dir_unconfigured" \in Code
  /\ "extractor_failures_unknown" \in Code /\ "extractor_failures_accumulating" \in Code
  /\ "login_throttling" \in Code
  /\ "worker_backlog_unknown" \in Code /\ "worker_backlog_growth" \in Code
<1>1. DOMAIN CodeOrder = 1..10
  BY DEF CodeOrder
<1>2. \A i \in 1..10 : CodeOrder[i] \in Code
  BY <1>1 DEF Code
<1>3. /\ CodeOrder[1] = "extractor_unhealthy"
      /\ CodeOrder[2] = "backup_dir_unreadable" /\ CodeOrder[3] = "backup_missing"
      /\ CodeOrder[4] = "backup_stale" /\ CodeOrder[5] = "backup_dir_unconfigured"
      /\ CodeOrder[6] = "extractor_failures_unknown"
      /\ CodeOrder[7] = "extractor_failures_accumulating"
      /\ CodeOrder[8] = "login_throttling"
      /\ CodeOrder[9] = "worker_backlog_unknown" /\ CodeOrder[10] = "worker_backlog_growth"
  BY DEF CodeOrder
<1> HIDE DEF CodeOrder
<1> QED
  BY <1>2, <1>3

\* Every evaluation finds codes.
LEMMA AlertsAreCodes ==
  ASSUME NEW state
  PROVE  /\ BackupAlert(state) \subseteq Code
         /\ LoginThrottleAlert \subseteq Code
         /\ ExtractorHealthAlert(state) \subseteq Code
         /\ ExtractorFailureAlert(state) \subseteq Code
         /\ WorkerBacklogAlert(state) \subseteq Code
BY Codes DEF BackupAlert, LoginThrottleAlert, ExtractorHealthAlert, ExtractorFailureAlert,
             WorkerBacklogAlert

-----------------------------------------------------------------------------
(* The invariant *)

NotifierTypes ==
  /\ backup \in Backups /\ extractor \in Extractors \cup {"none"} /\ snapshot \in JobSnapshots
  /\ step \in {"backup", "throttle", "extractor", "failures", "backlog", "fire", "resolve", "sleep"}
  /\ found \subseteq Code /\ todo \subseteq Code /\ active \subseteq Code /\ unsure \subseteq Code
  /\ post \in [status : {"firing", "resolved"}, code : Code] \cup {NoPost}
  /\ told \in [Code -> {"nothing", "firing", "resolved"}]
  /\ restarts \in 0..MaxRestarts

\* What the second loop has still to look at is active.
LoopFits == step = "resolve" => todo \subseteq active

\* A firing message is about a code that is not active, a resolution about one that
\* is and that the loop has taken.
PostFits ==
  \/ post = NoPost
  \/ /\ step = "fire" /\ post.status = "firing"
     /\ post.code \in Code \ active
  \/ /\ step = "resolve" /\ post.status = "resolved"
     /\ post.code \in active \ todo

IInv == NotifierTypes /\ LoopFits /\ PostFits /\ ReceiverAgrees

LEMMA InitIInv == Init => IInv
BY MonitorAssumption DEF Init, IInv, NotifierTypes, LoopFits, PostFits, ReceiverAgrees

\* Steps that change only what is found.
LEMMA FindsStep ==
  ASSUME IInv, NEW here \in {"backup", "throttle", "extractor", "failures"},
         NEW next \in {"throttle", "extractor", "failures", "backlog"},
         NEW alerts \in SUBSET Code, Finds(here, alerts, next)
  PROVE  IInv'
BY DEF Finds, history, world, IInv, NotifierTypes, LoopFits, PostFits, ReceiverAgrees

LEMMA NextIInv == IInv /\ [Next]_vars => IInv'
<1> SUFFICES ASSUME IInv, [Next]_vars PROVE IInv'
  OBVIOUS
<1> USE MonitorAssumption DEF history, world
<1>1. CASE CheckBackups
  BY <1>1, FindsStep, AlertsAreCodes DEF CheckBackups
<1>2. CASE CheckThrottle
  BY <1>2, FindsStep, AlertsAreCodes DEF CheckThrottle
<1>3. CASE CheckExtractor
  BY <1>3, FindsStep, AlertsAreCodes DEF CheckExtractor
<1>4. CASE CheckFailures
  BY <1>4, FindsStep, AlertsAreCodes DEF CheckFailures
<1>5. CASE CheckBacklog
  <2>1. found' \subseteq Code
    BY <1>5, AlertsAreCodes DEF CheckBacklog, IInv, NotifierTypes
  <2> QED
    BY <1>5, <2>1 DEF CheckBacklog, IInv, NotifierTypes, LoopFits, PostFits, ReceiverAgrees
<1>6. CASE Fire
  <2>1. PICK c \in todo :
          /\ todo' = todo \ {c}
          /\ post' = IF c \in active THEN NoPost ELSE [status |-> "firing", code |-> c]
    BY <1>6 DEF Fire
  <2> QED
    BY <1>6, <2>1 DEF Fire, IInv, NotifierTypes, LoopFits, PostFits, ReceiverAgrees
<1>7. CASE FireDone
  BY <1>7 DEF FireDone, IInv, NotifierTypes, LoopFits, PostFits, ReceiverAgrees
<1>8. CASE Resolve
  <2>1. PICK c \in todo :
          /\ todo' = todo \ {c}
          /\ post' = IF c \in found THEN NoPost ELSE [status |-> "resolved", code |-> c]
    BY <1>8 DEF Resolve
  <2> QED
    BY <1>8, <2>1 DEF Resolve, IInv, NotifierTypes, LoopFits, PostFits, ReceiverAgrees
<1>9. CASE ResolveDone
  BY <1>9 DEF ResolveDone, IInv, NotifierTypes, LoopFits, PostFits, ReceiverAgrees
<1>10. ASSUME NEW c \in Code, Acknowledged(c) PROVE IInv'
  <2>1. /\ post.code = c /\ post' = NoPost
        /\ active' = IF post.status = "firing" THEN active \cup {c} ELSE active \ {c}
        /\ told' = [told EXCEPT ![c] = post.status] /\ unsure' = unsure \ {c}
        /\ UNCHANGED <<world, restarts, step, found, todo>>
    BY <1>10 DEF Acknowledged
  <2>2. \/ post.status = "firing" /\ step = "fire" /\ c \notin active
        \/ post.status = "resolved" /\ step = "resolve" /\ c \in active \ todo
    BY <1>10, <2>1 DEF Acknowledged, IInv, PostFits
  <2>3. NotifierTypes' /\ LoopFits' /\ PostFits'
    BY <2>1, <2>2 DEF IInv, NotifierTypes, LoopFits, PostFits
  <2>4. ReceiverAgrees'
    BY <2>1, <2>2 DEF IInv, NotifierTypes, ReceiverAgrees
  <2> QED
    BY <2>3, <2>4 DEF IInv
<1>11. CASE Unanswered
  <2>1. /\ post' = NoPost /\ told' = [told EXCEPT ![post.code] = post.status]
        /\ unsure' = unsure \cup {post.code} /\ UNCHANGED <<world, restarts, step, found, todo, active>>
    BY <1>11 DEF Unanswered
  <2>2. post.status \in {"firing", "resolved"} /\ post.code \in Code
    BY <1>11 DEF Unanswered, IInv, PostFits, NotifierTypes
  <2> QED
    BY <2>1, <2>2 DEF IInv, NotifierTypes, LoopFits, PostFits, ReceiverAgrees
<1>12. CASE Lost
  BY <1>12 DEF Lost, IInv, NotifierTypes, LoopFits, PostFits, ReceiverAgrees
<1>13. CASE Wake
  BY <1>13 DEF Wake, IInv, NotifierTypes, LoopFits, PostFits, ReceiverAgrees
<1>14. CASE RestartApp
  BY <1>14 DEF RestartApp, IInv, NotifierTypes, LoopFits, PostFits, ReceiverAgrees
<1>15. CASE Change \/ UNCHANGED monitorVars
  BY <1>15 DEF Change, monitorVars, IInv, NotifierTypes, LoopFits, PostFits, ReceiverAgrees
<1> QED
  BY <1>1, <1>2, <1>3, <1>4, <1>5, <1>6, <1>7, <1>8, <1>9, <1>10, <1>11, <1>12, <1>13,
     <1>14, <1>15 DEF Next, Monitor, vars

-----------------------------------------------------------------------------
(* The limiter under the monitor *)

\* Whatever happens here is a call of the limiter, a restart, or nothing to it.
LEMMA LimiterIsWatched ==
  /\ Init => LimiterInit
  /\ [Next]_vars => [LimiterNext \/ Forget]_limiterVars
<1> SUFFICES ASSUME [Next]_vars PROVE [LimiterNext \/ Forget]_limiterVars
  BY DEF Init
<1>1. CASE Monitor
  <2>1. CASE CheckThrottle
    BY <2>1 DEF CheckThrottle, LimiterNext
  <2>2. CASE UNCHANGED limiterVars
    BY <2>2
  <2> QED
    BY <1>1, <2>1, <2>2
    DEF Monitor, CheckBackups, CheckExtractor, CheckFailures, CheckBacklog, Fire, FireDone,
        Resolve, ResolveDone, Unanswered, Lost, Acknowledged, Wake
<1>2. CASE (LimiterNext /\ UNCHANGED monitorVars) \/ RestartApp
  BY <1>2 DEF RestartApp
<1>3. CASE Change \/ UNCHANGED vars
  BY <1>3 DEF Change, vars
<1> QED
  BY <1>1, <1>2, <1>3 DEF Next

\* Under the monitor the limiter goes on as it does alone.
THEOREM LimiterIsAComponent == Spec => LimiterSpec
BY LimiterIsWatched, PTL DEF Spec, LimiterSpec

-----------------------------------------------------------------------------
(* Theorems *)

\* The invariant holds in every behaviour.
THEOREM Invariance == Spec => []IInv
BY InitIInv, NextIInv, PTL DEF Spec

\* AlertNotifier.active is what the webhook was told last, wherever posts fail.
THEOREM NotifierAgrees == Spec => []ReceiverAgrees
<1>1. IInv => ReceiverAgrees
  BY DEF IInv
<1> QED
  BY <1>1, Invariance, PTL

\* Sync posts nothing twice and resolves nothing that did not fire.
THEOREM PostsAlternate == Spec => []NoDuplicatePosts
<1>1. IInv => NoDuplicatePosts
  BY DEF IInv, NotifierTypes, PostFits, ReceiverAgrees, NoDuplicatePosts
<1> QED
  BY <1>1, Invariance, PTL

\* The variables of RunAlertMonitor, of AlertNotifier and of LoginRateLimiter have
\* their types.
THEOREM MonitorTypes == Spec => []MonitorTypeOK
<1>1. IInv /\ LimiterTypeOK => MonitorTypeOK
  BY DEF IInv, NotifierTypes, MonitorTypeOK
<1> QED
  BY <1>1, Invariance, LimiterIsAComponent, LimiterTypes, PTL

=============================================================================

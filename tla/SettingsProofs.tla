---------------------------- MODULE SettingsProofs ----------------------------
(***************************************************************************)
(* What the schedule of a source, smart keywords and what people keep      *)
(* about tenders promise, for every set of intervals and every number of   *)
(* failures, keywords, tenders, operations, people and requests, and what  *)
(* it is worth for the three side by side (MCSettings).                    *)
(***************************************************************************)
EXTENDS MCSettings, TLAPS

-----------------------------------------------------------------------------
(* SourceSchedule *)

\* The interval of a source is its own or the default one: a positive number.
LEMMA IntervalType ==
  ASSUME NEW i \in Intervals \cup {0}, NEW d \in Intervals
  PROVE  EffectiveInterval(i, d) \in Nat \ {0}
BY ScheduleAssumption DEF EffectiveInterval, NormalizedDefault

\* A backoff is at least five minutes and at most two hours ...
LEMMA BackoffRange ==
  ASSUME NEW n \in Nat \ {0}
  PROVE  RetryBackoff(n) \in 1..MaxRetryBackoffMinutes
<1>1. n * n \in Nat \ {0}
  OBVIOUS
<1> QED
  BY <1>1 DEF RetryBackoff, Least, MaxRetryBackoffMinutes

\* ... and no shorter after one more failure.
LEMMA BackoffGrows ==
  ASSUME NEW n \in Nat
  PROVE  RetryBackoff(n) <= RetryBackoff(n + 1)
<1>1. n * n \in Nat /\ (n + 1) * (n + 1) = n * n + 2 * n + 1
  OBVIOUS
<1> DEFINE a == n * n
           b == (n + 1) * (n + 1)
<1>2. a \in Nat /\ b \in Nat /\ a <= b
  BY <1>1
<1> HIDE DEF a, b
<1>3. Least(a * 5, 120) <= Least(b * 5, 120)
  BY <1>2 DEF Least
<1> QED
  BY <1>3 DEF RetryBackoff, MaxRetryBackoffMinutes, a, b

\* The dates the two functions give: none unless the source is checked
\* automatically, and then one within the interval.
DateFits(date, m, stopped, i, d) ==
  IF ShouldAutoCheck(m, stopped) THEN date \in 1..EffectiveInterval(i, d)
                                 ELSE date = Never

LEMMA InitialDateFits ==
  ASSUME NEW m \in Mode, NEW s \in BOOLEAN, NEW i \in Intervals \cup {0}, NEW d \in Intervals
  PROVE  DateFits(InitialNextCheck(m, s, i, d), m, s, i, d)
BY IntervalType DEF DateFits, InitialNextCheck

LEMMA NextDateFits ==
  ASSUME NEW m \in Mode, NEW s \in BOOLEAN, NEW i \in Intervals \cup {0}, NEW d \in Intervals,
         NEW n \in Nat, NEW success \in BOOLEAN
  PROVE  DateFits(NextScheduledCheck(m, s, i, d, n, success), m, s, i, d)
<1>1. EffectiveInterval(i, d) \in Nat \ {0}
  BY IntervalType
<1>2. CASE ~ShouldAutoCheck(m, s)
  BY <1>2 DEF DateFits, NextScheduledCheck
<1>3. CASE ShouldAutoCheck(m, s) /\ (success \/ n <= 0)
  BY <1>1, <1>3 DEF DateFits, NextScheduledCheck
<1>4. CASE ShouldAutoCheck(m, s) /\ ~(success \/ n <= 0)
  <2>1. RetryBackoff(n) \in 1..MaxRetryBackoffMinutes
    BY <1>4, BackoffRange
  <2>2. Least(RetryBackoff(n), EffectiveInterval(i, d)) \in 1..EffectiveInterval(i, d)
    BY <1>1, <2>1 DEF Least, MaxRetryBackoffMinutes
  <2> QED
    BY <1>4, <2>2 DEF DateFits, NextScheduledCheck
<1> QED
  BY <1>2, <1>3, <1>4

-----------------------------------------------------------------------------
(* The invariant *)

\* The status agrees with the count of failures: what makes the health shown right.
CountFits ==
  /\ last = "failed" => failures > 0
  /\ last # "failed" => failures = 0

IInv == TypeOK /\ DatesFollowSettings /\ CountFits

\* A new date that fits keeps dates and settings together.
LEMMA FittingDate ==
  ASSUME NEW date, NEW m \in Mode, NEW s \in BOOLEAN, NEW i \in Intervals \cup {0},
         NEW d \in Intervals, DateFits(date, m, s, i, d)
  PROVE  /\ date \in Nat \cup {Never}
         /\ (date = Never) <=> ~ShouldAutoCheck(m, s)
         /\ date <= EffectiveInterval(i, d)
BY IntervalType DEF DateFits, Never

LEMMA InitIInv == Init => IInv
<1> SUFFICES ASSUME Init PROVE IInv
  OBVIOUS
<1>1. /\ mode \in Mode
      /\ own \in Intervals \cup {0}
      /\ default \in Intervals
      /\ paused \in BOOLEAN
  BY DEF Init, Mode
<1>2. DateFits(wait, mode, paused, own, default)
  BY <1>1, InitialDateFits DEF Init
<1> QED
  BY <1>1, <1>2, FittingDate DEF Init, IInv, TypeOK, DatesFollowSettings, CountFits

\* Checks: the date is kept or replaced by one that fits.
LEMMA FinalizeStep ==
  ASSUME IInv, NEW trigger \in {"scheduled", "manual"}, NEW success \in BOOLEAN,
         Finalize(trigger, success)
  PROVE  IInv'
<1>1. failures' \in Nat /\ last' \in {"success", "failed"} /\ CountFits'
  BY DEF IInv, TypeOK, CountFits, Finalize
<1>2. mode' = mode /\ own' = own /\ default' = default /\ paused' = paused
  BY DEF Finalize, settings
<1>3. CASE trigger = "scheduled" \/ wait <= 0
  <2>1. DateFits(wait', mode, paused, own, default)
    BY <1>1, <1>3, NextDateFits DEF IInv, TypeOK, Finalize
  <2> QED
    BY <1>1, <1>2, <2>1, FittingDate DEF IInv, TypeOK, DatesFollowSettings
<1>4. CASE ~(trigger = "scheduled" \/ wait <= 0)
  BY <1>1, <1>2, <1>4 DEF IInv, TypeOK, DatesFollowSettings, Finalize
<1> QED
  BY <1>3, <1>4

\* Changes of the settings replace the date.
LEMMA RescheduleStep ==
  ASSUME IInv, mode' \in Mode, own' \in Intervals \cup {0}, default' \in Intervals,
         paused' \in BOOLEAN, UNCHANGED <<failures, last>>, Reschedule
  PROVE  IInv'
<1>1. DateFits(wait', mode', paused', own', default')
  BY InitialDateFits DEF Reschedule
<1> QED
  BY <1>1, FittingDate DEF IInv, TypeOK, DatesFollowSettings, CountFits

LEMMA NextIInv == IInv /\ [Next]_vars => IInv'
<1> SUFFICES ASSUME IInv, [Next]_vars PROVE IInv'
  OBVIOUS
<1>1. CASE Elapse
  <2>1. wait' \in Nat /\ wait' <= wait /\ wait # Never
    BY <1>1, ScheduleAssumption DEF Elapse, IInv, TypeOK, Never
  <2>2. EffectiveInterval(own, default) \in Nat
    BY IntervalType DEF IInv, TypeOK
  <2>3. UNCHANGED <<mode, own, default, paused, failures, last>>
    BY <1>1 DEF Elapse, settings
  <2> QED
    BY <2>1, <2>2, <2>3 DEF IInv, TypeOK, DatesFollowSettings, CountFits, Never
<1>2. CASE ScheduledCheck
  BY <1>2, FinalizeStep DEF ScheduledCheck
<1>3. CASE ManualCheck
  BY <1>3, FinalizeStep DEF ManualCheck
<1>4. CASE UpdateSource
  BY <1>4, RescheduleStep DEF UpdateSource, IInv, TypeOK
<1>5. CASE UpdateSourceSchedule
  BY <1>5, RescheduleStep DEF UpdateSourceSchedule, IInv, TypeOK
<1>6. CASE SetMissingDate
  <2>1. DateFits(wait', mode, paused, own, default)
    BY <1>6, InitialDateFits DEF SetMissingDate, IInv, TypeOK
  <2> QED
    BY <1>6, <2>1, FittingDate
    DEF SetMissingDate, settings, IInv, TypeOK, DatesFollowSettings, CountFits
<1>7. CASE UNCHANGED vars
  BY <1>7 DEF vars, IInv, TypeOK, DatesFollowSettings, CountFits
<1> QED
  BY <1>1, <1>2, <1>3, <1>4, <1>5, <1>6, <1>7 DEF Next

-----------------------------------------------------------------------------
(* Theorems *)

\* The invariant holds in every behaviour.
THEOREM Invariance == Spec => []IInv
BY InitIInv, NextIInv, PTL DEF Spec

\* Type correctness.
THEOREM TypeCorrect == Spec => []TypeOK
<1>1. IInv => TypeOK
  BY DEF IInv
<1> QED
  BY <1>1, Invariance, PTL

\* recalculateSourceSchedules, AdminUpdateSource and finalizeSourceCheck leave a
\* source with a date exactly when it is checked automatically, within its interval.
THEOREM DatesFollow == Spec => []DatesFollowSettings
<1>1. IInv => DatesFollowSettings
  BY DEF IInv
<1> QED
  BY <1>1, Invariance, PTL

\* ComputeHealthStatus never hides failures.
THEOREM FailuresShow == Spec => []FailuresAreShown
<1>1. IInv => FailuresAreShown
  BY DEF IInv, TypeOK, CountFits, FailuresAreShown, ComputeHealthStatus, ShouldAutoCheck,
     Mode
<1> QED
  BY <1>1, Invariance, PTL

\* NextScheduledCheckAt: retries come within the limits and never closer together
\* while a source keeps failing.
THEOREM BackingOff == Spec => RetriesBackOff
<1> DEFINE longest == Least(MaxRetryBackoffMinutes, EffectiveInterval(own, default))
           Backs == ScheduledCheck /\ failures' > failures
                    => /\ wait' \in 1..longest
                       /\ failures > 0 => wait' >= Least(RetryBackoff(failures), longest)
<1>1. IInv /\ [Next]_vars => [Backs]_vars
  <2> SUFFICES ASSUME IInv, ScheduledCheck, failures' > failures
               PROVE  /\ wait' \in 1..longest
                      /\ failures > 0 => wait' >= Least(RetryBackoff(failures), longest)
    OBVIOUS
  <2> DEFINE I == EffectiveInterval(own, default)
             r == RetryBackoff(failures)
             next == RetryBackoff(failures + 1)
  <2>1. failures \in Nat /\ I \in Nat \ {0}
    BY IntervalType DEF IInv, TypeOK
  <2>2. failures' = failures + 1 /\ wait' = Least(next, I)
    <3>1. PICK success \in BOOLEAN : Finalize("scheduled", success)
      BY DEF ScheduledCheck
    <3>2. ~success /\ failures' = failures + 1
      BY <2>1, <3>1 DEF Finalize
    <3>3. wait' = NextScheduledCheck(mode, paused, own, default, failures + 1, FALSE)
      BY <3>1, <3>2 DEF Finalize
    <3>4. ShouldAutoCheck(mode, paused) /\ ~(failures + 1 <= 0)
      BY <2>1 DEF ScheduledCheck
    <3> QED
      BY <3>2, <3>3, <3>4 DEF NextScheduledCheck
  <2>3. next \in 1..MaxRetryBackoffMinutes
    BY <2>1, BackoffRange
  <2>4. failures > 0 => r \in 1..MaxRetryBackoffMinutes /\ r <= next
    BY <2>1, BackoffRange, BackoffGrows
  <2> HIDE DEF I, r, next
  <2>5. /\ Least(next, I) \in 1..Least(MaxRetryBackoffMinutes, I)
        /\ failures > 0 => Least(next, I) >= Least(r, Least(MaxRetryBackoffMinutes, I))
    BY <2>1, <2>3, <2>4 DEF Least, MaxRetryBackoffMinutes
  <2> QED
    BY <2>2, <2>5 DEF I, r
<1> QED
  BY <1>1, Invariance, PTL DEF Spec, RetriesBackOff

-----------------------------------------------------------------------------
(* Workspace *)

\* While the slot holds a summary that no request crossed, no request has
\* anything left to write that changes what that person keeps.
NothingLeft ==
  homeCache # None /\ crossed = "no" =>
    \A r \in Post : call[r] # None => ~Disturbs(call[r], homeCache.by)

\* An event that is to be written is that of the workflow, and the only one.
EventsFit ==
  \A t \in Notice \ unsure, r \in Post :
    call[r] # None /\ call[r].event = t =>
      /\ call[r].act = workflow[t]
      /\ \A q \in Post : call[q] # None /\ call[q].event = t => q = r

Forms == Status \cup {"reset"}

\* Only workflows have events.
EventsOfForms ==
  \A r \in Post : call[r] # None /\ call[r].event # None => call[r].act \in Forms

WInv ==
  /\ WorkspaceTypeOK /\ EventsOfForms
  /\ HomeShowsOwnChanges /\ NothingLeft
  /\ HistoryEndsWithWorkflow /\ EventsFit

-----------------------------------------------------------------------------
(* What the steps do to the requests *)

LEMMA NewCall ==
  ASSUME WorkspaceTypeOK, NEW r \in Post, NEW p \in Person, NEW act \in Act,
         NEW todo \in SUBSET (Notice \cup Search), Arrive(r, p, act, todo)
  PROVE  /\ call' \in [Post -> Call \cup {None}]
         /\ call'[r] = [by |-> p, act |-> act, todo |-> todo, event |-> None]
         /\ \A q \in Post \ {r} : call'[q] = call[q]
<1>1. [by |-> p, act |-> act, todo |-> todo, event |-> None] \in Call
  BY DEF Call
<1>2. QED
  BY <1>1 DEF Arrive, WorkspaceTypeOK

\* A handler is an arrival with an act and rows of its own.
LEMMA Handlers ==
  ASSUME NEW r \in Post, NEW p \in Person,
         \/ \E t \in Notice :
              \/ ToggleBookmark(r, p, t) \/ RemoveBookmark(r, p, t)
              \/ ResetWorkflow(r, p, t) \/ \E form \in Status : UpdateWorkflow(r, p, t, form)
         \/ \E s \in Search : SavedSearches(r, p, s) \/ DeleteSavedSearch(r, p, s)
         \/ \E selected \in SUBSET Notice : BulkTenders(r, p, selected)
  PROVE  \E act \in Act, todo \in SUBSET (Notice \cup Search) : Arrive(r, p, act, todo)
<1>1. CASE \E t \in Notice :
             \/ ToggleBookmark(r, p, t) \/ RemoveBookmark(r, p, t)
             \/ ResetWorkflow(r, p, t) \/ \E form \in Status : UpdateWorkflow(r, p, t, form)
  <2>1. PICK t \in Notice :
          \/ ToggleBookmark(r, p, t) \/ RemoveBookmark(r, p, t)
          \/ ResetWorkflow(r, p, t) \/ \E form \in Status : UpdateWorkflow(r, p, t, form)
    BY <1>1
  <2>2. \E act \in Act : Arrive(r, p, act, {t})
    BY <2>1 DEF ToggleBookmark, RemoveBookmark, ResetWorkflow, UpdateWorkflow, Act
  <2>3. {t} \in SUBSET (Notice \cup Search)
    OBVIOUS
  <2>4. QED
    BY <2>2, <2>3
<1>2. CASE \E s \in Search : SavedSearches(r, p, s) \/ DeleteSavedSearch(r, p, s)
  <2>1. PICK s \in Search : SavedSearches(r, p, s) \/ DeleteSavedSearch(r, p, s)
    BY <1>2
  <2>2. \E act \in Act : Arrive(r, p, act, {s})
    BY <2>1 DEF SavedSearches, DeleteSavedSearch, Act
  <2>3. {s} \in SUBSET (Notice \cup Search)
    OBVIOUS
  <2>4. QED
    BY <2>2, <2>3
<1>3. CASE \E selected \in SUBSET Notice : BulkTenders(r, p, selected)
  <2>1. PICK selected \in SUBSET Notice : BulkTenders(r, p, selected)
    BY <1>3
  <2>2. \E act \in Act : Arrive(r, p, act, selected)
    BY <2>1 DEF BulkTenders, Act
  <2>3. QED
    BY <2>2
<1>4. QED
  BY <1>1, <1>2, <1>3

\* A request has written a row: it holds the same, less that row.
LEMMA OneWritten ==
  ASSUME WorkspaceTypeOK, NEW r \in Post, call[r] # None, NEW x,
         call' = [call EXCEPT ![r].todo = @ \ {x}]
  PROVE  /\ call' \in [Post -> Call \cup {None}]
         /\ call'[r].by = call[r].by /\ call'[r].act = call[r].act
         /\ call'[r].todo \subseteq call[r].todo /\ call'[r].event = call[r].event
         /\ \A q \in Post \ {r} : call'[q] = call[q]
<1>1. call[r] \in Call
  BY DEF WorkspaceTypeOK
<1>2. call[r].todo \ {x} \in SUBSET (Notice \cup Search)
  BY <1>1 DEF Call
<1>3. QED
  BY <1>1, <1>2 DEF WorkspaceTypeOK, Call

-----------------------------------------------------------------------------
(* Each step keeps the invariant *)

LEMMA ArriveKeeps ==
  ASSUME WInv, NEW r \in Post, NEW p \in Person, NEW act \in Act,
         NEW todo \in SUBSET (Notice \cup Search), Arrive(r, p, act, todo)
  PROVE  WInv'
<1>1. /\ call' \in [Post -> Call \cup {None}]
      /\ call'[r].event = None
      /\ \A q \in Post \ {r} : call'[q] = call[q]
  <2>1. WorkspaceTypeOK
    BY DEF WInv
  <2>2. /\ call' \in [Post -> Call \cup {None}]
        /\ call'[r] = [by |-> p, act |-> act, todo |-> todo, event |-> None]
        /\ \A q \in Post \ {r} : call'[q] = call[q]
    BY <2>1, NewCall
  <2>3. QED
    BY <2>2
<1>2. call[r] = None /\ homeCache' = None
      /\ UNCHANGED <<bookmarks, searches, workflow, history, crossed, unsure>>
  BY DEF Arrive
<1>3. WorkspaceTypeOK'
  BY <1>1, <1>2 DEF WInv, WorkspaceTypeOK
<1>4. HomeShowsOwnChanges' /\ NothingLeft'
  BY <1>2 DEF HomeShowsOwnChanges, NothingLeft
<1>5. ASSUME NEW t \in Notice PROVE Awaited(t)' <=> Awaited(t)
  BY <1>1, <1>2, WorkspaceAssumption DEF Awaited
<1>6. HistoryEndsWithWorkflow'
  BY <1>2, <1>5 DEF WInv, HistoryEndsWithWorkflow
<1>7. EventsFit'
  BY <1>1, <1>2, WorkspaceAssumption DEF WInv, EventsFit
<1>8. EventsOfForms'
  BY <1>1 DEF WInv, EventsOfForms
<1>9. QED
  BY <1>3, <1>4, <1>6, <1>7, <1>8 DEF WInv

LEMMA WriteBookmarkKeeps ==
  ASSUME WInv, NEW r \in Post, NEW t \in Notice, WriteBookmark(r, t)
  PROVE  WInv'
<1>1. /\ call[r] # None /\ call[r] \in Call
      /\ t \in call[r].todo /\ call[r].event = None
      /\ UNCHANGED <<searches, workflow, history, homeCache, crossed, unsure>>
  BY DEF WriteBookmark, Ready, WInv, WorkspaceTypeOK
<1>2. /\ call' \in [Post -> Call \cup {None}]
      /\ call'[r].by = call[r].by /\ call'[r].act = call[r].act
      /\ call'[r].todo \subseteq call[r].todo /\ call'[r].event = call[r].event
      /\ \A q \in Post \ {r} : call'[q] = call[q]
  <2>1. call' = [call EXCEPT ![r].todo = @ \ {t}]
    BY DEF WriteBookmark
  <2>2. WorkspaceTypeOK
    BY DEF WInv
  <2>3. QED
    BY <1>1, <2>1, <2>2, OneWritten
<1>3. /\ bookmarks' \in [Person -> SUBSET Notice]
      /\ \A p \in Person \ {call[r].by} : bookmarks'[p] = bookmarks[p]
  BY <1>1 DEF WriteBookmark, WInv, WorkspaceTypeOK, Call
<1>4. WorkspaceTypeOK'
  BY <1>1, <1>2, <1>3 DEF WInv, WorkspaceTypeOK
<1>5. homeCache # None /\ crossed = "no" => homeCache.by # call[r].by /\ homeCache.by \in Person
  BY <1>1 DEF WInv, NothingLeft, Disturbs, WorkspaceTypeOK, Summary
<1>6. HomeShowsOwnChanges'
  BY <1>1, <1>3, <1>5 DEF WInv, HomeShowsOwnChanges, Saved
<1>7. NothingLeft'
  BY <1>1, <1>2 DEF WInv, NothingLeft, Disturbs, Saved
<1>8. ASSUME NEW u \in Notice PROVE Awaited(u)' <=> Awaited(u)
  BY <1>1, <1>2, WorkspaceAssumption DEF Awaited
<1>9. HistoryEndsWithWorkflow'
  BY <1>1, <1>8 DEF WInv, HistoryEndsWithWorkflow
<1>10. EventsFit'
  BY <1>1, <1>2, WorkspaceAssumption DEF WInv, EventsFit
<1>11. EventsOfForms'
  BY <1>1, <1>2 DEF WInv, EventsOfForms
<1>12. QED
  BY <1>4, <1>6, <1>7, <1>9, <1>10, <1>11 DEF WInv

LEMMA WriteSearchKeeps ==
  ASSUME WInv, NEW r \in Post, NEW s \in Search, WriteSearch(r, s)
  PROVE  WInv'
<1>1. /\ call[r] # None /\ call[r] \in Call
      /\ s \in call[r].todo /\ call[r].event = None
      /\ UNCHANGED <<bookmarks, workflow, history, homeCache, crossed, unsure>>
  BY DEF WriteSearch, Ready, WInv, WorkspaceTypeOK
<1>2. /\ call' \in [Post -> Call \cup {None}]
      /\ call'[r].by = call[r].by /\ call'[r].act = call[r].act
      /\ call'[r].todo \subseteq call[r].todo /\ call'[r].event = call[r].event
      /\ \A q \in Post \ {r} : call'[q] = call[q]
  <2>1. call' = [call EXCEPT ![r].todo = @ \ {s}]
    BY DEF WriteSearch
  <2>2. WorkspaceTypeOK
    BY DEF WInv
  <2>3. QED
    BY <1>1, <2>1, <2>2, OneWritten
<1>3. searches' \in [Search -> Person \cup {None}]
  BY <1>1 DEF WriteSearch, WInv, WorkspaceTypeOK, Call
<1>4. WorkspaceTypeOK'
  BY <1>1, <1>2, <1>3 DEF WInv, WorkspaceTypeOK
<1>5. ASSUME homeCache # None, crossed = "no"
      PROVE  Saved(homeCache.by)' = Saved(homeCache.by)
  <2>1. homeCache.by # call[r].by /\ homeCache.by # None
    BY <1>1, <1>5, WorkspaceAssumption DEF WInv, NothingLeft, Disturbs, WorkspaceTypeOK, Summary
  <2>2. CASE call[r].act = "search"
    <3>1. searches[s] # homeCache.by
      BY <1>1, <1>5, <2>2 DEF WInv, NothingLeft, Disturbs, Saved
    <3>2. searches' = [searches EXCEPT ![s] = call[r].by]
      BY <2>2 DEF WriteSearch
    <3>3. QED
      BY <1>1, <2>1, <3>1, <3>2 DEF Saved, WInv, WorkspaceTypeOK
  <2>3. CASE call[r].act = "forget"
    <3>1. searches' = [searches EXCEPT ![s] = IF @ = call[r].by THEN None ELSE @]
      BY <2>3 DEF WriteSearch
    <3>2. QED
      BY <1>1, <2>1, <3>1 DEF Saved, WInv, WorkspaceTypeOK
  <2>4. QED
    BY <2>2, <2>3 DEF WriteSearch
<1>6. HomeShowsOwnChanges'
  BY <1>1, <1>5 DEF WInv, HomeShowsOwnChanges
<1>7. NothingLeft'
  BY <1>1, <1>2, <1>5 DEF WInv, NothingLeft, Disturbs
<1>8. ASSUME NEW u \in Notice PROVE Awaited(u)' <=> Awaited(u)
  BY <1>1, <1>2, WorkspaceAssumption DEF Awaited
<1>9. HistoryEndsWithWorkflow'
  BY <1>1, <1>8 DEF WInv, HistoryEndsWithWorkflow
<1>10. EventsFit'
  BY <1>1, <1>2, WorkspaceAssumption DEF WInv, EventsFit
<1>11. EventsOfForms'
  BY <1>1, <1>2 DEF WInv, EventsOfForms
<1>12. QED
  BY <1>4, <1>6, <1>7, <1>9, <1>10, <1>11 DEF WInv

\* The tender is sure of its event if nobody waits for another.
LEMMA WriteWorkflowKeeps ==
  ASSUME WInv, NEW r \in Post, NEW t \in Notice, WriteWorkflow(r, t)
  PROVE  WInv'
<1>1. /\ call[r] # None /\ call[r] \in Call
      /\ t \in call[r].todo /\ call[r].event = None /\ call[r].act \in Forms
      /\ UNCHANGED <<bookmarks, searches, history, homeCache, crossed>>
  BY DEF WriteWorkflow, Ready, WInv, WorkspaceTypeOK, Forms
<1>2. /\ call' \in [Post -> Call \cup {None}] /\ call'[r] \in Call
      /\ call'[r].by = call[r].by /\ call'[r].act = call[r].act
      /\ call'[r].todo \subseteq call[r].todo /\ call'[r].event = t
      /\ \A q \in Post \ {r} : call'[q] = call[q]
  <2>1. call' = [call EXCEPT ![r].todo = @ \ {t}, ![r].event = t]
    BY DEF WriteWorkflow
  <2>2. WorkspaceTypeOK
    BY DEF WInv
  <2>3. call[r].todo \ {t} \in SUBSET (Notice \cup Search)
    BY <1>1 DEF Call
  <2>4. QED
    BY <1>1, <2>1, <2>2, <2>3 DEF WorkspaceTypeOK, Call
<1>3. /\ workflow' \in [Notice -> Status \cup {"reset", None}]
      /\ workflow'[t] = call[r].act
      /\ \A u \in Notice \ {t} : workflow'[u] = workflow[u]
  BY <1>1 DEF WriteWorkflow, WInv, WorkspaceTypeOK, Forms
<1>4. /\ unsure' \subseteq Notice
      /\ \A u \in Notice \ {t} : u \in unsure' <=> u \in unsure
      /\ t \notin unsure' => ~Awaited(t)
  BY DEF WriteWorkflow, WInv, WorkspaceTypeOK
<1>5. WorkspaceTypeOK'
  BY <1>1, <1>2, <1>3, <1>4 DEF WInv, WorkspaceTypeOK
<1>6. HomeShowsOwnChanges'
  BY <1>1 DEF WInv, HomeShowsOwnChanges, Saved
<1>7. NothingLeft'
  BY <1>1, <1>2 DEF WInv, NothingLeft, Disturbs, Saved
<1>8. call'[r] # None /\ Awaited(t)'
  BY <1>2, WorkspaceAssumption DEF Awaited
<1>9. ASSUME NEW u \in Notice \ {t} PROVE Awaited(u)' <=> Awaited(u)
  BY <1>1, <1>2, <1>8, WorkspaceAssumption DEF Awaited
<1>10. HistoryEndsWithWorkflow'
  BY <1>1, <1>3, <1>4, <1>8, <1>9 DEF WInv, HistoryEndsWithWorkflow
<1>11. EventsFit'
  <2> SUFFICES ASSUME NEW u \in (Notice \ unsure)', NEW q \in Post,
                      call'[q] # None, call'[q].event = u
               PROVE  /\ call'[q].act = workflow'[u]
                      /\ \A o \in Post : call'[o] # None /\ call'[o].event = u => o = q
    BY DEF EventsFit
  <2>1. CASE u = t
    <3>1. \A o \in Post \ {r} : ~(call[o] # None /\ call[o].event = t)
      BY <1>4, <2>1 DEF Awaited
    <3>2. \A o \in Post : call'[o] # None /\ call'[o].event = t => o = r
      BY <1>2, <3>1
    <3>3. QED
      BY <1>2, <1>3, <2>1, <3>2
  <2>2. CASE u # t
    <3>1. u \in Notice \ unsure /\ q # r /\ workflow'[u] = workflow[u]
      BY <1>2, <1>3, <1>4, <2>2
    <3>2. \A o \in Post : call'[o] # None /\ call'[o].event = u => o # r /\ call[o] # None /\ call[o].event = u
      BY <1>2, <2>2
    <3>3. QED
      BY <1>2, <3>1, <3>2 DEF WInv, EventsFit
  <2>3. QED
    BY <2>1, <2>2
<1>12. EventsOfForms'
  BY <1>1, <1>2 DEF WInv, EventsOfForms
<1>13. QED
  BY <1>5, <1>6, <1>7, <1>10, <1>11, <1>12 DEF WInv

LEMMA AddEventKeeps ==
  ASSUME WInv, NEW r \in Post, AddEvent(r)
  PROVE  WInv'
<1> DEFINE t == call[r].event
<1>1. /\ call[r] # None /\ call[r] \in Call /\ t \in Notice
      /\ UNCHANGED <<bookmarks, searches, workflow, homeCache, crossed>>
  BY DEF AddEvent, WInv, WorkspaceTypeOK, Call
<1>2. /\ call' \in [Post -> Call \cup {None}]
      /\ call'[r].by = call[r].by /\ call'[r].todo = call[r].todo
      /\ call'[r].act = call[r].act /\ call'[r].event = None
      /\ \A q \in Post \ {r} : call'[q] = call[q]
  BY <1>1 DEF AddEvent, WInv, WorkspaceTypeOK, Call
<1>3. \/ /\ unsure' = unsure
         /\ history' = [history EXCEPT ![t] = call[r].act]
      \/ unsure' = unsure \cup {t} /\ history' = history
  BY DEF AddEvent
<1>4. \A u \in Notice \ unsure' : u \notin unsure
  BY <1>3
<1>5. t \notin unsure => call[r].act = workflow[t] /\ \A q \in Post : call[q] # None /\ call[q].event = t => q = r
  BY <1>1 DEF WInv, EventsFit
<1>6. history' \in [Notice -> Status \cup {"reset", None}]
  BY <1>1, <1>3, WorkspaceAssumption DEF WInv, EventsOfForms, Forms, WorkspaceTypeOK
<1>7. WorkspaceTypeOK'
  BY <1>1, <1>2, <1>3, <1>6 DEF WInv, WorkspaceTypeOK
<1>8. HomeShowsOwnChanges' /\ NothingLeft'
  BY <1>1, <1>2 DEF WInv, HomeShowsOwnChanges, NothingLeft, Disturbs, Saved
<1>9. EventsOfForms'
  BY <1>1, <1>2 DEF WInv, EventsOfForms
<1>10. \A u \in Notice \ {t} : Awaited(u)' <=> Awaited(u)
  BY <1>1, <1>2, WorkspaceAssumption DEF Awaited
<1>11. HistoryEndsWithWorkflow'
  <2> SUFFICES ASSUME NEW u \in (Notice \ unsure)', ~Awaited(u)'
               PROVE  history'[u] = workflow'[u]
    BY DEF HistoryEndsWithWorkflow
  <2>1. CASE u = t
    <3>1. t \notin unsure /\ t \notin unsure'
      BY <1>4, <2>1
    <3>2. history' = [history EXCEPT ![t] = call[r].act]
      BY <1>3, <3>1
    <3>3. QED
      BY <1>1, <1>5, <2>1, <3>1, <3>2 DEF WInv, WorkspaceTypeOK
  <2>2. CASE u # t
    <3>1. history'[u] = history[u] /\ u \in Notice \ unsure /\ ~Awaited(u)
      BY <1>1, <1>3, <1>4, <1>10, <2>2 DEF WInv, WorkspaceTypeOK
    <3>2. QED
      BY <1>1, <3>1 DEF WInv, HistoryEndsWithWorkflow
  <2>3. QED
    BY <2>1, <2>2
<1>12. EventsFit'
  BY <1>1, <1>2, <1>4, WorkspaceAssumption DEF WInv, EventsFit
<1>13. QED
  BY <1>7, <1>8, <1>9, <1>11, <1>12 DEF WInv

\* A request that ends before its event leaves the tender unsure.
LEMMA EndKeeps ==
  ASSUME WInv, NEW r \in Post, End(r)
  PROVE  WInv'
<1>1. /\ call[r] # None /\ call[r] \in Call
      /\ UNCHANGED <<bookmarks, searches, workflow, history, homeCache, crossed>>
  BY DEF End, WInv, WorkspaceTypeOK
<1>2. /\ call' \in [Post -> Call \cup {None}] /\ call'[r] = None
      /\ \A q \in Post \ {r} : call'[q] = call[q]
  BY DEF End, WInv, WorkspaceTypeOK
<1>3. /\ unsure' \subseteq Notice /\ unsure \subseteq unsure'
      /\ call[r].event # None => call[r].event \in unsure'
  BY <1>1 DEF End, WInv, WorkspaceTypeOK, Call
<1>4. WorkspaceTypeOK'
  BY <1>1, <1>2, <1>3 DEF WInv, WorkspaceTypeOK
<1>5. HomeShowsOwnChanges' /\ NothingLeft'
  BY <1>1, <1>2 DEF WInv, HomeShowsOwnChanges, NothingLeft, Disturbs, Saved
<1>6. EventsOfForms'
  BY <1>2 DEF WInv, EventsOfForms
<1>7. \A u \in Notice \ unsure' : Awaited(u)' <=> Awaited(u)
  BY <1>2, <1>3, WorkspaceAssumption DEF Awaited
<1>8. HistoryEndsWithWorkflow'
  BY <1>1, <1>3, <1>7 DEF WInv, HistoryEndsWithWorkflow
<1>9. EventsFit'
  BY <1>1, <1>2, <1>3 DEF WInv, EventsFit
<1>10. QED
  BY <1>4, <1>5, <1>6, <1>8, <1>9 DEF WInv

\* What is counted is what there is, and the mark says whether it may change.
LEMMA HomeKeeps ==
  ASSUME WInv, NEW p \in Person, Home(p)
  PROVE  WInv'
<1>1. /\ homeCache' = [by |-> p, bookmarks |-> bookmarks[p], searches |-> Saved(p)]
      /\ crossed' = IF \E r \in Post : call[r] # None /\ Disturbs(call[r], p)
                    THEN "yes" ELSE "no"
      /\ UNCHANGED <<bookmarks, searches, workflow, history, call, unsure>>
  BY DEF Home
<1>2. homeCache' \in Summary
  BY <1>1 DEF WInv, WorkspaceTypeOK, Summary, Saved
<1>3. WorkspaceTypeOK'
  BY <1>1, <1>2 DEF WInv, WorkspaceTypeOK
<1>4. HomeShowsOwnChanges'
  BY <1>1 DEF HomeShowsOwnChanges, Saved
<1>5. NothingLeft'
  BY <1>1 DEF NothingLeft, Disturbs, Saved
<1>6. EventsOfForms' /\ EventsFit'
  BY <1>1 DEF WInv, EventsOfForms, EventsFit
<1>7. HistoryEndsWithWorkflow'
  BY <1>1 DEF WInv, HistoryEndsWithWorkflow, Awaited
<1>8. QED
  BY <1>3, <1>4, <1>5, <1>6, <1>7 DEF WInv

LEMMA ExpireKeeps ==
  ASSUME WInv, Expire
  PROVE  WInv'
BY DEF Expire, WInv, WorkspaceTypeOK, HomeShowsOwnChanges, NothingLeft, Disturbs,
       Saved, EventsOfForms, EventsFit, HistoryEndsWithWorkflow, Awaited

LEMMA StutterKeeps ==
  ASSUME WInv, UNCHANGED people
  PROVE  WInv'
BY DEF people, WInv, WorkspaceTypeOK, HomeShowsOwnChanges, NothingLeft, Disturbs,
       Saved, EventsOfForms, EventsFit, HistoryEndsWithWorkflow, Awaited

-----------------------------------------------------------------------------

LEMMA WInvInitially == WorkspaceInit => WInv
<1> SUFFICES ASSUME WorkspaceInit PROVE WInv
  OBVIOUS
<1>1. \A r \in Post : call[r] = None
  BY DEF WorkspaceInit
<1>2. WorkspaceTypeOK
  BY DEF WorkspaceInit, WorkspaceTypeOK
<1>3. HomeShowsOwnChanges /\ NothingLeft
  BY DEF WorkspaceInit, HomeShowsOwnChanges, NothingLeft
<1>4. HistoryEndsWithWorkflow
  BY DEF WorkspaceInit, HistoryEndsWithWorkflow
<1>5. EventsOfForms /\ EventsFit
  BY <1>1 DEF EventsOfForms, EventsFit
<1>6. QED
  BY <1>2, <1>3, <1>4, <1>5 DEF WInv

LEMMA WInvStep == WInv /\ [WorkspaceNext]_people => WInv'
<1> SUFFICES ASSUME WInv, [WorkspaceNext]_people PROVE WInv'
  OBVIOUS
<1>1. CASE UNCHANGED people
  BY <1>1, StutterKeeps
<1>2. CASE WorkspaceNext
  <2>1. ASSUME NEW r \in Post, NEW p \in Person,
               \/ \E t \in Notice :
                    \/ ToggleBookmark(r, p, t) \/ RemoveBookmark(r, p, t)
                    \/ ResetWorkflow(r, p, t) \/ \E form \in Status : UpdateWorkflow(r, p, t, form)
               \/ \E s \in Search : SavedSearches(r, p, s) \/ DeleteSavedSearch(r, p, s)
               \/ \E selected \in SUBSET Notice : BulkTenders(r, p, selected)
        PROVE  WInv'
    BY <2>1, Handlers, ArriveKeeps
  <2>2. ASSUME NEW r \in Post,
               \/ \E t \in Notice : WriteBookmark(r, t) \/ WriteWorkflow(r, t)
               \/ \E s \in Search : WriteSearch(r, s)
               \/ AddEvent(r) \/ End(r)
        PROVE  WInv'
    BY <2>2, WriteBookmarkKeeps, WriteWorkflowKeeps, WriteSearchKeeps, AddEventKeeps,
       EndKeeps
  <2>3. ASSUME NEW p \in Person, Home(p) PROVE WInv'
    BY <2>3, HomeKeeps
  <2>4. CASE Expire
    BY <2>4, ExpireKeeps
  <2>5. QED
    BY <1>2, <2>1, <2>2, <2>3, <2>4 DEF WorkspaceNext
<1>3. QED
  BY <1>1, <1>2

THEOREM WorkspaceInvariant == WorkspaceSpec => []WInv
<1>1. QED
  BY WInvInitially, WInvStep, PTL DEF WorkspaceSpec

\* The cached home page of a person counts what that person keeps, unless a
\* request that was still to change it, or to save over a search of that person,
\* was under way when it was computed.
THEOREM HomeFollowsChanges == WorkspaceSpec => []HomeShowsOwnChanges
<1>1. WInv => HomeShowsOwnChanges
  BY DEF WInv
<1>2. QED
  BY <1>1, WorkspaceInvariant, PTL

\* The newest event of a tender is its workflow, unless requests for it
\* overlapped or an event was lost.
THEOREM HistoryFollowsWorkflow == WorkspaceSpec => []HistoryEndsWithWorkflow
<1>1. WInv => HistoryEndsWithWorkflow
  BY DEF WInv
<1>2. QED
  BY <1>1, WorkspaceInvariant, PTL

\* The variables of the workspace have their types.
THEOREM WorkspaceTypes == WorkspaceSpec => []WorkspaceTypeOK
<1>1. WInv => WorkspaceTypeOK
  BY DEF WInv
<1>2. QED
  BY <1>1, WorkspaceInvariant, PTL

-----------------------------------------------------------------------------
(* SmartKeywords *)

\* The tender is stored as the copy says, but for its tags.
Same(l) == /\ rows[l.tender] # None
           /\ rows[l.tender].text = l.row.text /\ rows[l.tender].archived = l.row.archived

\* What is being done, by whom, and what is held meanwhile.
StepsFit ==
  /\ \A r \in Page : /\ step[r] \in {"idle", "count", "save", "replace"}
                     /\ \A l \in listed[r] : l.row.archived = "no"
  /\ \A w \in Writer : /\ step[w] \in {"idle", "row", "write", "index", "evaluate", "match"}
                       /\ step[w] # "idle" => listed[w] = {Held(w)}

\* A tender is gone that is stored as archived.
GoneIsArchived == \A t \in Tender : t \in gone <=> rows[t] # None /\ rows[t].archived = "yes"

\* What a page and a writer hold, unless it is outdated.
PageAgrees(r) ==
  step[r] = "replace" => \A l \in listed[r] : Same(l) /\ l.match = Match(l.row.text)

WriterAgrees(w) ==
  /\ step[w] = "write" /\ Held(w).row.archived = "no" => Held(w).tender \notin gone
  /\ step[w] \in {"index", "evaluate", "match"} => Same(Held(w))
  /\ step[w] = "match" => Held(w).match = Match(Held(w).row.text)

CopiesAgree ==
  /\ \A r \in Page \ outdated : PageAgrees(r)
  /\ \A w \in Writer \ outdated : WriterAgrees(w)

\* The index and the matches that are not doubtful.
IndexIsRight ==
  \A t \in Tender : <<t, "index">> \notin doubtful =>
    (index[t] = "active" <=> rows[t] # None /\ rows[t].archived = "no")

MatchIsRight ==
  \A t \in Tender : <<t, "match">> \notin doubtful /\ rows[t] # None /\ gate = "smart" =>
    (rows[t].archived = "no" => found[t] = Match(rows[t].text))

SmartInv ==
  SmartTypeOK /\ StepsFit /\ GoneIsArchived /\ CopiesAgree /\ IndexIsRight /\ MatchIsRight

-----------------------------------------------------------------------------

LEMMA EvaluationType ==
  ASSUME NEW text, NEW mode0, NEW groups0, DOMAIN groups0 \subseteq Group, NEW keywords0
  PROVE  Evaluate(text, mode0, groups0, keywords0) \in Evaluation
BY DEF Evaluate, Evaluation, TagsOf

LEMMA MatchType == \A text : Match(text) \in Evaluation
BY EvaluationType DEF Match, Groups

LEMMA MatchStays ==
  ASSUME UNCHANGED tenantRows
  PROVE  \A text : Match(text)' = Match(text)
BY DEF Match, Groups, Keywords, tenantRows

\* Off mode accepts everything.
LEMMA OffAccepts ==
  ASSUME gate # "smart", NEW text
  PROVE  Match(text).accepted = "yes"
BY DEF Match, Evaluate

LEMMA HeldIs ==
  ASSUME NEW w, NEW x, listed[w] = {x}
  PROVE  Held(w) = x
BY DEF Held

LEMMA HeldIsNext ==
  ASSUME NEW w, NEW x, listed'[w] = {x}
  PROVE  Held(w)' = x
BY DEF Held

LEMMA HeldStays ==
  ASSUME NEW w, listed'[w] = listed[w]
  PROVE  Held(w)' = Held(w)
BY DEF Held

LEMMA HeldType ==
  ASSUME SmartTypeOK, StepsFit, NEW w \in Writer, step[w] # "idle"
  PROVE  /\ Held(w) \in Listing
         /\ Held(w).tender \in Tender /\ Held(w).row \in TenderRow /\ Held(w).match \in Evaluation
         /\ listed[w] = {Held(w)}
BY DEF SmartTypeOK, StepsFit, Listing, Operation

\* What has been changed of a tender concerns no copy of it.
Kept(t) ==
  /\ rows'[t] = None <=> rows[t] = None
  /\ rows[t] # None => rows'[t].text = rows[t].text /\ rows'[t].archived = rows[t].archived
  /\ t \in gone' <=> t \in gone

LEMMA PageFrame ==
  ASSUME UNCHANGED tenantRows, NEW r, PageAgrees(r),
         step'[r] = step[r], listed'[r] = listed[r], \A l \in listed[r] : Kept(l.tender)
  PROVE  PageAgrees(r)'
BY MatchStays DEF PageAgrees, Kept, Same

LEMMA WriterFrame ==
  ASSUME UNCHANGED tenantRows, NEW w, WriterAgrees(w), step[w] # "idle" => listed[w] = {Held(w)},
         step'[w] = step[w], listed'[w] = listed[w], \A l \in listed[w] : Kept(l.tender)
  PROVE  WriterAgrees(w)'
<1>1. Held(w)' = Held(w)
  BY HeldStays
<1>2. CASE step[w] = "idle"
  BY <1>2 DEF WriterAgrees
<1>3. CASE step[w] # "idle"
  <2>1. Kept(Held(w).tender)
    BY <1>3
  <2> QED
    BY <1>1, <2>1, MatchStays DEF WriterAgrees, Kept, Same
<1> QED
  BY <1>2, <1>3

\* A step of p does no harm to the others: they hold nothing that it changes, or
\* are outdated.
LEMMA OthersAgree ==
  ASSUME SmartTypeOK, StepsFit, CopiesAgree, UNCHANGED tenantRows, NEW p \in Operation,
         \A q \in Operation \ {p} :
           /\ step'[q] = step[q] /\ listed'[q] = listed[q]
           /\ q \in outdated => q \in outdated'
         ,
         \A t \in Tender : Kept(t) \/ \A q \in Operation \ {p} : q \in Holding(t) => q \in outdated',
         p \in Page \ outdated' => PageAgrees(p)',
         p \in Writer \ outdated' => WriterAgrees(p)'
  PROVE  CopiesAgree'
<1>1. \A q \in Operation : \A l \in listed[q] : l.tender \in Tender /\ q \in Holding(l.tender)
  BY DEF SmartTypeOK, Listing, Holding
<1>2. ASSUME NEW q \in Operation \ {p}, q \notin outdated'
      PROVE  \A l \in listed[q] : Kept(l.tender)
  BY <1>1, <1>2
<1>3. ASSUME NEW q \in Page, q \notin outdated', q # p PROVE PageAgrees(q)'
  BY <1>2, <1>3, PageFrame DEF CopiesAgree, Operation
<1>4. ASSUME NEW q \in Writer, q \notin outdated', q # p PROVE WriterAgrees(q)'
  <2>1. WriterAgrees(q) /\ (step[q] # "idle" => listed[q] = {Held(q)})
    BY <1>4 DEF CopiesAgree, StepsFit, Operation
  <2> QED
    BY <1>2, <1>4, <2>1, WriterFrame DEF Operation
<1> QED
  BY <1>3, <1>4 DEF CopiesAgree

\* The rows, the indexes, the matches and the doubts about them stay as they are.
LEMMA RowsStay ==
  ASSUME SmartInv, UNCHANGED <<tenantRows, tenderRows, gone, doubtful>>
  PROVE  /\ GoneIsArchived' /\ IndexIsRight' /\ MatchIsRight'
         /\ \A t \in Tender : Kept(t)
BY MatchStays DEF SmartInv, tenantRows, tenderRows, GoneIsArchived, IndexIsRight,
   MatchIsRight, Kept

-----------------------------------------------------------------------------
(* Types *)

LEMMA TypesNext == SmartTypeOK /\ StepsFit /\ [SmartNext]_smartVars => SmartTypeOK'
<1> SUFFICES ASSUME SmartTypeOK, StepsFit, [SmartNext]_smartVars PROVE SmartTypeOK'
  OBVIOUS
<1> USE DEF SmartTypeOK, tenantRows, tenderRows, operations, smartNotes, Operation
<1>1. CASE UNCHANGED smartVars
  BY <1>1 DEF smartVars
<1>2. ASSUME NEW g \in Group, DeleteGroup(g) \/ \E form \in GroupForms : SaveGroup(g, form)
      PROVE  SmartTypeOK'
  BY <1>2, SmartAssumption DEF DeleteGroup, SaveGroup, Reconfigured, Evaluated
<1>3. ASSUME NEW i \in Row, DeleteKeyword(i) \/ \E form \in KeywordForms : SaveKeyword(i, form)
      PROVE  SmartTypeOK'
  BY <1>3, SmartAssumption DEF DeleteKeyword, SaveKeyword, Reconfigured, Evaluated
<1>4. ASSUME NEW row \in Seed, SeedGroup(row) \/ \E i \in Row : SeedKeyword(i, row)
      PROVE  SmartTypeOK'
  <2>1. row.group \in Group /\ row.word \in Word
    BY SmartAssumption
  <2>2. [flags |-> {}, exclude |-> {}, min |-> 1] \in GroupRow
    BY DEF GroupRow
  <2>3. [word |-> row.word, group |-> row.group, flags |-> {"enabled"}] \in KeywordRow
    BY <2>1 DEF KeywordRow
  <2>4. CASE SeedGroup(row)
    BY <2>1, <2>2, <2>4 DEF SeedGroup, Reconfigured, Evaluated
  <2>5. ASSUME NEW i \in Row, SeedKeyword(i, row) PROVE SmartTypeOK'
    BY <2>1, <2>3, <2>5 DEF SeedKeyword, Reconfigured, Evaluated
  <2> QED
    BY <1>4, <2>4, <2>5
<1>5. ASSUME NEW r \in Page,
             \/ \E to \in {"off", "smart"} : ReadSettings(r, to)
             \/ CountKeywords(r) \/ SaveSettings(r)
      PROVE  SmartTypeOK'
  BY <1>5 DEF ReadSettings, CountKeywords, SaveSettings, Advance, Ends, Evaluated
<1>6. ASSUME NEW r \in Page, ListTenders(r) PROVE SmartTypeOK'
  <2>1. \A t \in Tender : rows[t] # None =>
          [tender |-> t, row |-> rows[t], match |-> Match(rows[t].text)] \in Listing
    BY MatchType DEF Listing
  <2> DEFINE new == {[tender |-> t, row |-> rows[t], match |-> Match(rows[t].text)] :
                       t \in {u \in Tender : rows[u] # None /\ rows[u].archived = "no"}}
  <2>2. new \in SUBSET Listing
    BY <2>1
  <2> HIDE DEF new
  <2>3. listed' = [listed EXCEPT ![r] = new]
    BY <1>6 DEF ListTenders, new
  <2> QED
    BY <1>6, <2>2, <2>3 DEF ListTenders, Advance
<1>7. ASSUME NEW r \in Page, Replace(r) PROVE SmartTypeOK'
  <2>1. \A l \in listed[r] : l \in Listing /\ l.tender \in Tender /\ l.match \in Evaluation /\ l.row \in TenderRow
    BY DEF Listing
  <2>2. \A t \in ListedBy(listed[r]) :
          /\ t \in Tender
          /\ (CHOOSE l \in listed[r] : l.tender = t) \in listed[r]
    BY <2>1 DEF ListedBy
  <2>3. ListedBy(Retagged(r)) \subseteq ListedBy(listed[r])
    BY DEF ListedBy, Retagged
  <2> DEFINE match == [t \in ListedBy(listed[r]) |-> (CHOOSE l \in listed[r] : l.tender = t).match]
             row == [t \in ListedBy(Retagged(r)) |->
                [(CHOOSE l \in listed[r] : l.tender = t).row EXCEPT !.tags = match[t].tags]]
  <2>4. \A t \in DOMAIN match : match[t] \in Evaluation
    BY <2>1, <2>2
  <2>5. \A t \in DOMAIN row : row[t] \in TenderRow
    <3>1. \A x \in TenderRow, y \in Evaluation : [x EXCEPT !.tags = y.tags] \in TenderRow
      BY DEF TenderRow, Evaluation
    <3>2. SUFFICES ASSUME NEW t \in DOMAIN row PROVE row[t] \in TenderRow
      OBVIOUS
    <3> DEFINE x == (CHOOSE l \in listed[r] : l.tender = t).row
    <3>3. t \in ListedBy(listed[r])
      BY <2>3
    <3>4. x \in TenderRow /\ match[t] \in Evaluation
      BY <2>1, <2>2, <2>4, <3>3
    <3>5. row[t] = [x EXCEPT !.tags = match[t].tags]
      OBVIOUS
    <3> HIDE DEF x, match
    <3>6. [x EXCEPT !.tags = match[t].tags] \in TenderRow
      BY <3>1, <3>4
    <3> QED
      BY <3>5, <3>6
  <2>6. DOMAIN match \subseteq Tender /\ DOMAIN row \subseteq Tender
    BY <2>2, <2>3
  <2>7. /\ found' = [t \in Tender |-> IF t \in DOMAIN match THEN match[t] ELSE found[t]]
        /\ rows' = [t \in Tender |-> IF t \in DOMAIN row THEN row[t] ELSE rows[t]]
        /\ gone' \subseteq gone
        /\ outdated' \subseteq outdated \cup UNION {Holding(t) : t \in DOMAIN row}
        /\ doubtful' \subseteq doubtful \cup ((DOMAIN match) \X {"match", "index"})
    BY <1>7 DEF Replace
  <2> HIDE DEF match, row
  <2>8. outdated' \subseteq Operation
    BY <2>7 DEF Holding
  <2>9. /\ found' \in [Tender -> Evaluation \cup {None}]
        /\ rows' \in [Tender -> TenderRow \cup {None}]
    BY <2>4, <2>5, <2>7
  <2> QED
    BY <1>7, <2>6, <2>7, <2>8, <2>9 DEF Replace
<1>8. ASSUME NEW w \in Writer, NEW t \in Tender, NEW text \in Texts,
             SourceTender(w, t, text) \/ ExtractedTender(w, t, text)
      PROVE  SmartTypeOK'
  <2>0. text \in SUBSET Word /\ Match(text) \in Evaluation
    BY MatchType, SmartAssumption
  <2>1. CASE SourceTender(w, t, text)
    <3>1. [text |-> text, tags |-> Match(text).tags, archived |-> "no"] \in TenderRow
      BY <2>0 DEF TenderRow, Evaluation
    <3> DEFINE new == [text |-> text, tags |-> Match(text).tags, archived |-> "no"]
    <3>2. listed' = [listed EXCEPT ![w] = {[tender |-> t, match |-> NotYet, row |-> new]}]
      BY <2>1 DEF SourceTender
    <3>3. [tender |-> t, match |-> NotYet, row |-> new] \in Listing
      BY <3>1 DEF Listing, NotYet, Evaluation
    <3> HIDE DEF new
    <3> QED
      BY <2>1, <3>2, <3>3 DEF SourceTender, Advance
  <2>2. CASE ExtractedTender(w, t, text)
    <3>1. PICK tags \in {rows[t].tags} \cup {Match(text).tags} :
            listed' = [listed EXCEPT ![w] =
              {[tender |-> t, match |-> NotYet, row |-> [rows[t] EXCEPT !.text = text, !.tags = tags]]}]
      BY <2>2 DEF ExtractedTender
    <3>2. rows[t] \in TenderRow /\ tags \in SUBSET Group
      BY <2>0, <2>2 DEF ExtractedTender, TenderRow, Evaluation
    <3> DEFINE new == [rows[t] EXCEPT !.text = text, !.tags = tags]
    <3>3. new \in TenderRow
      BY <2>0, <3>2 DEF TenderRow
    <3> HIDE DEF new
    <3>4. [tender |-> t, match |-> NotYet, row |-> new] \in Listing
      BY <3>3 DEF Listing, NotYet, Evaluation
    <3>5. listed' = [listed EXCEPT ![w] = {[tender |-> t, match |-> NotYet, row |-> new]}]
      BY <3>1 DEF new
    <3> QED
      BY <2>2, <3>4, <3>5 DEF ExtractedTender, Advance
  <2> QED
    BY <1>8, <2>1, <2>2
<1>9. ASSUME NEW w \in Writer,
             \/ ReadRow(w) \/ WriteRow(w) \/ WriteIndex(w) \/ EvaluateTender(w) \/ NoSettings(w)
             \/ WriteMatch(w)
      PROVE  SmartTypeOK'
  <2>1. step[w] # "idle"
    BY <1>9 DEF ReadRow, WriteRow, WriteIndex, EvaluateTender, NoSettings, WriteMatch,
       Advance
  <2>2. /\ Held(w) \in Listing /\ Held(w).tender \in Tender
        /\ Held(w).row \in TenderRow /\ Held(w).match \in Evaluation
    BY <2>1, HeldType
  <2>3. CASE ReadRow(w)
    <3> DEFINE new == IF rows[Held(w).tender] # None /\ rows[Held(w).tender].archived = "yes"
                      THEN [Held(w) EXCEPT !.row.archived = "yes"] ELSE Held(w)
    <3>1. \A x \in TenderRow : [x EXCEPT !.archived = "yes"] \in TenderRow
      BY DEF TenderRow
    <3>2. \A l \in Listing, x \in TenderRow : [l EXCEPT !.row = x] \in Listing
      BY DEF Listing
    <3>3. [Held(w) EXCEPT !.row.archived = "yes"]
            = [Held(w) EXCEPT !.row = [Held(w).row EXCEPT !.archived = "yes"]]
      BY <2>2 DEF Listing
    <3>4. new \in Listing
      BY <2>2, <3>1, <3>2, <3>3
    <3>5. listed' = [listed EXCEPT ![w] = {new}]
      BY <2>3 DEF ReadRow
    <3>6. /\ step' = [step EXCEPT ![w] = "write"] /\ outdated' = outdated \ {w}
          /\ UNCHANGED <<tenantRows, tenderRows, wants, gone, doubtful>>
      BY <2>3 DEF ReadRow, Advance
    <3> HIDE DEF new
    <3> QED
      BY <3>4, <3>5, <3>6
  <2>4. CASE WriteRow(w) \/ WriteIndex(w) \/ NoSettings(w) \/ WriteMatch(w)
    BY <2>2, <2>4 DEF WriteRow, WriteIndex, NoSettings, WriteMatch, Advance, Done, Ends,
       Holding
  <2>5. CASE EvaluateTender(w)
    <3>1. [Held(w) EXCEPT !.match = Match(Held(w).row.text)] \in Listing
      BY <2>2, MatchType DEF Listing
    <3> QED
      BY <2>5, <3>1 DEF EvaluateTender, Advance
  <2> QED
    BY <1>9, <2>3, <2>4, <2>5
<1>10. ASSUME NEW expired \in SUBSET Tender, ListExpired(expired) PROVE SmartTypeOK'
  <2>1. \A t \in expired : [tender |-> t, row |-> rows[t], match |-> NotYet] \in Listing
    BY <1>10 DEF ListExpired, Listing, NotYet, Evaluation
  <2> QED
    BY <1>10, <2>1 DEF ListExpired, Advance
<1>11. CASE Archive
  <2> DEFINE expired == ListedBy(listed[Cleanup])
             row(t) == (CHOOSE l \in listed[Cleanup] : l.tender = t).row
  <2>1. \A t \in expired : t \in Tender /\ row(t) \in TenderRow
    BY DEF ListedBy, Listing
  <2>2. \A x \in TenderRow : [x EXCEPT !.archived = "yes"] \in TenderRow
    BY DEF TenderRow
  <2>3. /\ rows' = [t \in Tender |-> IF t \in expired
                                     THEN [row(t) EXCEPT !.archived = "yes"] ELSE rows[t]]
        /\ index' = [t \in Tender |-> IF t \in expired THEN "archived" ELSE index[t]]
        /\ outdated' = (outdated \cup UNION {Holding(t) : t \in expired}) \ {Cleanup}
        /\ gone' = gone \cup expired
        /\ doubtful' = doubtful \ (expired \X {"index"})
    BY <1>11 DEF Archive
  <2> HIDE DEF expired, row
  <2>4. outdated' \subseteq Operation
    BY <2>3 DEF Holding
  <2>5. rows' \in [Tender -> TenderRow \cup {None}]
    BY <2>1, <2>2, <2>3
  <2> QED
    BY <1>11, <2>1, <2>3, <2>4, <2>5, ZenonT(30) DEF Archive, Ends
<1>12. ASSUME NEW p \in Operation, CutOff(p) PROVE SmartTypeOK'
  BY <1>12 DEF CutOff, Done, Ends
<1> QED
  BY <1>1, <1>2, <1>3, <1>4, <1>5, <1>6, <1>7, <1>8, <1>9, <1>10, <1>11, <1>12 DEF SmartNext

-----------------------------------------------------------------------------
(* Who does what *)

LEMMA StepsFrame ==
  ASSUME SmartTypeOK, StepsFit, NEW p \in Operation,
         \A q \in Operation \ {p} : step'[q] = step[q] /\ listed'[q] = listed[q],
         p \in Page => /\ step'[p] \in {"idle", "count", "save", "replace"}
                       /\ \A l \in listed'[p] : l.row.archived = "no",
         p \in Writer => /\ step'[p] \in {"idle", "row", "write", "index", "evaluate", "match"}
                         /\ step'[p] # "idle" => \E l : listed'[p] = {l}
  PROVE  StepsFit'
<1>1. \A w : listed'[w] = listed[w] => Held(w)' = Held(w)
  BY HeldStays
<1>2. \A w, x : listed'[w] = {x} => Held(w)' = x
  BY HeldIsNext
<1>3. ASSUME NEW r \in Page
      PROVE  /\ step'[r] \in {"idle", "count", "save", "replace"}
             /\ \A l \in listed'[r] : l.row.archived = "no"
  BY DEF StepsFit, Operation
<1>4. ASSUME NEW w \in Writer, w # p
      PROVE  /\ step'[w] \in {"idle", "row", "write", "index", "evaluate", "match"}
             /\ step'[w] # "idle" => listed'[w] = {Held(w)'}
  <2>1. step'[w] = step[w] /\ listed'[w] = listed[w]
    BY <1>4 DEF Operation
  <2> QED
    BY <1>1, <2>1 DEF StepsFit
<1>5. ASSUME p \in Writer, step'[p] # "idle" PROVE listed'[p] = {Held(p)'}
  BY <1>2, <1>5
<1> QED
  BY <1>3, <1>4, <1>5 DEF StepsFit

LEMMA StepsNext == SmartTypeOK /\ StepsFit /\ [SmartNext]_smartVars => StepsFit'
<1> SUFFICES ASSUME SmartTypeOK, StepsFit, [SmartNext]_smartVars PROVE StepsFit'
  OBVIOUS
<1>0. ASSUME UNCHANGED <<step, listed>> PROVE StepsFit'
  BY <1>0, HeldStays DEF StepsFit
<1>1. CASE UNCHANGED smartVars
  BY <1>0, <1>1 DEF smartVars, operations
<1>2. CASE \/ \E g \in Group : DeleteGroup(g) \/ \E form \in GroupForms : SaveGroup(g, form)
           \/ \E i \in Row : DeleteKeyword(i) \/ \E form \in KeywordForms : SaveKeyword(i, form)
           \/ \E row \in Seed : SeedGroup(row) \/ \E i \in Row : SeedKeyword(i, row)
  <2>1. Reconfigured
    BY <1>2 DEF DeleteGroup, SaveGroup, DeleteKeyword, SaveKeyword, SeedGroup, SeedKeyword
  <2> QED
    BY <1>0, <2>1 DEF Reconfigured, operations
<1> USE SmartAssumption DEF Operation
<1>3. ASSUME NEW r \in Page,
             \/ \E to \in {"off", "smart"} : ReadSettings(r, to)
             \/ CountKeywords(r)
      PROVE  StepsFit'
  <2>1. /\ \A q \in Operation \ {r} : step'[q] = step[q]
        /\ step'[r] \in {"count", "save"} /\ listed' = listed
    BY <1>3 DEF ReadSettings, CountKeywords, Advance, SmartTypeOK
  <2>2. \A l \in listed[r] : l.row.archived = "no"
    BY DEF StepsFit
  <2> QED
    BY <2>1, <2>2, StepsFrame
<1>4. ASSUME NEW p \in Operation, Ends(p) PROVE StepsFit'
  <2>1. /\ \A q \in Operation \ {p} : step'[q] = step[q] /\ listed'[q] = listed[q]
        /\ step'[p] = "idle" /\ listed'[p] = {}
    BY <1>4 DEF Ends, SmartTypeOK
  <2> QED
    BY <2>1, StepsFrame
<1>5. ASSUME NEW r \in Page, ListTenders(r) PROVE StepsFit'
  <2>1. /\ \A q \in Operation \ {r} : step'[q] = step[q] /\ listed'[q] = listed[q]
        /\ step'[r] = "replace"
    BY <1>5 DEF ListTenders, Advance, SmartTypeOK
  <2>2. \A l \in listed'[r] : l.row.archived = "no"
    BY <1>5 DEF ListTenders, SmartTypeOK
  <2> QED
    BY <2>1, <2>2, StepsFrame
<1>6. ASSUME NEW r \in Page, Replace(r) PROVE StepsFit'
  <2>1. /\ \A q \in Operation \ {r} : step'[q] = step[q] /\ listed'[q] = listed[q]
        /\ step'[r] = "idle" /\ listed'[r] = {}
    BY <1>6 DEF Replace, SmartTypeOK
  <2> QED
    BY <2>1, StepsFrame
<1>7. ASSUME NEW w \in Writer, NEW t \in Tender, NEW text \in Texts,
             SourceTender(w, t, text) \/ ExtractedTender(w, t, text)
      PROVE  StepsFit'
  <2>1. /\ \A q \in Operation \ {w} : step'[q] = step[q] /\ listed'[q] = listed[q]
        /\ step'[w] = "row"
    BY <1>7, ZenonT(30) DEF SourceTender, ExtractedTender, Advance, SmartTypeOK
  <2>2. CASE SourceTender(w, t, text)
    BY <2>1, <2>2, StepsFrame DEF SourceTender, SmartTypeOK
  <2>3. CASE ExtractedTender(w, t, text)
    <3>1. PICK l : listed' = [listed EXCEPT ![w] = {l}]
      BY <2>3 DEF ExtractedTender
    <3> QED
      BY <2>1, <3>1, StepsFrame DEF SmartTypeOK
  <2> QED
    BY <1>7, <2>2, <2>3
<1>8. ASSUME NEW w \in Writer, ReadRow(w) \/ EvaluateTender(w) PROVE StepsFit'
  <2>1. /\ \A q \in Operation \ {w} : step'[q] = step[q] /\ listed'[q] = listed[q]
        /\ step'[w] \in {"write", "match"} /\ \E l : listed'[w] = {l}
    BY <1>8 DEF ReadRow, EvaluateTender, Advance, SmartTypeOK
  <2> QED
    BY <2>1, StepsFrame
<1>9. ASSUME NEW w \in Writer, WriteRow(w) \/ WriteIndex(w) PROVE StepsFit'
  <2>1. /\ \A q \in Operation \ {w} : step'[q] = step[q]
        /\ step'[w] \in {"index", "evaluate"} /\ listed' = listed /\ step[w] # "idle"
    BY <1>9 DEF WriteRow, WriteIndex, Advance, SmartTypeOK
  <2>2. listed[w] = {Held(w)}
    BY <2>1 DEF StepsFit
  <2> QED
    BY <2>1, <2>2, StepsFrame
<1>10. ASSUME NEW expired \in SUBSET Tender, ListExpired(expired) PROVE StepsFit'
  <2>1. \A q \in Operation \ {Cleanup} : step'[q] = step[q] /\ listed'[q] = listed[q]
    BY <1>10 DEF ListExpired, Advance, SmartTypeOK
  <2> QED
    BY <2>1, StepsFrame
<1> QED
  BY <1>1, <1>2, <1>3, <1>4, <1>5, <1>6, <1>7, <1>8, <1>9, <1>10
     DEF SmartNext, SaveSettings, NoSettings, WriteMatch, Archive, CutOff, Done

-----------------------------------------------------------------------------
(* The invariant, step by step *)

LEMMA ReconfiguredKeeps ==
  ASSUME SmartInv, Reconfigured, gate' = gate
  PROVE  GoneIsArchived' /\ CopiesAgree' /\ IndexIsRight' /\ MatchIsRight'
<1> USE DEF SmartInv, Reconfigured, tenderRows, operations
<1>1. GoneIsArchived' /\ IndexIsRight' /\ MatchIsRight'
  BY DEF GoneIsArchived, IndexIsRight, MatchIsRight
<1>2. \A w : Held(w)' = Held(w)
  BY HeldStays
<1>3. CopiesAgree'
  BY <1>2 DEF CopiesAgree, PageAgrees, WriterAgrees, Evaluated, Same, Operation
<1> QED
  BY <1>1, <1>3

\* A step of a page before it saves or after it.
LEMMA SettingsKeep ==
  ASSUME SmartInv, NEW r \in Page,
         (\E to \in {"off", "smart"} : ReadSettings(r, to)) \/ CountKeywords(r)
  PROVE  GoneIsArchived' /\ CopiesAgree' /\ IndexIsRight' /\ MatchIsRight'
<1>1. /\ UNCHANGED <<tenantRows, tenderRows, gone, doubtful>>
      /\ UNCHANGED <<outdated, listed>> /\ step'[r] \in {"count", "save"}
      /\ \A q \in Operation \ {r} : step'[q] = step[q]
  BY DEF ReadSettings, CountKeywords, Advance, smartNotes, SmartInv, SmartTypeOK, Operation
<1>2. GoneIsArchived' /\ IndexIsRight' /\ MatchIsRight' /\ \A t \in Tender : Kept(t)
  BY <1>1, RowsStay
<1>3. PageAgrees(r)'
  BY <1>1 DEF PageAgrees
<1>4. CopiesAgree'
  BY <1>1, <1>2, <1>3, OthersAgree, SmartAssumption DEF SmartInv, Operation
<1> QED
  BY <1>2, <1>4

LEMMA SaveSettingsKeeps ==
  ASSUME SmartInv, NEW r \in Page, SaveSettings(r)
  PROVE  GoneIsArchived' /\ CopiesAgree' /\ IndexIsRight' /\ MatchIsRight'
<1> USE DEF SmartInv, SaveSettings, Ends, tenderRows
<1>1. GoneIsArchived' /\ IndexIsRight' /\ MatchIsRight'
  BY DEF GoneIsArchived, IndexIsRight, MatchIsRight
<1>2. \A w \in Operation : w # r => Held(w)' = Held(w)
  BY HeldStays DEF SmartTypeOK
<1>3. /\ step'[r] = "idle" /\ \A q \in Operation \ {r} : step'[q] = step[q] /\ listed'[q] = listed[q]
      /\ outdated' = (outdated \cup Evaluated) \ {r}
  BY DEF SmartTypeOK, Operation
<1>4. CopiesAgree'
  BY <1>2, <1>3 DEF CopiesAgree, PageAgrees, WriterAgrees, Evaluated, Same, Operation
<1> QED
  BY <1>1, <1>4

\* An operation ends: what it held does not matter any more.
LEMMA CutOffKeeps ==
  ASSUME SmartInv, NEW p \in Operation, Done(p), UNCHANGED <<tenantRows, tenderRows, gone, doubtful>>
  PROVE  GoneIsArchived' /\ CopiesAgree' /\ IndexIsRight' /\ MatchIsRight'
<1>1. /\ step'[p] = "idle" /\ outdated' = outdated \ {p}
      /\ \A q \in Operation \ {p} : step'[q] = step[q] /\ listed'[q] = listed[q]
  BY DEF Done, Ends, SmartInv, SmartTypeOK
<1>2. GoneIsArchived' /\ IndexIsRight' /\ MatchIsRight' /\ \A t \in Tender : Kept(t)
  BY RowsStay
<1>3. PageAgrees(p)' /\ WriterAgrees(p)'
  BY <1>1 DEF PageAgrees, WriterAgrees
<1>4. CopiesAgree'
  BY <1>1, <1>2, <1>3, OthersAgree DEF SmartInv
<1> QED
  BY <1>2, <1>4

LEMMA ListTendersKeeps ==
  ASSUME SmartInv, NEW r \in Page, ListTenders(r)
  PROVE  GoneIsArchived' /\ CopiesAgree' /\ IndexIsRight' /\ MatchIsRight'
<1>1. /\ UNCHANGED <<tenantRows, tenderRows, gone, doubtful, outdated>>
      /\ \A q \in Operation \ {r} : step'[q] = step[q] /\ listed'[q] = listed[q]
      /\ listed'[r] = {[tender |-> t, row |-> rows[t], match |-> Match(rows[t].text)] :
                         t \in {u \in Tender : rows[u] # None /\ rows[u].archived = "no"}}
  BY DEF ListTenders, Advance, SmartInv, SmartTypeOK, smartNotes, Operation
<1>2. GoneIsArchived' /\ IndexIsRight' /\ MatchIsRight' /\ \A t \in Tender : Kept(t)
  BY <1>1, RowsStay
<1>3. PageAgrees(r)'
  BY <1>1, MatchStays DEF PageAgrees, Same, tenderRows
<1>4. CopiesAgree'
  BY <1>1, <1>2, <1>3, OthersAgree, SmartAssumption DEF SmartInv, Operation
<1> QED
  BY <1>2, <1>4

LEMMA ReplaceKeeps ==
  ASSUME SmartInv, NEW r \in Page, Replace(r)
  PROVE  GoneIsArchived' /\ CopiesAgree' /\ IndexIsRight' /\ MatchIsRight'
<1> DEFINE chosen(t) == CHOOSE l \in listed[r] : l.tender = t
           match == [t \in ListedBy(listed[r]) |-> chosen(t).match]
           row == [t \in ListedBy(Retagged(r)) |-> [chosen(t).row EXCEPT !.tags = match[t].tags]]
<1>1. /\ found' = [t \in Tender |-> IF t \in DOMAIN match THEN match[t] ELSE found[t]]
      /\ rows' = [t \in Tender |-> IF t \in DOMAIN row THEN row[t] ELSE rows[t]]
      /\ index' = [t \in Tender |-> IF t \in DOMAIN row THEN "active" ELSE index[t]]
      /\ IF r \in outdated
         THEN /\ outdated' = (outdated \cup UNION {Holding(t) : t \in DOMAIN row}) \ {r}
              /\ doubtful' = doubtful \cup ((DOMAIN match) \X {"match", "index"})
              /\ gone' = gone \ DOMAIN row
         ELSE /\ UNCHANGED outdated
              /\ doubtful' = doubtful \ (((DOMAIN match) \X {"match"}) \cup ((DOMAIN row) \X {"index"}))
              /\ UNCHANGED gone
      /\ UNCHANGED tenantRows
  BY DEF Replace
<1>2. /\ step[r] = "replace" /\ step'[r] = "idle" /\ r \in Operation
      /\ \A q \in Operation \ {r} : step'[q] = step[q] /\ listed'[q] = listed[q]
  BY DEF Replace, SmartInv, SmartTypeOK, Operation
<1>3. ASSUME NEW t \in ListedBy(listed[r])
      PROVE  /\ t \in Tender /\ chosen(t) \in listed[r] /\ chosen(t).tender = t
             /\ chosen(t).row \in TenderRow /\ chosen(t).row.archived = "no"
  <2>1. chosen(t) \in listed[r] /\ chosen(t).tender = t
    BY DEF ListedBy
  <2>2. chosen(t) \in Listing
    BY <2>1 DEF SmartInv, SmartTypeOK, Operation
  <2> HIDE DEF chosen
  <2> QED
    BY <2>1, <2>2 DEF SmartInv, StepsFit, Listing
<1>4. ListedBy(Retagged(r)) \subseteq ListedBy(listed[r])
  BY DEF ListedBy, Retagged
<1>5. ASSUME NEW t \in DOMAIN row
      PROVE  /\ t \in DOMAIN match /\ row[t] # None
             /\ row[t].text = chosen(t).row.text /\ row[t].archived = "no"
  <2> DEFINE x == chosen(t).row
  <2>1. t \in DOMAIN match /\ x \in TenderRow /\ x.archived = "no"
    BY <1>3, <1>4
  <2>2. row[t] = [x EXCEPT !.tags = match[t].tags]
    OBVIOUS
  <2>3. match[t] \in Evaluation
    <3>1. chosen(t) \in listed[r] /\ match[t] = chosen(t).match
      BY <1>3, <2>1
    <3> HIDE DEF chosen, match
    <3> QED
      BY <3>1 DEF SmartInv, SmartTypeOK, Listing, Operation
  <2> HIDE DEF x, match, row
  <2>4. [x EXCEPT !.tags = match[t].tags] \in TenderRow
    BY <2>1, <2>3 DEF TenderRow, Evaluation
  <2>5. row[t].text = x.text /\ row[t].archived = "no" /\ row[t] # None
    BY <2>1, <2>2, <2>4, SmartAssumption DEF TenderRow
  <2> QED
    BY <2>1, <2>5 DEF x
<1>6. /\ DOMAIN match = ListedBy(listed[r]) /\ DOMAIN row \subseteq DOMAIN match
      /\ \A t \in DOMAIN match : match[t] = chosen(t).match
  BY <1>4
<1> HIDE DEF chosen, match, row
<1>7. PageAgrees(r)' /\ r \notin Writer
  BY <1>2, SmartAssumption DEF PageAgrees
<1>8. CASE r \in outdated
  <2>1. GoneIsArchived' /\ IndexIsRight' /\ MatchIsRight'
    BY <1>1, <1>5, <1>6, <1>8, MatchStays
       DEF SmartInv, GoneIsArchived, IndexIsRight, MatchIsRight, tenantRows
  <2>2. ASSUME NEW t \in Tender
        PROVE  Kept(t) \/ \A q \in Operation \ {r} : q \in Holding(t) => q \in outdated'
    BY <1>1, <1>8 DEF Kept
  <2>3. CopiesAgree'
    BY <1>1, <1>2, <1>7, <1>8, <2>2, OthersAgree DEF SmartInv
  <2> QED
    BY <2>1, <2>3
<1>9. CASE r \notin outdated
  <2>1. \A t \in DOMAIN match : Same(chosen(t)) /\ match[t] = Match(rows[t].text)
    BY <1>2, <1>3, <1>6, <1>9 DEF SmartInv, CopiesAgree, PageAgrees, Same
  <2>2. \A t \in Tender : Kept(t)
    BY <1>1, <1>3, <1>5, <1>6, <1>9, <2>1 DEF Kept, Same
  <2>3. GoneIsArchived'
    BY <1>1, <1>9, <2>2 DEF SmartInv, GoneIsArchived, Kept
  <2>4. IndexIsRight'
    BY <1>1, <1>5, <1>9, <2>2 DEF SmartInv, IndexIsRight, Kept
  <2>5. MatchIsRight'
    BY <1>1, <1>6, <1>9, <2>1, <2>2, MatchStays DEF SmartInv, MatchIsRight, Kept, tenantRows
  <2>6. CopiesAgree'
    BY <1>1, <1>2, <1>7, <1>9, <2>2, OthersAgree DEF SmartInv
  <2> QED
    BY <2>3, <2>4, <2>5, <2>6
<1> QED
  BY <1>8, <1>9

\* A writer takes up a tender.
LEMMA TakeKeeps ==
  ASSUME SmartInv, NEW w \in Writer, NEW t \in Tender, NEW text \in Texts,
         SourceTender(w, t, text) \/ ExtractedTender(w, t, text)
  PROVE  GoneIsArchived' /\ CopiesAgree' /\ IndexIsRight' /\ MatchIsRight'
<1>1. /\ UNCHANGED <<tenantRows, tenderRows, gone, doubtful, outdated>>
      /\ \A q \in Operation \ {w} : step'[q] = step[q] /\ listed'[q] = listed[q]
      /\ step'[w] = "row"
  BY DEF SourceTender, ExtractedTender, Advance, SmartInv, SmartTypeOK, smartNotes,
     Operation
<1>2. GoneIsArchived' /\ IndexIsRight' /\ MatchIsRight' /\ \A u \in Tender : Kept(u)
  BY <1>1, RowsStay
<1>3. PageAgrees(w)' /\ WriterAgrees(w)'
  BY <1>1 DEF PageAgrees, WriterAgrees
<1>4. CopiesAgree'
  BY <1>1, <1>2, <1>3, OthersAgree DEF SmartInv, Operation
<1> QED
  BY <1>2, <1>4

\* It holds what it read: an archived tender as archived.
LEMMA ReadRowKeeps ==
  ASSUME SmartInv, NEW w \in Writer, ReadRow(w)
  PROVE  GoneIsArchived' /\ CopiesAgree' /\ IndexIsRight' /\ MatchIsRight'
<1> DEFINE t == Held(w).tender
           new == IF rows[t] # None /\ rows[t].archived = "yes"
                  THEN [Held(w) EXCEPT !.row.archived = "yes"] ELSE Held(w)
<1>1. /\ UNCHANGED <<tenantRows, tenderRows, gone, doubtful>>
      /\ \A q \in Operation \ {w} : /\ step'[q] = step[q] /\ listed'[q] = listed[q]
                                    /\ q \in outdated => q \in outdated'
      /\ step[w] = "row" /\ step'[w] = "write" /\ listed'[w] = {new}
  BY DEF ReadRow, Advance, SmartInv, SmartTypeOK, Operation
<1>2. GoneIsArchived' /\ IndexIsRight' /\ MatchIsRight' /\ \A u \in Tender : Kept(u)
  BY <1>1, RowsStay
<1>3. Held(w) \in Listing /\ t \in Tender /\ Held(w).row \in TenderRow
  BY <1>1, HeldType DEF SmartInv
<1>4. new.tender = t /\ (new.row.archived = "no" => t \notin gone)
  <2>1. [Held(w) EXCEPT !.row.archived = "yes"].tender = t
    BY <1>3 DEF Listing
  <2>2. [Held(w) EXCEPT !.row.archived = "yes"].row.archived = "yes"
    BY <1>3 DEF Listing, TenderRow
  <2> QED
    BY <1>3, <2>1, <2>2 DEF SmartInv, GoneIsArchived
<1> HIDE DEF new, t
<1>5. Held(w)' = new
  BY <1>1, HeldIsNext
<1>6. PageAgrees(w)' /\ WriterAgrees(w)'
  BY <1>1, <1>4, <1>5 DEF PageAgrees, WriterAgrees
<1>7. CopiesAgree'
  BY <1>1, <1>2, <1>6, OthersAgree DEF SmartInv, Operation
<1> QED
  BY <1>2, <1>7

LEMMA WriteRowKeeps ==
  ASSUME SmartInv, NEW w \in Writer, WriteRow(w)
  PROVE  GoneIsArchived' /\ CopiesAgree' /\ IndexIsRight' /\ MatchIsRight'
<1> DEFINE t == Held(w).tender
           row == Held(w).row
<1>1. /\ UNCHANGED <<tenantRows, index, found, listed>>
      /\ \A q \in Operation \ {w} : step'[q] = step[q] /\ listed'[q] = listed[q]
      /\ step[w] = "write" /\ step'[w] = "index" /\ w \in Operation
      /\ outdated' = outdated \cup (Holding(t) \ {w})
  BY DEF WriteRow, Advance, SmartInv, SmartTypeOK, Operation
<1>2. t \in Tender /\ row \in TenderRow /\ row # None /\ row.archived \in {"yes", "no"}
  BY <1>1, HeldType, SmartAssumption DEF SmartInv, TenderRow
<1>3. w \notin outdated /\ row.archived = "no" => t \notin gone
  BY <1>1 DEF SmartInv, CopiesAgree, WriterAgrees
<1>4. /\ \A u \in Tender \ {t} : rows'[u] = rows[u] /\ (u \in gone' <=> u \in gone)
      /\ rows'[t] = row
      /\ t \in gone' <=> row.archived = "yes"
  BY <1>2, <1>3 DEF WriteRow, SmartInv, SmartTypeOK
<1>5. doubtful' = doubtful \cup ({t} \X {"match", "index"})
  BY DEF WriteRow
<1> HIDE DEF t, row
<1>6. GoneIsArchived'
  BY <1>2, <1>4 DEF SmartInv, GoneIsArchived
<1>7. IndexIsRight'
  BY <1>1, <1>4, <1>5 DEF SmartInv, IndexIsRight
<1>8. MatchIsRight'
  BY <1>1, <1>4, <1>5, MatchStays DEF SmartInv, MatchIsRight, tenantRows
<1>9. \A u \in Tender : Kept(u) \/ \A q \in Operation \ {w} : q \in Holding(u) => q \in outdated'
  BY <1>1, <1>4 DEF Kept
<1>10. Held(w)' = Held(w)
  BY <1>1, HeldStays
<1>11. PageAgrees(w)' /\ WriterAgrees(w)'
  BY <1>1, <1>2, <1>4, <1>10 DEF PageAgrees, WriterAgrees, Same, t, row
<1>12. CopiesAgree'
  BY <1>1, <1>9, <1>11, OthersAgree DEF SmartInv
<1> QED
  BY <1>6, <1>7, <1>8, <1>12

LEMMA WriteIndexKeeps ==
  ASSUME SmartInv, NEW w \in Writer, WriteIndex(w)
  PROVE  GoneIsArchived' /\ CopiesAgree' /\ IndexIsRight' /\ MatchIsRight'
<1> DEFINE t == Held(w).tender
<1>1. /\ UNCHANGED <<tenantRows, rows, found, listed, outdated, gone>>
      /\ \A q \in Operation \ {w} : step'[q] = step[q] /\ listed'[q] = listed[q]
      /\ step[w] = "index" /\ step'[w] = "evaluate" /\ w \in Operation
      /\ index' = [index EXCEPT ![t] = IF Held(w).row.archived = "yes" THEN "archived" ELSE "active"]
      /\ doubtful' = IF w \in outdated THEN doubtful \cup {<<t, "index">>}
                     ELSE doubtful \ {<<t, "index">>}
  BY DEF WriteIndex, Advance, SmartInv, SmartTypeOK, Operation
<1>2. t \in Tender /\ Held(w).row.archived \in {"yes", "no"}
  BY <1>1, HeldType DEF SmartInv, TenderRow
<1>3. w \notin outdated => Same(Held(w))
  BY <1>1 DEF SmartInv, CopiesAgree, WriterAgrees
<1>4. GoneIsArchived' /\ \A u \in Tender : Kept(u)
  BY <1>1 DEF SmartInv, GoneIsArchived, Kept
<1>5. MatchIsRight'
  BY <1>1, MatchStays DEF SmartInv, MatchIsRight, tenantRows
<1>6. IndexIsRight'
  <2>1. ASSUME NEW u \in Tender, u # t, <<u, "index">> \notin doubtful'
        PROVE  index'[u] = "active" <=> rows'[u] # None /\ rows'[u].archived = "no"
    BY <1>1, <2>1 DEF SmartInv, IndexIsRight, SmartTypeOK
  <2>2. ASSUME <<t, "index">> \notin doubtful'
        PROVE  index'[t] = "active" <=> rows'[t] # None /\ rows'[t].archived = "no"
    BY <1>1, <1>2, <1>3, <2>2 DEF SmartInv, SmartTypeOK, Same
  <2> QED
    BY <2>1, <2>2 DEF IndexIsRight
<1>7. Held(w)' = Held(w)
  BY <1>1, HeldStays
<1>8. PageAgrees(w)' /\ (w \notin outdated' => WriterAgrees(w)')
  BY <1>1, <1>3, <1>7 DEF PageAgrees, WriterAgrees, Same
<1>9. CopiesAgree'
  BY <1>1, <1>4, <1>8, OthersAgree DEF SmartInv
<1> QED
  BY <1>4, <1>5, <1>6, <1>9

LEMMA EvaluateTenderKeeps ==
  ASSUME SmartInv, NEW w \in Writer, EvaluateTender(w)
  PROVE  GoneIsArchived' /\ CopiesAgree' /\ IndexIsRight' /\ MatchIsRight'
<1> DEFINE new == [Held(w) EXCEPT !.match = Match(Held(w).row.text)]
<1>1. /\ UNCHANGED <<tenantRows, tenderRows, gone, doubtful, outdated>>
      /\ \A q \in Operation \ {w} : step'[q] = step[q] /\ listed'[q] = listed[q]
      /\ step[w] = "evaluate" /\ step'[w] = "match" /\ w \in Operation /\ listed'[w] = {new}
  BY DEF EvaluateTender, Advance, SmartInv, SmartTypeOK, smartNotes, Operation
<1>2. GoneIsArchived' /\ IndexIsRight' /\ MatchIsRight' /\ \A u \in Tender : Kept(u)
  BY <1>1, RowsStay
<1>3. w \notin outdated => Same(Held(w))
  BY <1>1 DEF SmartInv, CopiesAgree, WriterAgrees
<1>4. /\ new.tender = Held(w).tender /\ new.row = Held(w).row
      /\ new.match = Match(Held(w).row.text)
  BY <1>1, HeldType DEF SmartInv, Listing
<1> HIDE DEF new
<1>5. Held(w)' = new
  BY <1>1, HeldIsNext
<1>6. PageAgrees(w)' /\ (w \notin outdated' => WriterAgrees(w)')
  BY <1>1, <1>3, <1>4, <1>5, MatchStays DEF PageAgrees, WriterAgrees, Same, tenderRows
<1>7. CopiesAgree'
  BY <1>1, <1>2, <1>6, OthersAgree DEF SmartInv
<1> QED
  BY <1>2, <1>7

LEMMA WriteMatchKeeps ==
  ASSUME SmartInv, NEW w \in Writer, WriteMatch(w)
  PROVE  GoneIsArchived' /\ CopiesAgree' /\ IndexIsRight' /\ MatchIsRight'
<1> DEFINE t == Held(w).tender
<1>1. /\ UNCHANGED <<tenantRows, rows, index, gone>>
      /\ \A q \in Operation \ {w} : step'[q] = step[q] /\ listed'[q] = listed[q]
      /\ step[w] = "match" /\ step'[w] = "idle" /\ w \in Operation /\ outdated' = outdated \ {w}
      /\ found' = [found EXCEPT ![t] = Held(w).match]
      /\ doubtful' = IF w \in outdated THEN doubtful \cup {<<t, "match">>}
                     ELSE doubtful \ {<<t, "match">>}
  BY DEF WriteMatch, Done, Ends, SmartInv, SmartTypeOK, Operation
<1>2. t \in Tender
  BY <1>1, HeldType DEF SmartInv
<1>3. w \notin outdated => Same(Held(w)) /\ Held(w).match = Match(Held(w).row.text)
  BY <1>1 DEF SmartInv, CopiesAgree, WriterAgrees
<1>4. GoneIsArchived' /\ \A u \in Tender : Kept(u)
  BY <1>1 DEF SmartInv, GoneIsArchived, Kept
<1>5. IndexIsRight'
  BY <1>1 DEF SmartInv, IndexIsRight
<1>6. MatchIsRight'
  <2>1. ASSUME NEW u \in Tender, u # t, <<u, "match">> \notin doubtful', rows'[u] # None, gate' = "smart",
               rows'[u].archived = "no"
        PROVE  found'[u] = Match(rows[u].text)
    BY <1>1, <2>1 DEF SmartInv, MatchIsRight, SmartTypeOK, tenantRows
  <2>2. ASSUME <<t, "match">> \notin doubtful'
        PROVE  found'[t] = Match(rows[t].text)
    BY <1>1, <1>2, <1>3, <2>2 DEF SmartInv, SmartTypeOK, Same
  <2> QED
    BY <1>1, <2>1, <2>2, MatchStays DEF MatchIsRight
<1>7. PageAgrees(w)' /\ WriterAgrees(w)'
  BY <1>1 DEF PageAgrees, WriterAgrees
<1>8. CopiesAgree'
  BY <1>1, <1>4, <1>7, OthersAgree DEF SmartInv
<1> QED
  BY <1>4, <1>5, <1>6, <1>8

\* The cleanup.
LEMMA ListExpiredKeeps ==
  ASSUME SmartInv, NEW expired \in SUBSET Tender, ListExpired(expired)
  PROVE  GoneIsArchived' /\ CopiesAgree' /\ IndexIsRight' /\ MatchIsRight'
<1>1. /\ UNCHANGED <<tenantRows, tenderRows, gone, doubtful, outdated>>
      /\ \A q \in Operation \ {Cleanup} : step'[q] = step[q] /\ listed'[q] = listed[q]
  BY DEF ListExpired, Advance, SmartInv, SmartTypeOK, smartNotes, Operation
<1>2. GoneIsArchived' /\ IndexIsRight' /\ MatchIsRight' /\ \A u \in Tender : Kept(u)
  BY <1>1, RowsStay
<1>3. CopiesAgree'
  BY <1>1, <1>2, OthersAgree, SmartAssumption DEF SmartInv, Operation
<1> QED
  BY <1>2, <1>3

LEMMA ArchiveKeeps ==
  ASSUME SmartInv, Archive
  PROVE  GoneIsArchived' /\ CopiesAgree' /\ IndexIsRight' /\ MatchIsRight'
<1> DEFINE expired == ListedBy(listed[Cleanup])
           row(t) == (CHOOSE l \in listed[Cleanup] : l.tender = t).row
<1>1. /\ rows' = [t \in Tender |-> IF t \in expired
                                   THEN [row(t) EXCEPT !.archived = "yes"] ELSE rows[t]]
      /\ index' = [t \in Tender |-> IF t \in expired THEN "archived" ELSE index[t]]
      /\ outdated' = (outdated \cup UNION {Holding(t) : t \in expired}) \ {Cleanup}
      /\ gone' = gone \cup expired
      /\ doubtful' = doubtful \ (expired \X {"index"})
      /\ UNCHANGED <<tenantRows, found>>
      /\ \A q \in Operation \ {Cleanup} : step'[q] = step[q] /\ listed'[q] = listed[q]
  BY DEF Archive, Ends, SmartInv, SmartTypeOK, Operation
<1>2. ASSUME NEW t \in expired
      PROVE  /\ [row(t) EXCEPT !.archived = "yes"] # None
             /\ [row(t) EXCEPT !.archived = "yes"].archived = "yes"
  <2>1. row(t) \in TenderRow
    BY DEF ListedBy, Listing, SmartInv, SmartTypeOK, Operation
  <2> HIDE DEF row
  <2>2. [row(t) EXCEPT !.archived = "yes"] \in TenderRow
    BY <2>1 DEF TenderRow
  <2> QED
    BY <2>1, <2>2, SmartAssumption DEF TenderRow
<1>3. \A t \in Tender : t \in expired => rows'[t] # None /\ rows'[t].archived = "yes"
  BY <1>1, <1>2
<1>4. \A t \in Tender : t \notin expired => rows'[t] = rows[t] /\ (t \in gone' <=> t \in gone)
  BY <1>1
<1> HIDE DEF expired, row
<1>5. GoneIsArchived'
  BY <1>1, <1>3, <1>4 DEF SmartInv, GoneIsArchived
<1>6. IndexIsRight'
  BY <1>1, <1>3, <1>4 DEF SmartInv, IndexIsRight
<1>7. MatchIsRight'
  BY <1>1, <1>3, <1>4, MatchStays DEF SmartInv, MatchIsRight, tenantRows
<1>8. \A t \in Tender : Kept(t) \/ \A q \in Operation \ {Cleanup} : q \in Holding(t) => q \in outdated'
  BY <1>1, <1>4 DEF Kept
<1>9. CopiesAgree'
  BY <1>1, <1>8, OthersAgree, SmartAssumption DEF SmartInv, Operation
<1> QED
  BY <1>5, <1>6, <1>7, <1>9

-----------------------------------------------------------------------------

LEMMA SmartInvInitially == SmartInit => SmartInv
BY SmartAssumption
   DEF SmartInit, SmartInv, SmartTypeOK, StepsFit, GoneIsArchived, CopiesAgree, PageAgrees, WriterAgrees,
       IndexIsRight, MatchIsRight, Operation

LEMMA SmartInvStep == SmartInv /\ [SmartNext]_smartVars => SmartInv'
<1> SUFFICES ASSUME SmartInv, [SmartNext]_smartVars
             PROVE  GoneIsArchived' /\ CopiesAgree' /\ IndexIsRight' /\ MatchIsRight'
  BY TypesNext, StepsNext DEF SmartInv
<1>1. CASE UNCHANGED smartVars
  <2>1. \A w : Held(w)' = Held(w)
    BY <1>1, HeldStays DEF smartVars, operations
  <2>2. GoneIsArchived' /\ IndexIsRight' /\ MatchIsRight'
    BY <1>1, RowsStay DEF smartVars, smartNotes
  <2>3. CopiesAgree'
    BY <1>1, <2>1, MatchStays
       DEF SmartInv, CopiesAgree, PageAgrees, WriterAgrees, Same, smartVars, smartNotes, tenderRows, operations
  <2> QED
    BY <2>2, <2>3
<1>2. CASE \/ \E g \in Group : DeleteGroup(g) \/ \E form \in GroupForms : SaveGroup(g, form)
           \/ \E i \in Row : DeleteKeyword(i) \/ \E form \in KeywordForms : SaveKeyword(i, form)
           \/ \E row \in Seed : SeedGroup(row) \/ \E i \in Row : SeedKeyword(i, row)
  BY <1>2, ReconfiguredKeeps
     DEF DeleteGroup, SaveGroup, DeleteKeyword, SaveKeyword, SeedGroup, SeedKeyword
<1>3. ASSUME NEW r \in Page,
             \/ \E to \in {"off", "smart"} : ReadSettings(r, to)
             \/ CountKeywords(r) \/ SaveSettings(r) \/ ListTenders(r) \/ Replace(r)
      PROVE  GoneIsArchived' /\ CopiesAgree' /\ IndexIsRight' /\ MatchIsRight'
  BY <1>3, SettingsKeep, SaveSettingsKeeps, ListTendersKeeps, ReplaceKeeps
<1>4. ASSUME NEW w \in Writer,
             \/ \E t \in Tender, text \in Texts : SourceTender(w, t, text) \/ ExtractedTender(w, t, text)
             \/ ReadRow(w) \/ WriteRow(w) \/ WriteIndex(w) \/ EvaluateTender(w) \/ NoSettings(w)
             \/ WriteMatch(w)
      PROVE  GoneIsArchived' /\ CopiesAgree' /\ IndexIsRight' /\ MatchIsRight'
  <2>1. CASE NoSettings(w)
    BY <2>1, CutOffKeeps DEF NoSettings, Operation
  <2> QED
    BY <1>4, <2>1, TakeKeeps, ReadRowKeeps, WriteRowKeeps, WriteIndexKeeps,
       EvaluateTenderKeeps,
       WriteMatchKeeps
<1>5. CASE Archive \/ \E expired \in SUBSET Tender : ListExpired(expired)
  BY <1>5, ListExpiredKeeps, ArchiveKeeps
<1>6. ASSUME NEW p \in Operation, CutOff(p)
      PROVE  GoneIsArchived' /\ CopiesAgree' /\ IndexIsRight' /\ MatchIsRight'
  BY <1>6, CutOffKeeps DEF CutOff
<1> QED
  BY <1>1, <1>2, <1>3, <1>4, <1>5, <1>6 DEF SmartNext

\* Rows, matches, the list and the copies that pages and writers hold fit together.
THEOREM SmartInvariant == SmartSpec => []SmartInv
BY SmartInvInitially, SmartInvStep, PTL DEF SmartSpec

\* SmartTypeOK: the keywords, tenders and copies of smart keyword extraction
\* have their types.
THEOREM SmartTypes == SmartSpec => []SmartTypeOK
BY SmartInvariant, PTL DEF SmartInv

\* PagesFollowKeywords: listTendersSQL lists a tender exactly if it has not been
\* archived and the keywords accept it, for any pages, writers and tenders, and
\* whatever of the matching and archiving overlaps; unless its match or its
\* index is from before a change.
THEOREM PagesShowAccepted == SmartSpec => []PagesFollowKeywords
<1>1. SmartInv => PagesFollowKeywords
  <2> SUFFICES ASSUME SmartInv, NEW t \in Tender
               PROVE  /\ <<t, "index">> \notin doubtful =>
                           (index[t] = "active" <=> rows[t] # None /\ t \notin gone)
                      /\ doubtful \cap ({t} \X {"match", "index"}) = {} =>
                           (Listed(t) <=> /\ rows[t] # None /\ t \notin gone
                                          /\ Match(rows[t].text).accepted = "yes")
    BY DEF PagesFollowKeywords
  <2>1. rows[t] # None => (t \notin gone <=> rows[t].archived = "no")
    BY DEF SmartInv, SmartTypeOK, TenderRow, GoneIsArchived
  <2>2. <<t, "index">> \notin doubtful => (index[t] = "active" <=> rows[t] # None /\ t \notin gone)
    BY <2>1 DEF SmartInv, IndexIsRight
  <2>3. ASSUME doubtful \cap ({t} \X {"match", "index"}) = {}
        PROVE  Listed(t) <=> /\ rows[t] # None /\ t \notin gone
                             /\ Match(rows[t].text).accepted = "yes"
    <3>1. <<t, "index">> \notin doubtful /\ <<t, "match">> \notin doubtful
      BY <2>3
    <3>2. CASE gate # "smart"
      BY <2>2, <3>1, <3>2, OffAccepts DEF Listed
    <3>3. CASE gate = "smart" /\ rows[t] # None /\ t \notin gone
      <4>1. found[t] = Match(rows[t].text) /\ found[t] # None
        BY <2>1, <3>1, <3>3, MatchType, SmartAssumption DEF SmartInv, MatchIsRight
      <4> QED
        BY <2>2, <3>1, <3>3, <4>1 DEF Listed
    <3> QED
      BY <2>2, <3>1, <3>2, <3>3 DEF Listed
  <2> QED
    BY <2>2, <2>3
<1> QED
  BY <1>1, SmartInvariant, PTL

-----------------------------------------------------------------------------
(* Side by side *)

\* What is proved of each component holds of the three side by side, although
\* MCSettings bounds some of their steps.
THEOREM SettingsAreComponents == MCSpec => Spec /\ SmartSpec /\ WorkspaceSpec
<1>1. MCInit => Init /\ SmartInit /\ WorkspaceInit
  BY DEF MCInit
<1>2. [MCNext]_<<vars, smartVars, people, part>>
        => [Next]_vars /\ [SmartNext]_smartVars /\ [WorkspaceNext]_people
  BY DEF MCNext
<1>3. QED
  BY <1>1, <1>2, PTL DEF MCSpec, Spec, SmartSpec, WorkspaceSpec

\* SettingsTypeOK: what administrators configure and people keep has its type.
THEOREM SettingsTypes == MCSpec => []SettingsTypeOK
<1>1. TypeOK /\ SmartTypeOK /\ WorkspaceTypeOK => SettingsTypeOK
  BY DEF SettingsTypeOK
<1>2. QED
  BY <1>1, SettingsAreComponents, TypeCorrect, SmartTypes, WorkspaceTypes, PTL

=============================================================================

--------------------------- MODULE SourceSchedule ---------------------------
(***************************************************************************)
(* The schedule of one source over time, in minutes: checks by the worker, *)
(* changes of the source and of the global schedule by administrators, and *)
(* restarts, one after the other.  SourceCheck has their interleavings and *)
(* abstracts the minutes.                                                  *)
(***************************************************************************)
EXTENDS Schedule

CONSTANTS
  Intervals,    \* the intervals administrators choose, in minutes
  Tick,         \* the grain of time, in minutes
  MaxFailures   \* bound: failures in a row

ASSUME ScheduleAssumption ==
  /\ Intervals \subseteq Nat \ {0}
  /\ Tick \in Nat \ {0}
  /\ MaxFailures \in Nat

VARIABLES
  mode,      \* the flags of the source
  own,       \* its IntervalMinutes, 0 for none
  default,   \* DefaultIntervalMinutes of the settings
  paused,    \* Paused of the settings
  failures,  \* ConsecutiveFailures
  last,      \* LastStatus
  wait       \* minutes until NextScheduledCheckAt, or Never

vars == <<mode, own, default, paused, failures, last, wait>>
settings == <<mode, own, default, paused>>

Init ==
  /\ mode = "auto" /\ own = 0 /\ paused = FALSE
  /\ default \in Intervals
  /\ failures = 0 /\ last = "configured"
  /\ wait = InitialNextCheck(mode, paused, own, default)

\* Mutant: the minutes since the date count as well.
ElapseBeyond ==
  /\ wait > 0
  /\ wait' = wait - Tick
  /\ UNCHANGED <<settings, failures, last>>

\* The worker sleeps (nextWait) and the date comes nearer, until it has passed.
Elapse ==
  /\ wait > 0
  /\ wait' = IF wait > Tick THEN wait - Tick ELSE 0
  /\ UNCHANGED <<settings, failures, last>>

\* finalizeSourceCheck: a scheduled check always gets a new date, one on request
\* only if there was none or it has passed.
Finalize(trigger, success) ==
  /\ failures' = IF success THEN 0 ELSE failures + 1
  /\ last' = IF success THEN "success" ELSE "failed"
  /\ wait' = IF trigger = "scheduled" \/ wait <= 0
             THEN NextScheduledCheck(mode, paused, own, default, failures', success)
             ELSE wait
  /\ UNCHANGED settings

ScheduledCheck ==
  /\ ShouldAutoCheck(mode, paused) /\ wait <= 0
  /\ \E success \in BOOLEAN :
       (success \/ failures < MaxFailures) /\ Finalize("scheduled", success)

ManualCheck ==
  /\ mode # "disabled"
  /\ \E success \in BOOLEAN :
       (success \/ failures < MaxFailures) /\ Finalize("manual", success)

\* Mutant: the running date is kept.
RescheduleIfUnset ==
  wait' = IF wait = Never THEN InitialNextCheck(mode', paused', own', default')
          ELSE wait

\* AdminUpdateSource and recalculateSourceSchedules replace the date.
Reschedule == wait' = InitialNextCheck(mode', paused', own', default')

UpdateSource ==
  /\ mode' \in Mode /\ own' \in Intervals \cup {0}
  /\ UNCHANGED <<default, paused, failures, last>>
  /\ Reschedule

UpdateSourceSchedule ==
  /\ default' \in Intervals /\ paused' \in BOOLEAN
  /\ UNCHANGED <<mode, own, failures, last>>
  /\ Reschedule

\* queueSourceChecks and ensureSourceHealthState set a date when there is none.
SetMissingDate ==
  /\ wait = Never
  /\ wait' = InitialNextCheck(mode, paused, own, default)
  /\ UNCHANGED <<settings, failures, last>>

Next ==
  \/ Elapse \/ ScheduledCheck \/ ManualCheck
  \/ UpdateSource \/ UpdateSourceSchedule \/ SetMissingDate

Spec == Init /\ [][Next]_vars

-----------------------------------------------------------------------------
(* Properties *)

TypeOK ==
  /\ mode \in Mode /\ own \in Intervals \cup {0}
  /\ default \in Intervals /\ paused \in BOOLEAN
  /\ failures \in Nat /\ last \in {"configured", "success", "failed"}
  /\ wait \in Nat \cup {Never}

\* A source has a date exactly when it is checked automatically, and the date is
\* never further away than its interval, whatever the order of checks, pauses and
\* changes of either interval.
DatesFollowSettings ==
  /\ (wait = Never) <=> ~ShouldAutoCheck(mode, paused)
  /\ wait <= EffectiveInterval(own, default)

\* The health page never calls a source healthy while its checks fail, and calls
\* it degraded from the third failure on, also after checks on request, pauses
\* and changes in between.
FailuresAreShown ==
  LET shown == ComputeHealthStatus(mode, paused, FALSE, FALSE, last, failures) IN
  /\ failures > 0 => shown # "healthy"
  /\ failures >= 3 /\ ShouldAutoCheck(mode, paused) => shown = "degraded"

\* A source that fails is tried again within two hours and within its interval,
\* and while it keeps failing the wait never gets shorter.
RetriesBackOff ==
  [][ScheduledCheck /\ failures' > failures
     => LET longest == Least(MaxRetryBackoffMinutes, EffectiveInterval(own, default)) IN
        /\ wait' \in 1..longest
        /\ failures > 0 => wait' >= Least(RetryBackoff(failures), longest)]_vars

=============================================================================

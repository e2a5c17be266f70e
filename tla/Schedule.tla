------------------------------ MODULE Schedule ------------------------------
(***************************************************************************)
(* The schedule arithmetic of source checks, package internal/source: when *)
(* a source is checked next and what its health is called.  Times are in   *)
(* minutes from now; Never is the zero time of NextScheduledCheckAt.  Of   *)
(* the flags of a source only the combinations the code tells apart are    *)
(* kept, as its mode: disabled, checked on request only, or automatically. *)
(***************************************************************************)
EXTENDS Integers

Never == -1
Mode == {"disabled", "manual", "auto"}

DefaultCheckIntervalMinutes == 360
MaxRetryBackoffMinutes == 120

NormalizedDefault(default, fallback) ==
  IF default > 0 THEN default
  ELSE IF fallback > 0 THEN fallback ELSE DefaultCheckIntervalMinutes

EffectiveInterval(own, default) ==
  IF own > 0 THEN own ELSE NormalizedDefault(default, DefaultCheckIntervalMinutes)

ShouldAutoCheck(mode, paused) == mode = "auto" /\ ~paused

InitialNextCheck(mode, paused, own, default) ==
  IF ShouldAutoCheck(mode, paused) THEN EffectiveInterval(own, default) ELSE Never

Least(a, b) == IF a < b THEN a ELSE b

\* Mutant: the backoff counts the failures before the one that has just happened.
RetryBackoffOffByOne(failures) ==
  Least((failures - 1) * (failures - 1) * 5, MaxRetryBackoffMinutes)

RetryBackoff(failures) == Least(failures * failures * 5, MaxRetryBackoffMinutes)

\* The next check after one that has just ended with this many failures in a row.
NextScheduledCheck(mode, paused, own, default, failures, success) ==
  CASE ~ShouldAutoCheck(mode, paused) -> Never
    [] ShouldAutoCheck(mode, paused) /\ (success \/ failures <= 0) ->
         EffectiveInterval(own, default)
    [] OTHER -> Least(RetryBackoff(failures), EffectiveInterval(own, default))

\* Mutant: the row's last status is enough to be called healthy or failing.
ComputeStatusByLast(mode, paused, running, pending, last, failures) ==
  IF mode = "disabled" THEN "disabled"
  ELSE IF last = "failed" THEN "failing"
  ELSE IF last = "success" THEN "healthy"
  ELSE "configured"

\* ComputeHealthStatus: the first case that applies.
ComputeHealthStatus(mode, paused, running, pending, last, failures) ==
  IF mode = "disabled" THEN "disabled"
  ELSE IF running THEN "running"
  ELSE IF pending THEN "queued"
  ELSE IF mode = "manual" THEN "manual-only"
  ELSE IF paused THEN "paused"
  ELSE IF last = "failed" THEN (IF failures >= 3 THEN "degraded" ELSE "failing")
  ELSE IF last = "success" THEN "healthy"
  ELSE "configured"

=============================================================================

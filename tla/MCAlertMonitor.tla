--------------------------- MODULE MCAlertMonitor ---------------------------
(* AlertMonitor with the job counts of a quiet and of a failing queue.     *)
EXTENDS AlertMonitor

Quiet == [queued |-> 0, processing |-> 1, retry |-> 0, failed |-> 1, oldest |-> 1]
Failing == [queued |-> 0, processing |-> 0, retry |-> 1, failed |-> 1, oldest |-> 1]
QuietOrFailing == {Quiet, Failing}

=============================================================================

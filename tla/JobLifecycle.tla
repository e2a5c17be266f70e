---------------------------- MODULE JobLifecycle ----------------------------
(***************************************************************************)
(* What the extraction queue promises about one job, with no tenders, no   *)
(* local copies and no order of calls: a job is submitted, a pass of the   *)
(* worker takes a batch of waiting jobs, each try ends in a result or in   *)
(* another wait, and there are at most MaxAttempts counted tries.  A job   *)
(* may be dropped at any time; only a repeatable job (the maintenance job) *)
(* is ever submitted a second time.  JobQueue implements this.             *)
(***************************************************************************)
EXTENDS Integers

CONSTANTS
  Job,          \* identifiers of jobs
  Repeatable,   \* those that are submitted again and again
  MaxAttempts   \* tries before a job is failed

VARIABLES
  stage,   \* where each job is
  tries    \* the counted tries of each job

vars == <<stage, tries>>

Waiting == {"queued", "retry"}

Init ==
  /\ stage = [id \in Job |-> "absent"]
  /\ tries = [id \in Job |-> 0]

Move(id, to, n) ==
  /\ stage' = [stage EXCEPT ![id] = to]
  /\ tries' = [tries EXCEPT ![id] = n]

Submit(id) ==
  /\ stage[id] = "absent" \/ id \in Repeatable
  /\ Move(id, "queued", 0)

Claim(S) ==
  /\ \A id \in S : stage[id] \in Waiting
  /\ stage' = [id \in Job |-> IF id \in S THEN "processing" ELSE stage[id]]
  /\ tries' = [id \in Job |-> IF id \in S THEN tries[id] + 1 ELSE tries[id]]

\* A try ends.  A job that is given up before its last try was refused, a
\* skipped job has its try given back.
Finish(id) ==
  /\ stage[id] = "processing"
  /\ \/ Move(id, "completed", tries[id])
     \/ Move(id, "failed", tries[id])
     \/ tries[id] < MaxAttempts /\ Move(id, "retry", tries[id])
     \/ Move(id, "skipped", tries[id] - 1)

\* Jobs disappear: old results, jobs of archived tenders, and with a restart of
\* the worker what it had in hand; a repeatable job that was submitted while the
\* worker had it in hand is then waiting.
Drop(S) ==
  \E again \in SUBSET (Repeatable \cap S) :
    /\ stage' = [id \in Job |-> IF id \in again THEN "queued"
                                ELSE IF id \in S THEN "absent" ELSE stage[id]]
    /\ tries' = [id \in Job |-> IF id \in S THEN 0 ELSE tries[id]]

Next ==
  \/ \E id \in Job : Submit(id) \/ Finish(id)
  \/ \E S \in SUBSET Job : Claim(S) \/ Drop(S)

Spec == Init /\ [][Next]_vars

=============================================================================

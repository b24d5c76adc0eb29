----------------------------- MODULE RunLifecycle ------------------------------
(***************************************************************************)
(* What the pipeline promises about each run record, whatever the scheduler, *)
(* the API, the workers and their crashes do in between: a run is executed *)
(* at most once per attempt, attempts go up one at a time and never past   *)
(* the job's retry limit, and a successful run is never touched again.     *)
(***************************************************************************)
EXTENDS Naturals

CONSTANTS Runs,   \* run ids
          Limit   \* [Runs -> Nat]: retries the run's job allows

VARIABLES status,      \* status of the run record
          attempt,     \* attempt of the run record
          executions   \* handler starts so far

vars == <<status, attempt, executions>>

Init ==
  /\ status = [r \in Runs |-> "none"]
  /\ attempt = [r \in Runs |-> 0]
  /\ executions = [r \in Runs |-> 0]

\* The run is announced as waiting for its first attempt.
Announce(r) ==
  /\ status[r] = "none"
  /\ status' = [status EXCEPT ![r] = "queued"]
  /\ UNCHANGED <<attempt, executions>>

\* A worker starts the attempt the run waits for (a trigger's run was not
\* announced).
Start(r) ==
  /\ status[r] \in {"none", "queued"}
  /\ executions[r] = attempt[r]
  /\ status' = [status EXCEPT ![r] = "running"]
  /\ executions' = [executions EXCEPT ![r] = @ + 1]
  /\ UNCHANGED attempt

\* The attempt in progress ends.
End(r) ==
  /\ status[r] = "running"
  /\ \E outcome \in {"success", "failed"} : status' = [status EXCEPT ![r] = outcome]
  /\ UNCHANGED <<attempt, executions>>

\* The next attempt is announced, after a failure or after an attempt whose
\* outcome could not be saved.
Requeue(r) ==
  /\ status[r] \in {"running", "failed"}
  /\ attempt[r] < Limit[r]
  /\ status' = [status EXCEPT ![r] = "queued"]
  /\ attempt' = [attempt EXCEPT ![r] = @ + 1]
  /\ UNCHANGED executions

Next == \E r \in Runs : Announce(r) \/ Start(r) \/ End(r) \/ Requeue(r)

Spec == Init /\ [][Next]_vars
================================================================================

---------------------------- MODULE FailureMemory -----------------------------
(***************************************************************************)
(* The failure memory of one job (failure_memory_enabled): the counter of  *)
(* consecutive failures and the cooldown that the scheduler's guard reads. *)
(*                                                                         *)
(* record_job_outcome reads the row from Redis, changes it and writes it   *)
(* back, and several worker slots do so at once.  The scheduler asks for   *)
(* the cooldown, then for active runs, and dispatches a step later; the    *)
(* retries it moves out of zset:delayed pass no guard.                     *)
(*                                                                         *)
(* Time is counted in units of Unit seconds, as what is left of the        *)
(* cooldown.  Runs are counted by attempt: JobPipeline follows each one.   *)
(***************************************************************************)
EXTENDS Naturals, FiniteSets, FiniteSetsExt

CONSTANTS
  Workers,      \* worker slots
  Threshold,    \* inputs.failure_threshold
  Base,         \* inputs.failure_cooldown_sec, in units
  CapSetting,   \* inputs.failure_cooldown_max_sec, in units, 0 when not set
  Unit,         \* seconds per unit
  Overlaps, \* inputs.allow_overlap
  MaxRetry,     \* retry_policy.max_retry
  MaxFails,     \* where the model stops counting (the cooldown is at its cap)
  MaxPending    \* bound on the runs that are queued, delayed or worked on

\* _record_failure_memory's default for the cap, and its lower limit.
Cap == IF CapSetting = 0 THEN Max({600 \div Unit, 4 * Base}) ELSE Max({CapSetting, Base})

ASSUME MemoryAssumption ==
  /\ {Threshold, Base, Unit, MaxFails, MaxPending} \subseteq Nat \ {0}
  /\ {CapSetting, MaxRetry} \subseteq Nat
  /\ Overlaps \in BOOLEAN
  /\ Threshold <= MaxFails /\ Base * 2^(MaxFails - Threshold) >= Cap
  /\ \A n \in 0..MaxFails : 2^n \in Nat

\* A definition X_... states a plausible bug of the X that follows it, to show
\* which property would catch it.  No action uses one.

VARIABLES
  row,       \* job:failure:state:<job>: the count and what is left of the cooldown
  inQueue,    \* [attempts -> Nat]: messages in the queue
  delayed,   \* [attempts -> Nat]: messages in zset:delayed
  looking,   \* how far the scheduler is with its dispatch decision
  pc,        \* where each worker slot stands
  hand,      \* attempt of the message it works on
  failed,    \* whether its handler failed
  read,      \* the row it read
  streak,    \* history: failures recorded since the last recorded success
  failures,  \* history: failures recorded, cut off at MaxFails
  late,      \* history: dispatches since the cooldown in force began
  crossed    \* history: two slots have changed the row at the same time

messages  == <<inQueue, delayed, looking>>
slots == <<pc, hand, failed, read>>
outcomes == <<streak, failures, late, crossed>>
memoryVars  == <<row, messages, slots, outcomes>>

Attempts == 0..MaxRetry
Rows == [fails : 0..MaxFails, left : 0..Cap]
NoFailure == [fails |-> 0, left |-> 0]
Goto(w, l) == pc' = [pc EXCEPT ![w] = l]

\* The slot is done with its message and forgets it.
Release(w) ==
  /\ Goto(w, "idle")
  /\ hand' = [hand EXCEPT ![w] = 0]
  /\ failed' = [failed EXCEPT ![w] = FALSE]

Pending == MapThenSumSet(LAMBDA k : inQueue[k] + delayed[k], Attempts) + Cardinality({w \in Workers : pc[w] # "idle"})

MemoryInit ==
  /\ row = NoFailure
  /\ inQueue = [k \in Attempts |-> 0] /\ delayed = [k \in Attempts |-> 0]
  /\ looking = "no"
  /\ pc = [w \in Workers |-> "idle"] /\ hand = [w \in Workers |-> 0]
  /\ failed = [w \in Workers |-> FALSE] /\ read = [w \in Workers |-> NoFailure]
  /\ streak = 0 /\ failures = 0 /\ late = 0 /\ crossed = FALSE

(***************************************************************************)
(* The scheduler                                                           *)
(***************************************************************************)
InCooldown_OffByOne == row.left > 1
InCooldown == row.left > 0

\* A run is active while it waits in the queue or is executed.
HasActiveRuns == (\E k \in Attempts : inQueue[k] > 0) \/ \E w \in Workers : pc[w] = "exec"

\* _boleh_dispatch_job reads the cooldown; in cooldown the job is skipped.
LookAtCooldown ==
  /\ looking = "no" /\ ~InCooldown
  /\ looking' = "cooldown passed"
  /\ UNCHANGED <<row, inQueue, delayed, slots, outcomes>>

\* It then asks for active runs (the other clauses are in DispatchGuard).
LookAtRuns ==
  /\ looking = "cooldown passed"
  /\ looking' = IF Overlaps \/ ~HasActiveRuns THEN "passed" ELSE "no"
  /\ UNCHANGED <<row, inQueue, delayed, slots, outcomes>>

\* The run is queued.
DispatchRun ==
  /\ looking = "passed"
  /\ Pending < MaxPending
  /\ looking' = "no"
  /\ inQueue' = [inQueue EXCEPT ![0] = @ + 1]
  /\ late' = IF row.left > 0 THEN late + 1 ELSE 0
  /\ UNCHANGED <<row, delayed, slots, streak, failures, crossed>>

\* process_due_jobs queues a retry.
RetryDue(k) ==
  /\ delayed[k] > 0
  /\ delayed' = [delayed EXCEPT ![k] = @ - 1]
  /\ inQueue' = [inQueue EXCEPT ![k] = @ + 1]
  /\ UNCHANGED <<row, looking, slots, outcomes>>

(***************************************************************************)
(* Workers                                                                 *)
(***************************************************************************)
Start(w, k) ==
  /\ pc[w] = "idle" /\ inQueue[k] > 0
  /\ inQueue' = [inQueue EXCEPT ![k] = @ - 1]
  /\ hand' = [hand EXCEPT ![w] = k]
  /\ Goto(w, "exec")
  /\ UNCHANGED <<row, delayed, looking, failed, read, outcomes>>

\* The handler ends and the run is saved: it is no longer active.
HandlerEnds(w, failure) ==
  /\ pc[w] = "exec"
  /\ failed' = [failed EXCEPT ![w] = failure]
  /\ Goto(w, "record")
  /\ UNCHANGED <<row, messages, hand, read, outcomes>>

\* The outcome cannot be saved: process_job_event ends before the failure
\* memory, and the worker goes on to the retry.
Abort(w) ==
  /\ pc[w] = "exec"
  /\ failed' = [failed EXCEPT ![w] = TRUE]
  /\ Goto(w, "retry")
  /\ UNCHANGED <<row, messages, hand, read, outcomes>>

\* record_job_outcome: get_job_failure_state.
ReadRow(w) ==
  /\ pc[w] = "record"
  /\ read' = [read EXCEPT ![w] = row]
  /\ Goto(w, "write")
  /\ UNCHANGED <<row, messages, hand, failed, outcomes>>

Counted(n) == Min({n + 1, MaxFails})
CooldownAfter_NoCap(n) == Base * 2^(n - Threshold)
CooldownAfter(n) == Min({Cap, Base * 2^(n - Threshold)})

AfterSuccess_KeepsCooldown(old) == [old EXCEPT !.fails = 0]
AfterSuccess_Counts(old) == [fails |-> Counted(old.fails), left |-> 0]
AfterSuccess_KeepsCount(old) == [old EXCEPT !.left = 0]
AfterSuccess(old) == NoFailure
AfterFailure(old) ==
  LET n == Counted(old.fails) IN
    [fails |-> n, left |-> IF n >= Threshold THEN CooldownAfter(n) ELSE old.left]

\* record_job_outcome: the changed row replaces whatever is there by now.
WriteRow(w) ==
  /\ pc[w] = "write"
  /\ row' = IF failed[w] THEN AfterFailure(read[w]) ELSE AfterSuccess(read[w])
  /\ streak' = IF failed[w] THEN Counted(streak) ELSE 0
  /\ failures' = IF failed[w] THEN Counted(failures) ELSE failures
  /\ late' = IF row.left > 0 /\ row'.left > 0 THEN late ELSE 0
  /\ crossed' = ((\E v \in Workers \ {w} : pc[v] = "write") \/ (failed[w] /\ crossed))
  /\ read' = [read EXCEPT ![w] = NoFailure]
  /\ IF failed[w] THEN Goto(w, "retry") /\ UNCHANGED <<hand, failed>> ELSE Release(w)
  /\ UNCHANGED messages

\* handle_retry
Retry(w) ==
  /\ pc[w] = "retry"
  /\ delayed' = IF hand[w] < MaxRetry THEN [delayed EXCEPT ![hand[w] + 1] = @ + 1] ELSE delayed
  /\ Release(w)
  /\ UNCHANGED <<row, inQueue, looking, read, outcomes>>

\* The worker's process dies at any point.
Crash(w) ==
  /\ pc[w] # "idle"
  /\ read' = [read EXCEPT ![w] = NoFailure]
  /\ Release(w)
  /\ UNCHANGED <<row, messages, outcomes>>

(***************************************************************************)
(* Clients and time                                                        *)
(***************************************************************************)
StartByHand ==
  /\ Pending < MaxPending
  /\ inQueue' = [inQueue EXCEPT ![0] = @ + 1]
  /\ UNCHANGED <<row, delayed, looking, slots, outcomes>>

\* get_job_cooldown_remaining: the deadline comes closer in every copy.
Elapsed_Frozen(old) == old
Elapsed(old) == [old EXCEPT !.left = IF @ > 0 THEN @ - 1 ELSE 0]

Tick ==
  /\ row' = Elapsed(row)
  /\ read' = [w \in Workers |-> Elapsed(read[w])]
  /\ late' = IF row'.left > 0 THEN late ELSE 0
  /\ UNCHANGED <<messages, pc, hand, failed, streak, failures, crossed>>

GuardStep == LookAtCooldown \/ LookAtRuns \/ DispatchRun
WorkerActs(w) ==
  \/ \E k \in Attempts : Start(w, k)
  \/ \E failure \in BOOLEAN : HandlerEnds(w, failure)
  \/ Abort(w) \/ ReadRow(w) \/ WriteRow(w) \/ Retry(w)

MemoryNext ==
  \/ GuardStep
  \/ \E k \in Attempts : RetryDue(k)
  \/ \E w \in Workers : WorkerActs(w) \/ Crash(w)
  \/ StartByHand
  \/ Tick

MemorySpec == MemoryInit /\ [][MemoryNext]_memoryVars

\* The scheduler and the workers keep going, time passes, retries come due.
MemoryFairSpec ==
  /\ MemorySpec
  /\ WF_memoryVars(LookAtCooldown) /\ WF_memoryVars(LookAtRuns) /\ WF_memoryVars(DispatchRun)
  /\ \A k \in Attempts : WF_memoryVars(RetryDue(k))
  /\ \A w \in Workers : WF_memoryVars(WorkerActs(w))
  /\ WF_memoryVars(Tick)

(***************************************************************************)
(* Properties                                                              *)
(***************************************************************************)

\* Every variable has its type.
MemoryTypeOK ==
  /\ row \in Rows /\ \A w \in Workers : read[w] \in Rows
  /\ inQueue \in [Attempts -> Nat] /\ delayed \in [Attempts -> Nat]
  /\ looking \in {"no", "cooldown passed", "passed"}
  /\ pc \in [Workers -> {"idle", "exec", "record", "write", "retry"}]
  /\ hand \in [Workers -> Attempts] /\ failed \in [Workers -> BOOLEAN]
  /\ {streak, failures} \subseteq 0..MaxFails /\ late \in Nat /\ crossed \in BOOLEAN

\* Whatever slots overwrite each other's rows, a job is in cooldown only
\* with a counter that justifies it: never after a success was written last,
\* never longer than the counter's backoff allows.
CooldownFits ==
  row.left > 0 => row.fails >= Threshold /\ row.left <= CooldownAfter(row.fails)

\* Lost updates can hide failures but never invent one.
NoFailureInvented == row.fails <= failures

\* A cooldown stops the schedule: at most the one dispatch whose guard was
\* evaluated before the cooldown was written still comes after it.
LateDispatchBounded == late <= 1

\* A cooldown is one the counter justifies, and it is respected.
CooldownsRespected == MemoryTypeOK /\ CooldownFits /\ LateDispatchBounded

\* The counter is exactly the number of failures recorded since the last
\* recorded success, up to the bound, unless two slots changed the row at the
\* same time; a later success written by one slot alone repairs it.
ExactCount == crossed \/ row.fails = streak

\* The counter never says more failures than there were, and fewer only after two
\* slots crossed.
CounterFaithful == NoFailureInvented /\ ExactCount

\* No sequence of failures blocks a job for good: unless clients keep starting
\* runs of it, the schedule dispatches it again and again.
KeepsRunning == []<><<DispatchRun>>_memoryVars \/ []<><<StartByHand>>_memoryVars
================================================================================

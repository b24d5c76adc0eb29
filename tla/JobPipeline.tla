------------------------------ MODULE JobPipeline ------------------------------
(***************************************************************************)
(* The life of a run through Redis: the scheduler (or an API client) saves *)
(* a QUEUED run and appends its message to stream:jobs; a worker slot takes *)
(* the message, acknowledges it at once, saves RUNNING, executes the       *)
(* handler, saves SUCCESS or FAILED and, on a failure, puts the next       *)
(* attempt into zset:delayed, from where the scheduler re-queues it.       *)
(*                                                                         *)
(* save_run is not atomic: the run record is SET first and the index       *)
(* job:active:runs:<job> is then refreshed by an SREM and an SADD that     *)
(* other processes interleave with.  Redis itself is up throughout;        *)
(* QueueModes models what happens when it is not.                          *)
(***************************************************************************)
EXTENDS Naturals, Sequences, FiniteSets

CONSTANTS
  Jobs,          \* job ids
  Runs,          \* run ids that can be generated (bounds the number of runs)
  JobOf,         \* [Runs -> Jobs]: the job a run id is generated for
  Workers,       \* worker slots (one _worker_slot_loop each)
  Clients,       \* API requests that run concurrently
  Scheduler,     \* the scheduler process
  Pools,         \* agent pool names
  DefaultPool,   \* the pool "default"
  GlobalPool,    \* the pool name "global", whose workers take every message
  JobPool,       \* [Jobs -> Pools]: agent_pool of the job's specification
  WorkerPool,    \* [Workers -> Pools]: AGENT_POOL of the worker's process
  Handled,       \* jobs whose type has a handler or is a skill
  AllowOverlap,  \* jobs with inputs.allow_overlap
  MaxRetry,      \* [Jobs -> Nat]: retry_policy.max_retry
  MaxCrashes,    \* bound on the number of process crashes
  NoMsg          \* what an idle process holds

Message == [run : Runs, attempt : Nat, pool : Pools]
Actors == Workers \cup Clients \cup {Scheduler}

ASSUME PipelineAssumption ==
  /\ JobOf \in [Runs -> Jobs]
  /\ Scheduler \notin Workers \cup Clients
  /\ Workers \cap Clients = {}
  /\ DefaultPool \in Pools /\ GlobalPool \in Pools
  /\ JobPool \in [Jobs -> Pools]
  /\ WorkerPool \in [Workers -> Pools]
  /\ Handled \subseteq Jobs
  /\ AllowOverlap \subseteq Jobs
  /\ MaxRetry \in [Jobs -> Nat]
  /\ MaxCrashes \in Nat
  /\ NoMsg \notin Message

VARIABLES
  status,      \* run:<id>.status, "none" when there is no record
  attempt,     \* run:<id>.attempt
  index,       \* job:active:runs:<job>
  stream,      \* stream:jobs entries the group has not delivered yet
  delayed,     \* zset:delayed
  due,         \* payloads get_due_jobs removed and process_due_jobs holds
  todo,        \* jobs the scheduler has not looked at in this tick
  pc,          \* where each process stands
  hand,        \* the message each process works on
  source,      \* history: who issued the run id, "none" before
  executions,  \* history: how often a handler was started for the run
  orphaned,    \* history: runs whose only message was lost
  torn,        \* history: runs whose index refresh was cut by a crash
  crashes      \* history: crashes so far (bounded by MaxCrashes)

records == <<status, attempt, executions>>
queues  == <<stream, delayed, due>>
ghosts  == <<source, orphaned, torn, crashes>>
vars    == <<records, index, queues, todo, pc, hand, ghosts>>

(***************************************************************************)
(* Types                                                                   *)
(***************************************************************************)
Statuses == {"none", "queued", "running", "success", "failed"}
Active   == {"queued", "running"}
Sources  == {"none", "scheduler", "manual", "trigger"}
Refreshing == {"queued_srem", "queued_sadd", "start_srem", "start_sadd", "finish_srem"}
Labels   == {"idle", "due", "save_queued", "enqueue", "got", "exec", "retry"} \cup Refreshing

Goto(a, l) == pc' = [pc EXCEPT ![a] = l]

\* The process is done with its message.
Release(a) == Goto(a, "idle") /\ hand' = [hand EXCEPT ![a] = NoMsg]

\* No process has generated this run id yet.
Fresh(r) == source[r] = "none"

Init ==
  /\ status = [r \in Runs |-> "none"]
  /\ attempt = [r \in Runs |-> 0]
  /\ index = [j \in Jobs |-> {}]
  /\ stream = <<>> /\ delayed = {} /\ due = {}
  /\ todo = Jobs
  /\ pc = [a \in Actors |-> "idle"]
  /\ hand = [a \in Actors |-> NoMsg]
  /\ source = [r \in Runs |-> "none"]
  /\ executions = [r \in Runs |-> 0]
  /\ orphaned = {} /\ torn = {} /\ crashes = 0

(***************************************************************************)
(* Some definitions have a mutant X_... before them: a plausible bug, kept  *)
(* to show which property would catch it.  No action uses a mutant.        *)
(***************************************************************************)

(***************************************************************************)
(* save_run: SET run:<id>, then _refresh_index_active_runs_redis.          *)
(***************************************************************************)

\* The record takes its attempt from the message.
SavedAttempt_Old(a) == attempt
SavedAttempt(a) == [attempt EXCEPT ![hand[a].run] = hand[a].attempt]

\* SREM and SADD of the run in the index of its job.
Unindexed_NotFailed(a) ==
  LET r == hand[a].run IN IF status[r] = "failed" THEN index ELSE [index EXCEPT ![JobOf[r]] = @ \ {r}]
Unindexed(a) == LET r == hand[a].run IN [index EXCEPT ![JobOf[r]] = @ \ {r}]
Indexed_RunningOnly(a) ==
  LET r == hand[a].run IN IF status[r] = "running" THEN [index EXCEPT ![JobOf[r]] = @ \cup {r}] ELSE index
Indexed(a) == LET r == hand[a].run IN [index EXCEPT ![JobOf[r]] = @ \cup {r}]

\* _simpan_run_queued, or trigger_job's save_run: a new record, or the
\* failed one reset to QUEUED with the message's attempt.  SREM is issued
\* only when the record it replaces was active.
SaveQueued(a) ==
  /\ pc[a] = "save_queued"
  /\ LET r == hand[a].run IN
       /\ status' = [status EXCEPT ![r] = "queued"]
       /\ attempt' = SavedAttempt(a)
       /\ Goto(a, IF status[r] \in Active THEN "queued_srem" ELSE "queued_sadd")
  /\ UNCHANGED <<executions, index, queues, todo, hand, ghosts>>

\* SREM job:active:runs:<job>.  A finished run stays out (the two SREMs of a
\* RUNNING record that becomes inactive are one step), and the worker goes on
\* to its retry decision unless the run succeeded.
IndexRemove(a) ==
  /\ pc[a] \in {"queued_srem", "start_srem", "finish_srem"}
  /\ index' = Unindexed(a)
  /\ \/ pc[a] = "queued_srem" /\ Goto(a, "queued_sadd") /\ UNCHANGED hand
     \/ pc[a] = "start_srem" /\ Goto(a, "start_sadd") /\ UNCHANGED hand
     \/ pc[a] = "finish_srem" /\ status[hand[a].run] = "success" /\ Release(a)
     \/ pc[a] = "finish_srem" /\ status[hand[a].run] # "success" /\ Goto(a, "retry") /\ UNCHANGED hand
  /\ UNCHANGED <<records, queues, todo, ghosts>>

\* SADD job:active:runs:<job>, for a run saved as QUEUED or RUNNING.
IndexAdd(a) ==
  /\ pc[a] \in {"queued_sadd", "start_sadd"}
  /\ index' = Indexed(a)
  /\ Goto(a, IF pc[a] = "queued_sadd" THEN "enqueue" ELSE "exec")
  /\ UNCHANGED <<records, queues, todo, hand, ghosts>>

Appended_FirstOnly(a) == IF hand[a].attempt > 0 THEN stream ELSE Append(stream, hand[a])
Appended(a) == Append(stream, hand[a])
AfterEnqueue_EndsBatch(a) == "idle"
AfterEnqueue(a) == IF a = Scheduler /\ due # {} THEN "due" ELSE "idle"

\* enqueue_job: XADD; the scheduler then takes the next due payload, if any.
Enqueue(a) ==
  /\ pc[a] = "enqueue"
  /\ stream' = Appended(a)
  /\ hand' = [hand EXCEPT ![a] = NoMsg]
  /\ Goto(a, AfterEnqueue(a))
  /\ UNCHANGED <<records, index, delayed, due, todo, ghosts>>

(***************************************************************************)
(* Scheduler: one tick looks at every job, then moves the due retries.     *)
(***************************************************************************)

\* A dispatch of process_interval_jobs or process_cron_jobs: the guard reads
\* the active index (SCARD), a run id is generated; the save comes later.
Dispatch(j, r) ==
  /\ pc[Scheduler] = "idle"
  /\ j \in todo
  /\ j \in AllowOverlap \/ index[j] = {}
  /\ Fresh(r) /\ JobOf[r] = j
  /\ todo' = todo \ {j}
  /\ source' = [source EXCEPT ![r] = "scheduler"]
  /\ hand' = [hand EXCEPT ![Scheduler] = [run |-> r, attempt |-> 0, pool |-> JobPool[j]]]
  /\ Goto(Scheduler, "save_queued")
  /\ UNCHANGED <<records, index, queues, orphaned, torn, crashes>>

\* The job is not due, or another clause of _boleh_dispatch_job refuses it
\* (pending approval, cooldown, pressure, flow limit: see DispatchGuard).
Skip(j) ==
  /\ pc[Scheduler] = "idle"
  /\ j \in todo
  /\ todo' = todo \ {j}
  /\ UNCHANGED <<records, index, queues, pc, hand, ghosts>>

NotDue_NoRemove(ripe) == delayed
NotDue(ripe) == delayed \ ripe
RestOfBatch_Empty(m) == {}
RestOfBatch(m) == due \ {m}

\* get_due_jobs: ZRANGEBYSCORE and ZREM of every payload whose time has come.
\* Which ones that are is the clock's choice.
PopDue(ripe) ==
  /\ pc[Scheduler] = "idle"
  /\ todo = {}
  /\ ripe \subseteq delayed
  /\ delayed' = NotDue(ripe)
  /\ due' = ripe
  /\ todo' = Jobs
  /\ Goto(Scheduler, IF ripe = {} THEN "idle" ELSE "due")
  /\ UNCHANGED <<records, index, stream, hand, ghosts>>

\* process_due_jobs takes the next payload; no guard is consulted.
TakeDue(m) ==
  /\ pc[Scheduler] = "due"
  /\ m \in due
  /\ due' = RestOfBatch(m)
  /\ hand' = [hand EXCEPT ![Scheduler] = m]
  /\ Goto(Scheduler, "save_queued")
  /\ UNCHANGED <<records, index, stream, delayed, todo, ghosts>>

(***************************************************************************)
(* API clients                                                             *)
(***************************************************************************)

\* POST /jobs/{id}/run and the planner's run: no guard, no agent_pool.
ManualRun(c, r) ==
  /\ pc[c] = "idle"
  /\ Fresh(r)
  /\ source' = [source EXCEPT ![r] = "manual"]
  /\ hand' = [hand EXCEPT ![c] = [run |-> r, attempt |-> 0, pool |-> DefaultPool]]
  /\ Goto(c, "save_queued")
  /\ UNCHANGED <<records, index, queues, todo, orphaned, torn, crashes>>

\* fire_trigger: the message is appended and no run record is written.
FireTrigger(r) ==
  /\ Clients # {}
  /\ Fresh(r)
  /\ source' = [source EXCEPT ![r] = "trigger"]
  /\ stream' = Append(stream, [run |-> r, attempt |-> 0, pool |-> DefaultPool])
  /\ UNCHANGED <<records, index, delayed, due, todo, pc, hand, orphaned, torn, crashes>>

(***************************************************************************)
(* Worker slots                                                            *)
(***************************************************************************)

Undelivered_NoAck == stream
Undelivered == Tail(stream)

\* XREADGROUP and XACK: from here on the message exists only in the worker.
Dequeue(w) ==
  /\ pc[w] = "idle"
  /\ stream # <<>>
  /\ hand' = [hand EXCEPT ![w] = Head(stream)]
  /\ stream' = Undelivered
  /\ Goto(w, "got")
  /\ UNCHANGED <<records, index, delayed, due, todo, ghosts>>

Routable(w, m) == m.pool = WorkerPool[w] \/ WorkerPool[w] = GlobalPool

\* A dropped message is not put back.
StreamAfterDrop(w) == stream

\* The message is for another pool, or its type has no handler: it is
\* dropped, and the run record is left as it is.
Drop(w) ==
  /\ pc[w] = "got"
  /\ ~Routable(w, hand[w]) \/ JobOf[hand[w].run] \notin Handled
  /\ orphaned' = orphaned \cup {hand[w].run}
  /\ stream' = StreamAfterDrop(w)
  /\ Release(w)
  /\ UNCHANGED <<records, index, delayed, due, todo, source, torn, crashes>>

\* process_job_event up to its first save: the record found, or a new one
\* with the message's attempt, becomes RUNNING.
StartRun(w) ==
  /\ pc[w] = "got"
  /\ Routable(w, hand[w]) /\ JobOf[hand[w].run] \in Handled
  /\ LET r == hand[w].run IN
       /\ status' = [status EXCEPT ![r] = "running"]
       /\ attempt' = [attempt EXCEPT ![r] = IF status[r] = "none" THEN hand[w].attempt ELSE @]
       /\ executions' = [executions EXCEPT ![r] = @ + 1]
       /\ Goto(w, IF status[r] \in Active THEN "start_srem" ELSE "start_sadd")
  /\ UNCHANGED <<index, queues, todo, hand, ghosts>>

\* execute_job_handler returned (success, logical failure, exception or
\* timeout) and the run is saved with the outcome.
FinishRun(w, outcome) ==
  /\ pc[w] = "exec"
  /\ status' = [status EXCEPT ![hand[w].run] = outcome]
  /\ Goto(w, "finish_srem")
  /\ UNCHANGED <<attempt, executions, index, queues, todo, hand, ghosts>>

\* The result cannot be serialised: save_run raises before it touches Redis,
\* process_job_event returns False and the record stays RUNNING.
AbortRun(w) ==
  /\ pc[w] = "exec"
  /\ Goto(w, "retry")
  /\ UNCHANGED <<records, index, queues, todo, hand, ghosts>>

RetriesLeft_OffByOne(m) == m.attempt <= MaxRetry[JobOf[m.run]]
RetriesLeft(m) == m.attempt < MaxRetry[JobOf[m.run]]
NextAttempt(m) == [run |-> m.run, attempt |-> m.attempt + 1, pool |-> JobPool[JobOf[m.run]]]

\* handle_retry: the next attempt goes into zset:delayed, or there is none.
Retry(w) ==
  /\ pc[w] = "retry"
  /\ LET m == hand[w] IN
       \/ /\ RetriesLeft(m)
          /\ delayed' = delayed \cup {NextAttempt(m)}
          /\ UNCHANGED orphaned
       \/ /\ ~RetriesLeft(m)
          /\ orphaned' = IF status[m.run] \in Active THEN orphaned \cup {m.run} ELSE orphaned
          /\ UNCHANGED delayed
  /\ Release(w)
  /\ UNCHANGED <<records, index, stream, due, todo, source, torn, crashes>>

(***************************************************************************)
(* Crashes: the process forgets its message (and the scheduler its batch). *)
(***************************************************************************)
InHand(a) == IF hand[a] = NoMsg THEN {} ELSE {hand[a].run}
Batch(a)  == IF a = Scheduler THEN {m.run : m \in due} ELSE {}

Crash(a) ==
  /\ crashes < MaxCrashes
  /\ pc[a] # "idle"
  /\ crashes' = crashes + 1
  /\ orphaned' = orphaned \cup InHand(a) \cup Batch(a)
  /\ torn' = IF pc[a] \in Refreshing THEN torn \cup InHand(a) ELSE torn
  /\ due' = IF a = Scheduler THEN {} ELSE due
  /\ todo' = IF a = Scheduler THEN Jobs ELSE todo
  /\ Release(a)
  /\ UNCHANGED <<records, index, stream, delayed, source>>

SchedulerStep ==
  \/ \E j \in Jobs, r \in Runs : Dispatch(j, r)
  \/ \E j \in Jobs : Skip(j)
  \/ \E ripe \in SUBSET delayed : PopDue(ripe)
  \/ \E m \in due : TakeDue(m)

ClientStep ==
  \/ \E c \in Clients, r \in Runs : ManualRun(c, r)
  \/ \E r \in Runs : FireTrigger(r)

WorkerStep(w) ==
  \/ Dequeue(w)
  \/ Drop(w)
  \/ StartRun(w)
  \/ \E outcome \in {"success", "failed"} : FinishRun(w, outcome)
  \/ AbortRun(w)
  \/ Retry(w)

SaveStep(a) == SaveQueued(a) \/ IndexRemove(a) \/ IndexAdd(a) \/ Enqueue(a)

Next ==
  \/ SchedulerStep
  \/ ClientStep
  \/ \E w \in Workers : WorkerStep(w)
  \/ \E a \in Actors : SaveStep(a)
  \/ \E a \in Actors : Crash(a)

Spec == Init /\ [][Next]_vars

(***************************************************************************)
(* Fairness: every loop keeps running (asyncio tasks that only wait for    *)
(* Redis), a handler returns because execute_job_handler bounds it with    *)
(* wait_for, a due time passes and the tick that follows fetches it.       *)
(* Clients are not fair: nobody has to call the API.                       *)
(***************************************************************************)
Fairness ==
  /\ \A j \in Jobs : WF_vars(Skip(j) \/ \E r \in Runs : Dispatch(j, r))
  /\ WF_vars(\E ripe \in SUBSET delayed : PopDue(ripe))
  /\ \A r \in Runs : SF_vars(\E ripe \in SUBSET delayed : (\E m \in ripe : m.run = r) /\ PopDue(ripe))
  /\ WF_vars(\E m \in due : TakeDue(m))
  /\ \A w \in Workers : WF_vars(WorkerStep(w))
  /\ \A a \in Actors : WF_vars(SaveStep(a))

FairSpec == Spec /\ Fairness
(***************************************************************************)
(* Properties                                                              *)
(***************************************************************************)

\* Every variable has its type; only a worker is ever in a worker's state.
TypeOK ==
  /\ status \in [Runs -> Statuses]
  /\ attempt \in [Runs -> Nat]
  /\ executions \in [Runs -> Nat]
  /\ index \in [Jobs -> SUBSET Runs]
  /\ stream \in Seq(Message)
  /\ delayed \subseteq Message /\ due \subseteq Message
  /\ todo \subseteq Jobs
  /\ pc \in [Actors -> Labels]
  /\ hand \in [Actors -> Message \cup {NoMsg}]
  /\ source \in [Runs -> Sources]
  /\ orphaned \subseteq Runs /\ torn \subseteq Runs
  /\ crashes \in Nat
  /\ \A a \in Actors :
       /\ hand[a] = NoMsg <=> pc[a] \in {"idle", "due"}
       /\ pc[a] \in {"got", "start_srem", "start_sadd", "exec", "finish_srem", "retry"} => a \in Workers
       /\ pc[a] \in {"save_queued", "queued_srem", "queued_sadd", "enqueue"} => a \notin Workers
       /\ pc[a] = "due" => a = Scheduler
  /\ due # {} => pc[Scheduler] # "idle"

InStream(r)  == \E i \in 1..Len(stream) : stream[i].run = r
InDelayed(r) == \E m \in delayed : m.run = r
InDue(r)     == \E m \in due : m.run = r
InHands(r)   == \E a \in Actors : hand[a] # NoMsg /\ hand[a].run = r
Carried(r)   == InStream(r) \/ InDelayed(r) \/ InDue(r) \/ InHands(r)

StreamUnique  == \A i, k \in 1..Len(stream) : stream[i].run = stream[k].run => i = k
DelayedUnique == \A m, n \in delayed : m.run = n.run => m = n
DueUnique     == \A m, n \in due : m.run = n.run => m = n
HandsUnique   == \A a, b \in Actors :
                   hand[a] # NoMsg /\ hand[b] # NoMsg /\ hand[a].run = hand[b].run => a = b
OnePlace      == \A r \in Runs :
                   /\ InStream(r) => ~InDelayed(r) /\ ~InDue(r) /\ ~InHands(r)
                   /\ InDelayed(r) => ~InDue(r) /\ ~InHands(r)
                   /\ InDue(r) => ~InHands(r)

\* A run's message is in one place at a time, and only once: it waits in the
\* stream, or for its retry time, or in the scheduler's batch, or exactly one
\* process works on it.  Two workers never execute the same run, whatever the
\* retries, the crashes and the interleaving.
OneCarrier == StreamUnique /\ DelayedUnique /\ DueUnique /\ HandsUnique /\ OnePlace

\* A run that the dashboard shows as queued or running still has a message
\* somewhere, unless its message was dropped or lost with a crashed process.
ActiveIsCarried ==
  \A r \in Runs : status[r] \in Active => Carried(r) \/ r \in orphaned

\* has_active_runs answers what the run records say: outside a refresh in
\* progress, a run is in its job's active index exactly when its record is
\* queued or running.  Only a crash inside the refresh breaks this.
IndexAgrees ==
  \A r \in Runs :
    r \in torn \/ (\E a \in Actors : pc[a] \in Refreshing /\ hand[a].run = r)
      \/ (r \in index[JobOf[r]] <=> status[r] \in Active)

\* Each attempt of a run is executed at most once, and an attempt number is
\* never skipped: acknowledging before processing gives at-most-once.
OncePerAttempt ==
  \A r \in Runs :
    executions[r] = IF status[r] \in {"none", "queued"} THEN attempt[r] ELSE attempt[r] + 1

\* A run is never attempted more often than its job's retry policy allows.
RetryLimit == \A r \in Runs : executions[r] <= MaxRetry[JobOf[r]] + 1

\* A run of the scheduler that no worker has started yet, seen from the
\* moment its id is generated.
Unstarted(r) ==
  /\ source[r] = "scheduler"
  /\ \/ status[r] = "queued" /\ attempt[r] = 0
     \/ status[r] = "none" /\ hand[Scheduler] # NoMsg /\ hand[Scheduler].run = r

\* However slow the workers are, the scheduler does not pile up runs of a job
\* without allow_overlap: at most one of its dispatches waits for its first
\* start (runs torn by a scheduler crash are not in the index and not counted).
NoBacklog ==
  \A r, s \in Runs \ torn :
    /\ JobOf[r] = JobOf[s] /\ JobOf[r] \notin AllowOverlap
    /\ Unstarted(r) /\ Unstarted(s)
    => r = s

\* The scheduler's guard as the documentation describes it: a job without
\* allow_overlap never has two runs queued or running at the same time.
NoOverlap ==
  \A r, s \in Runs :
    /\ JobOf[r] = JobOf[s] /\ JobOf[r] \notin AllowOverlap
    /\ status[r] \in Active /\ status[s] \in Active
    => r = s

\* Every run record follows the life cycle of RunLifecycle.
Lifecycle == INSTANCE RunLifecycle WITH Limit <- [r \in Runs |-> MaxRetry[JobOf[r]]]
LifecycleSpec == Lifecycle!Spec

\* The message of a lost run is gone for good and its record is never
\* written again: nothing in the system re-reads a lost message.
LostForGood == [][\A r \in orphaned : r \in orphaned' /\ status'[r] = status[r] /\ ~Carried(r)']_vars

\* Every run that was issued is eventually finished, successfully or after
\* its last attempt, unless its message was dropped.
Settled(r) == status[r] \in {"success", "failed"} /\ ~Carried(r)
RunsSettle == \A r \in Runs : source[r] # "none" ~> (Settled(r) \/ r \in orphaned)
================================================================================

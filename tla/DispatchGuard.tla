----------------------------- MODULE DispatchGuard -----------------------------
(***************************************************************************)
(* The scheduler's loop and the conditions under which it dispatches.      *)
(*                                                                         *)
(* A round refreshes the pressure state from the queue depth, resets the   *)
(* dispatch counter, every ReloadEvery rounds reloads the enabled jobs,    *)
(* and then walks the loaded jobs twice, in the order of their ids: once   *)
(* for the interval jobs, once for the cron jobs.  A dispatch has two      *)
(* steps, since other processes act while the guard's answers are used:    *)
(* _boleh_dispatch_job looks, and the run is saved and queued.  Finally    *)
(* the due retries are queued.                                             *)
(*                                                                         *)
(* Runs are counted, not named: JobPipeline follows each one.  The clock   *)
(* moves between phases only, because a phase works with the time it read  *)
(* at its start.  An age stands for "now - last_dispatch", cut off at the  *)
(* interval it is compared with.                                           *)
(***************************************************************************)
EXTENDS Naturals, Sequences, FiniteSets, FiniteSetsExt, SequencesExt

CONSTANTS
  Order,          \* the job ids as load_jobs orders them (sorted)
  Interval,       \* [Jobs -> Nat]: interval_sec, 0 for a cron job
  Offset,         \* [Jobs -> Nat]: _hitung_offset_jitter_awal of the job
  Critical,       \* jobs with pressure_priority "critical"
  Groups,         \* flow groups
  FlowOf,         \* [Jobs -> Groups]
  FlowLimit,      \* [Jobs -> Nat]: flow_max_active_runs, 0 for none
  AllowOverlap,   \* jobs with allow_overlap
  Retryable,      \* jobs whose failed runs are retried
  MaxDispatch,    \* SCHEDULER_MAX_DISPATCH_PER_TICK
  DepthHigh,      \* SCHEDULER_PRESSURE_DEPTH_HIGH
  DepthLow,       \* SCHEDULER_PRESSURE_DEPTH_LOW
  ReloadEvery,    \* rounds between two load_jobs
  Legacy,         \* TRUE when the queue is the legacy list, FALSE for the stream
  Holds,          \* TRUE when approvals and cooldowns are part of the instance
  MaxManual,      \* bound on the runs clients start
  MaxRetrying,    \* bound on a job's retries in flight
  MaxToggles,     \* bound on the enable and disable calls
  MaxRestarts,    \* bound on the scheduler's restarts
  MaxMinute,      \* bound on the minutes that pass
  None

Jobs == {Order[i] : i \in 1..Len(Order)}
IntervalJobs == {j \in Jobs : Interval[j] > 0}
CronJobs == Jobs \ IntervalJobs

ASSUME GuardAssumption ==
  /\ Order \in Seq(Jobs) /\ None \notin Jobs
  /\ Interval \in [Jobs -> Nat] /\ Offset \in [Jobs -> Nat]
  /\ \A j \in IntervalJobs : Offset[j] < Interval[j]
  /\ Critical \subseteq Jobs /\ AllowOverlap \subseteq Jobs /\ Retryable \subseteq Jobs
  /\ FlowOf \in [Jobs -> Groups] /\ FlowLimit \in [Jobs -> Nat]
  /\ {MaxDispatch, DepthHigh, ReloadEvery} \subseteq Nat \ {0}
  /\ DepthLow \in Nat /\ DepthLow < DepthHigh
  /\ Legacy \in BOOLEAN /\ Holds \in BOOLEAN
  /\ {MaxManual, MaxRetrying, MaxToggles, MaxRestarts, MaxMinute} \subseteq Nat

VARIABLES
  \* the scheduler
  phase,      \* where the round stands
  rest,       \* jobs the phase has not looked at, in order
  chosen,     \* the job the guard has let through
  round,      \* putaran % ReloadEvery
  jobs,       \* self.jobs
  count,      \* dispatch_count_tick
  pressure,   \* pressure_mode
  seen,       \* queue_depth_snapshot
  age,        \* now - last_dispatch, None when the job has no entry
  slot,       \* last_cron_slot, None when the job has no entry
  \* the rest of the system
  enabled,    \* the set of enabled jobs in Redis
  minute,     \* the current minute
  depth,      \* XLEN of the stream, or LLEN of the list
  queued,     \* [Jobs -> [Kinds -> Nat]]: runs waiting for a worker
  running,    \* [Jobs -> [Kinds -> Nat]]: runs a worker executes
  retrying,   \* [Jobs -> Nat]: failed runs in zset:delayed
  held,       \* jobs with a pending approval or in cooldown
  \* history
  off,        \* rounds since the job was disabled, cut off at ReloadEvery + 1
  fired,      \* [CronJobs -> minutes in which the job was dispatched]
  twice,      \* cron jobs dispatched twice in one minute
  forgotten,  \* cron jobs whose last_cron_slot was lost
  manual, toggles, restarts   \* clients' runs and calls, restarts so far

loop    == <<phase, rest, chosen, round, jobs, count>>
memory  == <<age, slot>>
load    == <<pressure, seen>>
work    == <<depth, queued, running, retrying>>
ghosts  == <<off, fired, twice, forgotten>>
bounds  == <<manual, toggles, restarts>>
vars    == <<loop, memory, load, work, enabled, minute, held, ghosts, bounds>>

\* "first": the attempt the schedule dispatched; "other": a retry or a run a
\* client started.
Kinds == {"first", "other"}
Phases == {"refresh", "load", "interval", "cron", "due"}

(***************************************************************************)
(* What the guard reads                                                    *)
(***************************************************************************)
ActiveRuns(j) == queued[j]["first"] + queued[j]["other"] + running[j]["first"] + running[j]["other"]
InFlow(g) == {j \in Jobs : FlowOf[j] = g}
ActiveInFlow(g) == SumFunctionOnSet([j \in Jobs |-> ActiveRuns(j)], InFlow(g))
Backlog == SumFunctionOnSet([j \in Jobs |-> queued[j]["first"] + queued[j]["other"]], Jobs)

\* XADD and LPUSH make the queue one longer.  XACK does not make the stream
\* shorter, so a depth above DepthHigh need not be told apart from DepthHigh.
Deeper == IF Legacy \/ depth < DepthHigh THEN depth + 1 ELSE depth
Shallower == IF Legacy THEN depth - 1 ELSE depth

\* A job whose flow limit applies finds room in its flow.
FlowHasRoom_OffByOne(j) == FlowLimit[j] = 0 \/ ActiveInFlow(FlowOf[j]) <= FlowLimit[j]
FlowHasRoom(j) == FlowLimit[j] = 0 \/ ActiveInFlow(FlowOf[j]) < FlowLimit[j]

\* _boleh_dispatch_job
MayDispatch(j) ==
  /\ j \notin held
  /\ pressure => j \in Critical
  /\ FlowHasRoom(j)
  /\ j \in AllowOverlap \/ ActiveRuns(j) = 0

TickHasRoom_OffByOne == count <= MaxDispatch
TickHasRoom == count < MaxDispatch

\* The age an interval job is compared with: a job without an entry counts as
\* never dispatched, unless the jitter gives it a first date.
AgeNow(j) == IF age[j] # None THEN age[j] ELSE IF Offset[j] > 0 THEN Interval[j] - Offset[j] ELSE Interval[j]
IntervalDue(j) == Interval[j] > 0 /\ AgeNow(j) >= Interval[j]

\* The jobs that the phase looks at, in order.
Walk(J) == FoldLeft(LAMBDA walk, j : IF j \in J THEN Append(walk, j) ELSE walk, <<>>, Order)

(***************************************************************************)
(* The scheduler                                                           *)
(***************************************************************************)
Init ==
  /\ phase = "refresh" /\ rest = <<>> /\ chosen = None /\ round = 0
  /\ jobs = Jobs /\ count = 0 /\ pressure = FALSE /\ seen = 0
  /\ age = [j \in Jobs |-> None] /\ slot = [j \in Jobs |-> None]
  /\ enabled = Jobs /\ minute = 0 /\ depth = 0
  /\ queued = [j \in Jobs |-> [k \in Kinds |-> 0]]
  /\ running = [j \in Jobs |-> [k \in Kinds |-> 0]]
  /\ retrying = [j \in Jobs |-> 0]
  /\ held = {}
  /\ off = [j \in Jobs |-> 0]
  /\ fired = [j \in CronJobs |-> {}] /\ twice = {} /\ forgotten = {}
  /\ manual = 0 /\ toggles = 0 /\ restarts = 0

\* load_jobs: the loaded jobs become the enabled ones, and the entries of all
\* others are forgotten.
Kept(f) == [j \in Jobs |-> IF j \in enabled THEN f[j] ELSE None]

LoadJobs ==
  /\ phase = "load"
  /\ jobs' = enabled
  /\ age' = Kept(age) /\ slot' = Kept(slot)
  /\ forgotten' = forgotten \cup (CronJobs \ enabled)
  /\ phase' = "interval"
  /\ rest' = Walk(enabled)
  /\ UNCHANGED <<chosen, round, count, load, work, enabled, minute, held, off, fired, twice, bounds>>

PressureAfter_Latched == pressure \/ depth >= DepthHigh
PressureAfter_OffByOne == IF pressure THEN depth >= DepthLow ELSE depth >= DepthHigh
PressureAfter == IF pressure THEN depth > DepthLow ELSE depth >= DepthHigh

CountAtStart_Kept == count
CountAtStart == 0

NextRound_OneMore == (round + 1) % (ReloadEvery + 1)
NextRound == (round + 1) % ReloadEvery

\* A round begins: _refresh_pressure_state, the counter's reset, and the
\* decision whether the jobs are reloaded.
BeginRound ==
  /\ phase = "refresh"
  /\ seen' = depth
  /\ pressure' = PressureAfter
  /\ count' = CountAtStart
  /\ round' = NextRound
  /\ phase' = IF round = 0 THEN "load" ELSE "interval"
  /\ rest' = IF round = 0 THEN <<>> ELSE Walk(jobs)
  /\ off' = [j \in Jobs |-> IF j \in enabled THEN 0 ELSE IF off[j] <= ReloadEvery THEN off[j] + 1 ELSE off[j]]
  /\ UNCHANGED <<chosen, jobs, memory, work, enabled, minute, held, fired, twice, forgotten, bounds>>

\* The next job is not for this phase, not due or refused.
Pass(j) ==
  /\ rest # <<>> /\ j = Head(rest) /\ chosen = None /\ TickHasRoom
  /\ rest' = Tail(rest)
  /\ UNCHANGED <<phase, chosen, round, jobs, count, load, work, enabled, minute, held, ghosts, bounds>>

\* The next job is due and the guard lets it through.
Choose(j) ==
  /\ rest # <<>> /\ j = Head(rest) /\ chosen = None /\ TickHasRoom
  /\ MayDispatch(j)
  /\ chosen' = j
  /\ rest' = Tail(rest)
  /\ UNCHANGED <<phase, round, jobs, count, load, work, enabled, minute, held, ghosts, bounds>>

\* process_interval_jobs looks at a job; the jitter dates its first dispatch.
LookInterval(j) ==
  /\ phase = "interval" /\ j \in jobs
  /\ IF IntervalDue(j) /\ MayDispatch(j) THEN Choose(j) ELSE Pass(j)
  /\ age' = IF Interval[j] > 0 /\ age[j] = None /\ Offset[j] > 0
              THEN [age EXCEPT ![j] = Interval[j] - Offset[j]] ELSE age
  /\ UNCHANGED slot

\* process_cron_jobs looks at a job, with an expression that matches the
\* minute or not, and at most once per minute.
SlotDone_Never(j) == FALSE
SlotDone(j) == slot[j] = minute
LookCron(j, matches) ==
  /\ phase = "cron" /\ j \in jobs
  /\ IF j \in CronJobs /\ matches /\ ~SlotDone(j) /\ MayDispatch(j) THEN Choose(j) ELSE Pass(j)
  /\ UNCHANGED memory

\* _simpan_run_queued and enqueue_job, then the time or the slot is noted.
Dispatch ==
  /\ chosen # None
  /\ queued' = [queued EXCEPT ![chosen]["first"] = @ + 1]
  /\ depth' = Deeper
  /\ IF phase = "interval"
       THEN age' = [age EXCEPT ![chosen] = 0] /\ UNCHANGED <<slot, fired, twice>>
       ELSE /\ slot' = [slot EXCEPT ![chosen] = minute]
            /\ fired' = [fired EXCEPT ![chosen] = @ \cup {minute}]
            /\ twice' = IF minute \in fired[chosen] THEN twice \cup {chosen} ELSE twice
            /\ UNCHANGED age
  /\ count' = count + 1
  /\ chosen' = None
  /\ UNCHANGED <<phase, rest, round, jobs, load, running, retrying, enabled, minute, held, off, forgotten, bounds>>

\* All jobs were looked at, or the tick's dispatches are used up.
EndPhase ==
  /\ phase \in {"interval", "cron"} /\ chosen = None
  /\ rest = <<>> \/ ~TickHasRoom
  /\ phase' = IF phase = "interval" THEN "cron" ELSE "due"
  /\ rest' = IF phase = "interval" THEN Walk(jobs) ELSE <<>>
  /\ UNCHANGED <<chosen, round, jobs, count, memory, load, work, enabled, minute, held, ghosts, bounds>>

\* process_due_jobs queues a retry whose time has come; no guard is consulted.
QueueRetry(j) ==
  /\ phase = "due" /\ retrying[j] > 0
  /\ retrying' = [retrying EXCEPT ![j] = @ - 1]
  /\ queued' = [queued EXCEPT ![j]["other"] = @ + 1]
  /\ depth' = Deeper
  /\ UNCHANGED <<loop, memory, load, running, enabled, minute, held, ghosts, bounds>>

\* The round ends with a sleep of a second; a slow round took more.  A new
\* minute may have begun.
Aged(d) == [j \in Jobs |-> IF age[j] = None THEN None
                          ELSE IF age[j] + d > Interval[j] THEN Interval[j] ELSE age[j] + d]
Sleep(d) ==
  /\ phase = "due"
  /\ phase' = "refresh"
  /\ age' = Aged(d)
  /\ minute' \in {minute, minute + 1} /\ minute' <= MaxMinute
  /\ UNCHANGED <<rest, chosen, round, jobs, count, slot, load, work, enabled, held, ghosts, bounds>>

\* The scheduler's process dies and a new one starts.
Restart ==
  /\ restarts < MaxRestarts
  /\ restarts' = restarts + 1
  /\ phase' = "refresh" /\ rest' = <<>> /\ chosen' = None /\ round' = 0
  /\ jobs' = enabled /\ count' = 0
  /\ pressure' = FALSE /\ seen' = 0
  /\ age' = [j \in Jobs |-> None] /\ slot' = [j \in Jobs |-> None]
  /\ forgotten' = CronJobs
  /\ UNCHANGED <<work, enabled, minute, held, off, fired, twice, manual, toggles>>

(***************************************************************************)
(* Workers, clients and the clock's other effects                          *)
(***************************************************************************)
Deliver(j, k) ==
  /\ queued[j][k] > 0
  /\ queued' = [queued EXCEPT ![j][k] = @ - 1]
  /\ running' = [running EXCEPT ![j][k] = @ + 1]
  /\ depth' = Shallower
  /\ UNCHANGED <<loop, memory, load, retrying, enabled, minute, held, ghosts, bounds>>

\* A run ends; a first attempt that failed may get a retry (the retry of a
\* retry is left out: it passes the same way).
Finish(j, k) ==
  /\ running[j][k] > 0
  /\ running' = [running EXCEPT ![j][k] = @ - 1]
  /\ \/ UNCHANGED retrying
     \/ /\ k = "first" /\ j \in Retryable
        /\ retrying[j] + queued[j]["other"] + running[j]["other"] < MaxRetrying
        /\ retrying' = [retrying EXCEPT ![j] = @ + 1]
  /\ UNCHANGED <<loop, memory, load, depth, queued, enabled, minute, held, ghosts, bounds>>

\* A client starts a run: no guard is consulted.
ManualRun(j) ==
  /\ manual < MaxManual /\ manual' = manual + 1
  /\ queued' = [queued EXCEPT ![j]["other"] = @ + 1]
  /\ depth' = Deeper
  /\ UNCHANGED <<loop, memory, load, running, retrying, enabled, minute, held, ghosts, toggles, restarts>>

\* PUT /jobs/{id}/enable and /disable.
Toggle(j) ==
  /\ toggles < MaxToggles /\ toggles' = toggles + 1
  /\ enabled' = IF j \in enabled THEN enabled \ {j} ELSE enabled \cup {j}
  /\ off' = [off EXCEPT ![j] = 0]
  /\ UNCHANGED <<loop, memory, load, work, minute, held, fired, twice, forgotten, manual, restarts>>

\* An approval is requested or decided, a cooldown starts or expires.
Hold(j) ==
  /\ Holds
  /\ held' = IF j \in held THEN held \ {j} ELSE held \cup {j}
  /\ UNCHANGED <<loop, memory, load, work, enabled, minute, ghosts, bounds>>

SchedulerStep ==
  \/ BeginRound \/ LoadJobs \/ Dispatch \/ EndPhase
  \/ \E j \in Jobs : LookInterval(j) \/ (\E matches \in BOOLEAN : LookCron(j, matches)) \/ QueueRetry(j)
  \/ \E d \in 1..2 : Sleep(d)

WorkerStep(j, k) == Deliver(j, k) \/ Finish(j, k)

ClientStep == \E j \in Jobs : ManualRun(j) \/ Toggle(j) \/ Hold(j)

Next ==
  \/ SchedulerStep
  \/ \E j \in Jobs, k \in Kinds : WorkerStep(j, k)
  \/ ClientStep
  \/ Restart

Spec == Init /\ [][Next]_vars

\* The scheduler's loop keeps turning, workers take messages and finish them.
FairSpec ==
  /\ Spec
  /\ WF_vars(SchedulerStep)
  /\ \A j \in Jobs, k \in Kinds : WF_vars(Deliver(j, k)) /\ WF_vars(Finish(j, k))

(***************************************************************************)
(* Properties                                                              *)
(***************************************************************************)

\* Every variable has its type, and a round's dispatches stay within the cap
\* that its two phases share.
TypeOK ==
  /\ phase \in Phases /\ Range(rest) \subseteq Jobs /\ chosen \in Jobs \cup {None}
  /\ round \in 0..ReloadEvery /\ jobs \subseteq Jobs /\ count \in 0..MaxDispatch
  /\ pressure \in BOOLEAN /\ seen \in Nat /\ depth \in Nat
  /\ \A j \in Jobs : age[j] \in 0..Interval[j] \cup {None} /\ slot[j] \in 0..MaxMinute \cup {None}
  /\ enabled \subseteq Jobs /\ minute \in 0..MaxMinute /\ held \subseteq Jobs
  /\ queued \in [Jobs -> [Kinds -> Nat]] /\ running \in [Jobs -> [Kinds -> Nat]]
  /\ retrying \in [Jobs -> Nat]
  /\ off \in [Jobs -> 0..ReloadEvery + 1]
  /\ twice \subseteq CronJobs /\ forgotten \subseteq CronJobs

\* The pressure state is what the thresholds say of the last depth read: on
\* means it has not come down to DepthLow, off that it has not reached
\* DepthHigh, so between the two the mode does not flicker.
Hysteresis ==
  /\ pressure => seen > DepthLow
  /\ ~pressure => seen < DepthHigh

LimitOf(g) == Max({FlowLimit[j] : j \in InFlow(g)})
Limited == {g \in Groups : InFlow(g) # {} /\ \A j \in InFlow(g) : FlowLimit[j] > 0}
FirstsInFlow(g) == SumFunctionOnSet([j \in Jobs |-> queued[j]["first"] + running[j]["first"]], InFlow(g))

\* The first attempts that the schedule dispatches never exceed the limit of
\* their flow, whatever other runs join the flow between look and dispatch.
\* All active runs of a flow may: retries and clients' runs pass no guard.
FirstsWithinFlow == \A g \in Limited : FirstsInFlow(g) <= LimitOf(g)

\* The limits on what the schedule dispatches: by the depth of the queue, and by flow.
LimitsRespected == TypeOK /\ Hysteresis /\ FirstsWithinFlow

\* A disabled job can still be dispatched, but only until the next reload:
\* no later than ReloadEvery rounds after it was disabled.
StaleJobsBounded == \A j \in jobs \ enabled : off[j] <= ReloadEvery

\* A cron job is dispatched at most once per minute, as long as the scheduler
\* remembers the minute: a restart, or a reload while the job is disabled,
\* makes it forget.
OncePerRememberedSlot == twice \subseteq forgotten

\* What the scheduler remembers between reloads, the jobs and their minutes, is wrong
\* no longer than that.
MemoryBounded == StaleJobsBounded /\ OncePerRememberedSlot

\* Pressure mode is released once the backlog has come down for good.
PressureReleased == <>[](Backlog <= DepthLow) => []<>~pressure

\* A job that stays enabled and is not held is dispatched again and again.
EachJobRuns == \A j \in IntervalJobs : <>[](j \in enabled /\ j \notin held) => []<>(chosen = j)
================================================================================

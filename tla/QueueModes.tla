------------------------------- MODULE QueueModes -------------------------------
(***************************************************************************)
(* The job queue of each process: streams, the list of an old Redis, or    *)
(* the process's own memory.                                               *)
(*                                                                         *)
(* Every process keeps two switches of its own: "legacy" is set when Redis *)
(* does not know streams, "fallback" when a command failed.  Nothing but a *)
(* restart resets them.  The API process that finds no Redis when it       *)
(* starts runs a worker and a scheduler of its own on its memory; the      *)
(* memory of any other process is read by nobody.                          *)
(***************************************************************************)
EXTENDS Naturals, FiniteSets

CONSTANTS
  Api, Scheduler, Workers, \* processes
  Slots, Home,             \* slots that run handlers, and the process of each
  Runs, Retries,           \* runs, and how often each may be retried
  MaxFaults,               \* bound on commands that fail
  MaxCrashes,              \* bound on processes that die
  None                     \* no message

Processes == {Api, Scheduler} \cup Workers

\* A message is an attempt of a run.
Messages == UNION {{r} \X (0..Retries[r]) : r \in Runs}

ASSUME ModesAssumption ==
  /\ Api # Scheduler /\ {Api, Scheduler} \cap Workers = {}
  /\ Home \in [Slots -> Workers \cup {Api}] /\ Retries \in [Runs -> Nat]
  /\ {MaxFaults, MaxCrashes} \subseteq Nat /\ None \notin Messages

\* A definition X_... states a plausible bug of the X that follows it, to show
\* which property would catch it.  No action uses one.

VARIABLES
  modern,  \* does the server know streams?
  group,   \* does the consumer group exist?
  redis,   \* what the server's queues hold
  mode,    \* the switches of each process, "down" when it is not running
  local,   \* does the API process run its own worker and scheduler?
  mem,     \* the queues in each process's memory
  fetched, due, \* delayed messages a scheduler has read, and has removed
  stage, hand,  \* what each slot does, and with which message
  accepted,   \* history: messages somebody asked to have executed
  executions, \* history: how often each was
  early,      \* history: messages sent to Redis before the group existed
  harmed,     \* history: messages that were taken from a queue and dropped
  faults, crashes

server  == <<modern, group, redis>>
process == <<mode, local, mem>>
moving  == <<fetched, due>>
slots   == <<stage, hand>>
history == <<accepted, executions, early, harmed>>
bounds  == <<faults, crashes>>
vars == <<server, process, moving, slots, history, bounds>>

First(r) == <<r, 0>>
Following(m) == <<m[1], m[2] + 1>>

NoQueues == [jobs |-> {}, delayed |-> {}]

Init ==
  /\ modern \in BOOLEAN /\ group = FALSE
  /\ redis = [stream |-> {}, missed |-> {}, pel |-> {}, list |-> {}, delayed |-> {}]
  /\ mode = [p \in Processes |-> "down"] /\ local = FALSE
  /\ mem = [p \in Processes |-> NoQueues]
  /\ fetched = [p \in Processes |-> {}] /\ due = [p \in Processes |-> {}]
  /\ stage = [s \in Slots |-> "idle"] /\ hand = [s \in Slots |-> None]
  /\ accepted = {} /\ executions = [m \in Messages |-> 0] /\ early = {} /\ harmed = {}
  /\ faults = 0 /\ crashes = 0

(***************************************************************************)
(* Commands.  One is executed (done) or not, and the caller gets the       *)
(* answer, a timeout or a broken connection: the last two with and without *)
(* the command done.                                                       *)
(***************************************************************************)
Command(done, answer) ==
  \/ answer = "ok" /\ done /\ UNCHANGED faults
  \/ answer # "ok" /\ faults < MaxFaults /\ faults' = faults + 1

InMemory(p) == mode[p] = "memory"
OnRedis(p) == mode[p] \in {"streams", "list"}
ToMemory(p) == mode' = [mode EXCEPT ![p] = "memory"]

\* Which queue a process means, and the mode it is in once Redis has answered.
Uses(p) == IF modern /\ mode[p] = "streams" THEN "stream" ELSE "list"
Answered(p) == IF modern THEN mode[p] ELSE "list"

(***************************************************************************)
(* Processes start and stop                                                *)
(***************************************************************************)
\* XGROUP CREATE at "$": what is in the stream already is not for the group.
\* A group that exists is left alone.
WithGroup_Again == [redis EXCEPT !.missed = @ \cup redis.stream, !.stream = {}]
WithGroup == IF group THEN redis ELSE [redis EXCEPT !.missed = @ \cup redis.stream, !.stream = {}]

\* A BUSYGROUP answer is success, an unknown command means an old Redis.
InitMode_BusyIsOld == IF modern /\ ~group THEN "streams" ELSE "list"
InitMode == IF modern THEN "streams" ELSE "list"

InitQueue(p, done, answer) ==
  /\ Command(done, answer)
  /\ IF done /\ modern THEN group' = TRUE /\ redis' = WithGroup ELSE UNCHANGED <<group, redis>>
  /\ mode' = [mode EXCEPT ![p] = IF answer = "ok" THEN InitMode ELSE "memory"]

StartWorker(w, done, answer) ==
  /\ w \in Workers /\ mode[w] = "down"
  /\ InitQueue(w, done, answer)
  /\ UNCHANGED <<modern, local, mem, moving, slots, history, crashes>>

StartApi(done, answer) ==
  /\ mode[Api] = "down"
  /\ InitQueue(Api, done, answer)
  /\ UNCHANGED <<modern, local, mem, moving, slots, history, crashes>>

\* The API's first PING fails.
StartAlone ==
  /\ mode[Api] = "down" /\ faults < MaxFaults
  /\ faults' = faults + 1
  /\ ToMemory(Api) /\ local' = TRUE
  /\ UNCHANGED <<server, mem, moving, slots, history, crashes>>

\* The scheduler does not call init_queue.
StartScheduler ==
  /\ mode[Scheduler] = "down"
  /\ mode' = [mode EXCEPT ![Scheduler] = "streams"]
  /\ UNCHANGED <<server, local, mem, moving, slots, history, bounds>>

\* A command outside the queue fails: the process gives up Redis for good.
Degrade(p) ==
  /\ OnRedis(p) /\ faults < MaxFaults
  /\ faults' = faults + 1
  /\ ToMemory(p)
  /\ UNCHANGED <<server, local, mem, moving, slots, history, crashes>>

SlotsOf(p) == {s \in Slots : Home[s] = p}
Holds(p) == mem[p].jobs \cup mem[p].delayed \cup due[p] \cup {hand[s] : s \in {t \in SlotsOf(p) : hand[t] # None}}

\* The process dies, with what only its memory held.
Crash(p) ==
  /\ mode[p] # "down" /\ crashes < MaxCrashes
  /\ crashes' = crashes + 1
  /\ mode' = [mode EXCEPT ![p] = "down"] /\ local' = (local /\ p # Api)
  /\ mem' = [mem EXCEPT ![p] = NoQueues]
  /\ fetched' = [fetched EXCEPT ![p] = {}] /\ due' = [due EXCEPT ![p] = {}]
  /\ stage' = [s \in Slots |-> IF Home[s] = p THEN "idle" ELSE stage[s]]
  /\ hand' = [s \in Slots |-> IF Home[s] = p THEN None ELSE hand[s]]
  /\ harmed' = harmed \cup Holds(p)
  /\ UNCHANGED <<server, accepted, executions, early, faults>>

(***************************************************************************)
(* enqueue_job                                                             *)
(***************************************************************************)
Send(p, m, done, answer) ==
  \/ /\ InMemory(p) /\ done /\ answer = "ok"
     /\ mem' = [mem EXCEPT ![p].jobs = @ \cup {m}]
     /\ UNCHANGED <<redis, mode, early, faults>>
  \/ /\ OnRedis(p) /\ Command(done, answer)
     /\ early' = IF done /\ ~group /\ Uses(p) = "stream" THEN early \cup {m} ELSE early
     /\ redis' = IF done THEN [redis EXCEPT ![Uses(p)] = @ \cup {m}] ELSE redis
     /\ IF answer = "ok"
          THEN mode' = [mode EXCEPT ![p] = Answered(p)] /\ UNCHANGED mem
          ELSE ToMemory(p) /\ mem' = [mem EXCEPT ![p].jobs = @ \cup {m}]

\* A client's request or a job that is due by its schedule.
Issue(p, r, done, answer) ==
  /\ p \in {Api, Scheduler} /\ First(r) \notin accepted
  /\ Send(p, First(r), done, answer)
  /\ accepted' = accepted \cup {First(r)}
  /\ UNCHANGED <<modern, group, local, moving, slots, executions, harmed, crashes>>

\* get_queue_metrics tells a process that Redis is old.
Measure(p) ==
  /\ p \in {Api, Scheduler} /\ mode[p] = "streams" /\ ~modern
  /\ mode' = [mode EXCEPT ![p] = "list"]
  /\ UNCHANGED <<server, local, mem, moving, slots, history, bounds>>

(***************************************************************************)
(* dequeue_job                                                             *)
(***************************************************************************)
Serves(s) == mode[Home[s]] # "down" /\ (Home[s] = Api => local)

Take(s, m, st) == hand' = [hand EXCEPT ![s] = m] /\ stage' = [stage EXCEPT ![s] = st]
Release(s) == Take(s, None, "idle")

\* pop(0) of the process's own queue, or no data.
PopMemory(s) ==
  LET p == Home[s] IN
    \/ \E m \in mem[p].jobs : Take(s, m, "exec") /\ mem' = [mem EXCEPT ![p].jobs = @ \ {m}]
    \/ mem[p].jobs = {} /\ Release(s) /\ UNCHANGED mem

ReadMemory(s) ==
  /\ Serves(s) /\ stage[s] = "idle" /\ InMemory(Home[s]) /\ mem[Home[s]].jobs # {}
  /\ PopMemory(s)
  /\ UNCHANGED <<server, mode, local, moving, history, bounds>>

\* No answer: a timeout is "no data", anything else the end of Redis.
NoAnswer(s, answer) ==
  \/ answer = "timeout" /\ Release(s) /\ UNCHANGED <<mode, mem>>
  \/ answer = "broken" /\ ToMemory(Home[s]) /\ PopMemory(s)

\* XREADGROUP: delivered is pending until acknowledged.
ReadStream(s, m, done, answer) ==
  /\ Serves(s) /\ stage[s] = "idle" /\ OnRedis(Home[s]) /\ Uses(Home[s]) = "stream"
  /\ group /\ m \in redis.stream
  /\ Command(done, answer)
  /\ redis' = IF done THEN [redis EXCEPT !.stream = @ \ {m}, !.pel = @ \cup {m}] ELSE redis
  /\ \/ answer = "ok" /\ Take(s, m, "ack") /\ UNCHANGED <<mode, mem>>
     \/ answer # "ok" /\ NoAnswer(s, answer)
  /\ harmed' = IF done /\ answer # "ok" THEN harmed \cup {m} ELSE harmed
  /\ UNCHANGED <<modern, group, local, moving, accepted, executions, early, crashes>>

\* XACK comes before the work; if it fails the message is forgotten.
Acknowledge(s, done, answer) ==
  /\ stage[s] = "ack"
  /\ Command(done, answer)
  /\ redis' = IF done THEN [redis EXCEPT !.pel = @ \ {hand[s]}] ELSE redis
  /\ \/ answer = "ok" /\ Take(s, hand[s], "exec") /\ UNCHANGED <<mode, mem>>
     \/ answer # "ok" /\ NoAnswer(s, answer)
  /\ harmed' = IF answer = "ok" THEN harmed ELSE harmed \cup {hand[s]}
  /\ UNCHANGED <<modern, group, local, moving, accepted, executions, early, crashes>>

\* BLPOP
ReadList(s, m, done, answer) ==
  /\ Serves(s) /\ stage[s] = "idle" /\ OnRedis(Home[s]) /\ Uses(Home[s]) = "list"
  /\ m \in redis.list
  /\ Command(done, answer)
  /\ redis' = IF done THEN [redis EXCEPT !.list = @ \ {m}] ELSE redis
  /\ \/ answer = "ok" /\ Take(s, m, "exec") /\ UNCHANGED <<mode, mem>>
     \/ answer # "ok" /\ NoAnswer(s, answer)
  /\ harmed' = IF done /\ answer # "ok" THEN harmed \cup {m} ELSE harmed
  /\ UNCHANGED <<modern, group, local, moving, accepted, executions, early, crashes>>

(***************************************************************************)
(* The work, and schedule_delayed_job                                      *)
(***************************************************************************)
MayRetry_OffByOne(m) == m[2] <= Retries[m[1]]
MayRetry(m) == m[2] < Retries[m[1]]

Execute(s, fails) ==
  /\ stage[s] = "exec"
  /\ executions' = [executions EXCEPT ![hand[s]] = @ + 1]
  /\ IF fails /\ MayRetry(hand[s])
       THEN Take(s, Following(hand[s]), "delay") /\ accepted' = accepted \cup {Following(hand[s])}
       ELSE Release(s) /\ UNCHANGED accepted
  /\ UNCHANGED <<server, process, moving, early, harmed, bounds>>

\* A retry: ZADD.
Delay(s, done, answer) ==
  LET p == Home[s] IN
  /\ stage[s] = "delay"
  /\ \/ /\ InMemory(p) /\ done /\ answer = "ok"
        /\ mem' = [mem EXCEPT ![p].delayed = @ \cup {hand[s]}]
        /\ UNCHANGED <<redis, mode, faults>>
     \/ /\ OnRedis(p) /\ Command(done, answer)
        /\ redis' = IF done THEN [redis EXCEPT !.delayed = @ \cup {hand[s]}] ELSE redis
        /\ \/ answer = "ok" /\ UNCHANGED <<mode, mem>>
           \/ answer # "ok" /\ ToMemory(p) /\ mem' = [mem EXCEPT ![p].delayed = @ \cup {hand[s]}]
  /\ Release(s)
  /\ UNCHANGED <<modern, group, local, moving, history, crashes>>

(***************************************************************************)
(* get_due_jobs and process_due_jobs                                       *)
(***************************************************************************)
Schedules_OnlyScheduler(p) == p = Scheduler
Schedules(p) == p = Scheduler \/ (p = Api /\ local)
Waiting(p) == fetched[p] = {} /\ due[p] = {}

DueInMemory(p, ms) ==
  /\ due' = [due EXCEPT ![p] = ms]
  /\ mem' = [mem EXCEPT ![p].delayed = @ \ ms]

FetchMemory(p, ms) ==
  /\ Schedules(p) /\ Waiting(p) /\ InMemory(p)
  /\ ms # {} /\ ms \subseteq mem[p].delayed
  /\ DueInMemory(p, ms)
  /\ UNCHANGED <<server, mode, local, fetched, slots, history, bounds>>

\* ZRANGEBYSCORE; if that fails it is a Degrade, then a FetchMemory.
FetchDue(p, ms) ==
  /\ Schedules(p) /\ Waiting(p) /\ OnRedis(p)
  /\ ms # {} /\ ms \subseteq redis.delayed
  /\ fetched' = [fetched EXCEPT ![p] = ms]
  /\ UNCHANGED <<server, process, due, slots, history, bounds>>

\* ZREM.  If it fails nothing of what was read is returned, removed or not.
RemoveFailed_Ignored(p, ms) == due' = [due EXCEPT ![p] = fetched[p]] /\ UNCHANGED <<mode, mem>>
RemoveFailed(p, ms) == ToMemory(p) /\ DueInMemory(p, ms)

RemoveDue(p, ms, done, answer) ==
  /\ fetched[p] # {} /\ ms \subseteq mem[p].delayed
  /\ Command(done, answer)
  /\ redis' = IF done THEN [redis EXCEPT !.delayed = @ \ fetched[p]] ELSE redis
  /\ \/ answer = "ok" /\ ms = {} /\ due' = [due EXCEPT ![p] = fetched[p]] /\ UNCHANGED <<mode, mem>>
     \/ answer # "ok" /\ RemoveFailed(p, ms)
  /\ harmed' = IF done /\ answer # "ok" THEN harmed \cup fetched[p] ELSE harmed
  /\ fetched' = [fetched EXCEPT ![p] = {}]
  /\ UNCHANGED <<modern, group, local, slots, accepted, executions, early, crashes>>

EnqueueDue(p, m, done, answer) ==
  /\ m \in due[p]
  /\ Send(p, m, done, answer)
  /\ due' = [due EXCEPT ![p] = @ \ {m}]
  /\ UNCHANGED <<modern, group, local, fetched, slots, accepted, executions, harmed, crashes>>

(***************************************************************************)
(* Specification                                                           *)
(***************************************************************************)
\* Most callers treat a timeout like any other error.
Results == {"ok", "broken"}

Start(p) ==
  \/ \E done \in BOOLEAN, answer \in Results : StartWorker(p, done, answer)
  \/ p = Api /\ (StartAlone \/ \E done \in BOOLEAN, answer \in Results : StartApi(done, answer))
  \/ p = Scheduler /\ StartScheduler

SlotStep(s) ==
  \/ ReadMemory(s)
  \/ \E done \in BOOLEAN, answer \in Results \cup {"timeout"} :
       \/ \E m \in redis.stream : ReadStream(s, m, done, answer)
       \/ \E m \in redis.list : ReadList(s, m, done, answer)
       \/ Acknowledge(s, done, answer)
  \/ \E fails \in BOOLEAN : Execute(s, fails)
  \/ \E done \in BOOLEAN, answer \in Results : Delay(s, done, answer)

Move(p) ==
  \/ \E ms \in SUBSET mem[p].delayed : FetchMemory(p, ms)
  \/ \E ms \in SUBSET redis.delayed : FetchDue(p, ms)
  \/ \E done \in BOOLEAN, answer \in Results :
       \/ \E ms \in SUBSET mem[p].delayed : RemoveDue(p, ms, done, answer)
       \/ \E m \in due[p] : EnqueueDue(p, m, done, answer)

Next ==
  \/ \E p \in Processes : Start(p) \/ Degrade(p) \/ Crash(p) \/ Measure(p) \/ Move(p)
  \/ \E p \in Processes, r \in Runs, done \in BOOLEAN, answer \in Results : Issue(p, r, done, answer)
  \/ \E s \in Slots : SlotStep(s)

\* Processes are restarted when they die, slots and schedulers keep looping.
Fairness ==
  /\ \A p \in Processes : WF_vars(Start(p)) /\ WF_vars(Move(p))
  /\ \A s \in Slots : WF_vars(SlotStep(s))

Spec == Init /\ [][Next]_vars /\ Fairness

(***************************************************************************)
(* Properties                                                              *)
(***************************************************************************)

\* Every variable has its type.
TypeOK ==
  /\ modern \in BOOLEAN /\ group \in BOOLEAN /\ local \in BOOLEAN
  /\ redis \in [stream : SUBSET Messages, missed : SUBSET Messages, pel : SUBSET Messages,
                list : SUBSET Messages, delayed : SUBSET Messages]
  /\ mode \in [Processes -> {"down", "streams", "list", "memory"}]
  /\ mem \in [Processes -> [jobs : SUBSET Messages, delayed : SUBSET Messages]]
  /\ fetched \in [Processes -> SUBSET Messages] /\ due \in [Processes -> SUBSET Messages]
  /\ stage \in [Slots -> {"idle", "ack", "exec", "delay"}] /\ hand \in [Slots -> Messages \cup {None}]
  /\ accepted \subseteq Messages /\ harmed \cup early \subseteq accepted
  /\ executions \in [Messages -> Nat]
  /\ faults \in 0..MaxFaults /\ crashes \in 0..MaxCrashes

\* A message is executed at most once, although a command without an answer
\* leaves it in Redis and in a memory, and a restart reads Redis again.
AtMostOnce == \A m \in Messages : executions[m] <= 1

\* Where a message is executed from sooner or later, if its readers go on.
OnServer(m) == m \in UNION {redis.stream, redis.list, redis.delayed}
InHand(m) == \E p \in Processes : m \in due[p] \/ \E s \in SlotsOf(p) : hand[s] = m
Islanded(m) == \E p \in Processes : m \in mem[p].jobs \cup mem[p].delayed /\ ~(p = Api /\ local)

\* A message nobody has executed is on the server, in a hand or in a memory;
\* or a command without an answer or a dying process took it along; or it was
\* sent before the group existed.  Nothing else loses one.
Accounted ==
  \A m \in accepted : executions[m] = 0 =>
    \/ OnServer(m) \/ InHand(m) \/ \E p \in Processes : m \in mem[p].jobs \cup mem[p].delayed
    \/ m \in harmed \/ m \in early

\* A message accepted is executed once, but for the losses named.
NeitherTwiceNorLost == TypeOK /\ AtMostOnce /\ Accounted

\* Processes that use Redis use the same queue, whenever each of them learned
\* whether Redis knows streams; a worker that reads the stream has its group.
OneQueue ==
  /\ redis.stream \cup redis.missed = {} \/ redis.list = {}
  /\ \A w \in Workers : OnRedis(w) => IF modern THEN Uses(w) = "stream" /\ group ELSE Uses(w) = "list"

\* Every message accepted is executed, unless it was lost as Accounted says or
\* it depends on a process that has given up Redis: it lies in the memory of
\* one, or waits in Redis for workers or for a scheduler that all have.
Stranded(m) ==
  \/ Islanded(m) /\ ~OnServer(m)
  \/ m \in redis.stream \cup redis.list /\ \A w \in Workers : InMemory(w)
  \/ m \in redis.delayed /\ InMemory(Scheduler)
Settles ==
  \A m \in Messages :
    m \in accepted ~> executions[m] = 1 \/ m \in harmed \cup early \/ Stranded(m)
================================================================================

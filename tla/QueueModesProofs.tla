----------------------------- MODULE QueueModesProofs -----------------------------
(***************************************************************************)
(* Proofs about QueueModes, for every set of workers, slots and runs, every *)
(* retry policy, and every number of commands that fail and of processes   *)
(* that die.                                                               *)
(***************************************************************************)
EXTENDS QueueModes, TLAPS

USE ModesAssumption

(***************************************************************************)
(* The inductive invariant                                                 *)
(***************************************************************************)

\* Which queue Redis has follows from whether it knows streams, and a process
\* in the mode "list" has learned that it does not.
ModesAgree ==
  /\ modern => /\ redis.list = {}
               /\ \A p \in Processes : mode[p] # "list"
               /\ \A w \in Workers : mode[w] = "streams" => group
  /\ ~modern => redis.stream = {} /\ redis.missed = {}

\* What cannot be where: a process that is down holds nothing, only the API
\* with a worker of its own serves its memory, and only the scheduler reads
\* zset:delayed.
Tidy ==
  /\ local => mode[Api] = "memory"
  /\ \A p \in Processes : mode[p] = "down" => mem[p] = NoQueues
  /\ \A s \in Slots : stage[s] = "idle" <=> hand[s] = None
  /\ \A s \in Slots : Home[s] = Api => stage[s] # "ack" /\ (stage[s] # "idle" => local)
  /\ \A w \in Workers : mem[w].jobs = {} /\ fetched[w] = {} /\ due[w] = {}
  /\ mem[Scheduler].delayed = {} /\ fetched[Api] = {} /\ (due[Api] # {} => local)
  /\ fetched[Scheduler] \subseteq redis.delayed
  /\ fetched[Scheduler] # {} => due[Scheduler] = {}

\* Every message anywhere has been accepted.
PlacedIsAccepted ==
  /\ redis.stream \cup redis.list \cup redis.pel \cup redis.delayed \subseteq accepted
  /\ \A p \in Processes : mem[p].jobs \cup mem[p].delayed \cup fetched[p] \cup due[p] \subseteq accepted
  /\ \A s \in Slots : hand[s] # None => hand[s] \in accepted

\* The places from which a message can still come to be executed: a queue of
\* the server, the memory of an API that serves it, a scheduler's batch, a
\* slot's hand.  This message is at none but the place named.
Spots == {"nowhere", "stream", "list", "delayed", "jobs", "later", "batch", "hand"}
Holders == Processes \cup Slots \cup {None}
Only(m, spot, holder) ==
  /\ m \in redis.stream => spot = "stream"
  /\ m \in redis.list => spot = "list"
  /\ m \in redis.delayed => spot = "delayed"
  /\ local /\ m \in mem[Api].jobs => spot = "jobs"
  /\ local /\ m \in mem[Api].delayed => spot = "later"
  /\ \A p \in Processes : m \in due[p] => spot = "batch" /\ holder = p
  /\ \A s \in Slots : m = hand[s] => spot = "hand" /\ holder = s

\* There is one such place at most for each message.
OneLive == \A m \in Messages : \E spot \in Spots, holder \in Holders : Only(m, spot, holder)

\* A message that was executed was accepted, and is at none of them any more.
SpentIsGone ==
  \A m \in Messages : executions[m] # 0 => executions[m] = 1 /\ m \in accepted /\ Only(m, "nowhere", None)

\* A retry is asked for when its predecessor is executed.
RetryFollows ==
  \A m \in Messages : MayRetry(m) /\ Following(m) \in accepted => executions[m] = 1

\* What is in the stream before the group exists was sent early.
EarlyKnown == ~group => redis.stream \subseteq early

IInv ==
  /\ TypeOK /\ ModesAgree /\ Tidy /\ PlacedIsAccepted
  /\ OneLive /\ SpentIsGone /\ RetryFollows /\ Accounted /\ EarlyKnown

(***************************************************************************)
(* Messages, and the steps there are                                       *)
(***************************************************************************)

\* A run's first attempt, and the next one of a message that may be retried.
LEMMA MessageType ==
  /\ \A r \in Runs : First(r) \in Messages
  /\ \A m \in Messages : MayRetry(m) => Following(m) \in Messages /\ Following(m) # m
  /\ None \notin Messages
  <1>1. \A m : m \in Messages <=> \E r \in Runs : \E n \in 0..Retries[r] : m = <<r, n>>
    BY DEF Messages
  <1>2. \A r \in Runs : First(r) \in Messages
    BY <1>1 DEF First
  <1>3. ASSUME NEW m \in Messages, MayRetry(m) PROVE Following(m) \in Messages /\ Following(m) # m
    BY <1>1, <1>3 DEF MayRetry, Following
  <1>. QED
    BY <1>2, <1>3

\* Two messages with the same successor are one.
LEMMA FollowingInjective ==
  ASSUME NEW m \in Messages, NEW n \in Messages, Following(m) = Following(n)
  PROVE  m = n
  <1>1. \A x : x \in Messages <=> \E r \in Runs : \E k \in 0..Retries[r] : x = <<r, k>>
    BY DEF Messages
  <1>. QED
    BY <1>1 DEF Following

\* No first attempt is a retry.
LEMMA FirstIsNoRetry ==
  ASSUME NEW m \in Messages, NEW r \in Runs PROVE First(r) # Following(m)
  <1>1. \A x : x \in Messages <=> \E q \in Runs : \E k \in 0..Retries[q] : x = <<q, k>>
    BY DEF Messages
  <1>. QED
    BY <1>1 DEF Following, First

\* The actions one by one, each with its parameters.
Answers == Results \cup {"timeout"}
LEMMA NextCases ==
  ASSUME [Next]_vars
  PROVE
    \/ \E w \in Workers, done \in BOOLEAN, answer \in Results : StartWorker(w, done, answer)
    \/ \E done \in BOOLEAN, answer \in Results : StartApi(done, answer)
    \/ StartAlone \/ StartScheduler
    \/ \E p \in Processes : Degrade(p) \/ Crash(p) \/ Measure(p)
    \/ \E p \in Processes, r \in Runs, done \in BOOLEAN, answer \in Results : Issue(p, r, done, answer)
    \/ \E s \in Slots : ReadMemory(s)
    \/ \E s \in Slots, done \in BOOLEAN, answer \in Answers, m \in redis.stream : ReadStream(s, m, done, answer)
    \/ \E s \in Slots, done \in BOOLEAN, answer \in Answers, m \in redis.list : ReadList(s, m, done, answer)
    \/ \E s \in Slots, done \in BOOLEAN, answer \in Answers : Acknowledge(s, done, answer)
    \/ \E s \in Slots, fails \in BOOLEAN : Execute(s, fails)
    \/ \E s \in Slots, done \in BOOLEAN, answer \in Results : Delay(s, done, answer)
    \/ \E p \in Processes : \E ms \in SUBSET mem[p].delayed : FetchMemory(p, ms)
    \/ \E p \in Processes : \E ms \in SUBSET redis.delayed : FetchDue(p, ms)
    \/ \E p \in Processes, done \in BOOLEAN, answer \in Results :
         \E ms \in SUBSET mem[p].delayed : RemoveDue(p, ms, done, answer)
    \/ \E p \in Processes, done \in BOOLEAN, answer \in Results : \E m \in due[p] : EnqueueDue(p, m, done, answer)
    \/ UNCHANGED vars
  <1>1. ASSUME NEW p \in Processes, Start(p)
        PROVE  \/ \E w \in Workers, done \in BOOLEAN, answer \in Results : StartWorker(w, done, answer)
               \/ \E done \in BOOLEAN, answer \in Results : StartApi(done, answer)
               \/ StartAlone \/ StartScheduler
    BY <1>1 DEF Start, StartWorker
  <1>. QED
    BY <1>1 DEF Next, SlotStep, Move, Answers

(***************************************************************************)
(* Type correctness                                                        *)
(***************************************************************************)
Queues == [jobs : SUBSET Messages, delayed : SUBSET Messages]
Keys == [stream : SUBSET Messages, missed : SUBSET Messages, pel : SUBSET Messages,
         list : SUBSET Messages, delayed : SUBSET Messages]

\* A message that a slot has in hand is one.
LEMMA HandType ==
  ASSUME TypeOK, Tidy, NEW s \in Slots, stage[s] # "idle"
  PROVE  hand[s] \in Messages
  BY DEF TypeOK, Tidy

LEMMA HomeType == ASSUME NEW s \in Slots PROVE Home[s] \in Processes /\ Home[s] # Scheduler
  BY DEF Processes

LEMMA CommandType ==
  ASSUME TypeOK, NEW done, NEW answer, Command(done, answer) PROVE faults' \in 0..MaxFaults
  BY DEF TypeOK, Command

LEMMA SendType ==
  ASSUME TypeOK, NEW p \in Processes, NEW m \in Messages, NEW done, NEW answer, Send(p, m, done, answer)
  PROVE  /\ redis' \in Keys /\ mem' \in [Processes -> Queues] /\ faults' \in 0..MaxFaults
         /\ mode' \in [Processes -> {"down", "streams", "list", "memory"}]
         /\ early' \subseteq early \cup {m}
  <1> USE DEF TypeOK, Queues, Keys
  <1>1. CASE InMemory(p) /\ mem' = [mem EXCEPT ![p].jobs = @ \cup {m}] /\ UNCHANGED <<redis, mode, early, faults>>
    BY <1>1
  <1>2. CASE /\ OnRedis(p) /\ Command(done, answer)
             /\ early' = IF done /\ ~group /\ Uses(p) = "stream" THEN early \cup {m} ELSE early
             /\ redis' = IF done THEN [redis EXCEPT ![Uses(p)] = @ \cup {m}] ELSE redis
             /\ IF answer = "ok"
                  THEN mode' = [mode EXCEPT ![p] = Answered(p)] /\ UNCHANGED mem
                  ELSE ToMemory(p) /\ mem' = [mem EXCEPT ![p].jobs = @ \cup {m}]
    <2>1. redis' \in Keys
      <3>1. CASE Uses(p) = "stream"
        BY <1>2, <3>1
      <3>2. CASE Uses(p) = "list"
        BY <1>2, <3>2
      <3>. QED
        BY <3>1, <3>2 DEF Uses
    <2>2. mem' \in [Processes -> Queues]
      <3>1. mem' = mem \/ mem' = [mem EXCEPT ![p].jobs = @ \cup {m}]
        BY <1>2
      <3>. QED
        BY <3>1
    <2>3. mode' \in [Processes -> {"down", "streams", "list", "memory"}]
      BY <1>2, SMTT(30) DEF ToMemory, Answered
    <2>4. faults' \in 0..MaxFaults
      BY <1>2, CommandType
    <2>. QED
      BY <1>2, <2>1, <2>2, <2>3, <2>4
  <1>. QED
    BY <1>1, <1>2 DEF Send

\* A slot without an answer takes from its process's memory or does nothing.
LEMMA NoAnswerType ==
  ASSUME TypeOK, NEW s \in Slots, NEW answer, NoAnswer(s, answer)
  PROVE  /\ mem' \in [Processes -> Queues]
         /\ mode' \in [Processes -> {"down", "streams", "list", "memory"}]
         /\ stage' \in [Slots -> {"idle", "ack", "exec", "delay"}]
         /\ hand' \in [Slots -> Messages \cup {None}]
  <1> USE DEF TypeOK, Queues, Release, Take
  <1>1. CASE Release(s) /\ UNCHANGED <<mode, mem>>
    BY <1>1
  <1>2. CASE ToMemory(Home[s]) /\ PopMemory(s)
    <2>1. mode' \in [Processes -> {"down", "streams", "list", "memory"}]
      BY <1>2 DEF ToMemory
    <2>2. CASE mem[Home[s]].jobs = {} /\ Release(s) /\ UNCHANGED mem
      BY <2>1, <2>2
    <2>3. ASSUME NEW m \in mem[Home[s]].jobs, Take(s, m, "exec"),
                 mem' = [mem EXCEPT ![Home[s]].jobs = @ \ {m}]
          PROVE  /\ mem' \in [Processes -> Queues]
                 /\ stage' \in [Slots -> {"idle", "ack", "exec", "delay"}]
                 /\ hand' \in [Slots -> Messages \cup {None}]
      <3>1. m \in Messages /\ Home[s] \in Processes
        BY HomeType
      <3>2. mem' \in [Processes -> Queues]
        BY <2>3, <3>1
      <3>. QED
        BY <2>3, <3>1, <3>2
    <2>. QED
      BY <1>2, <2>1, <2>2, <2>3 DEF PopMemory
  <1>. QED
    BY <1>1, <1>2 DEF NoAnswer

LEMMA InitQueueType ==
  ASSUME TypeOK, NEW p \in Processes, NEW done, NEW answer, InitQueue(p, done, answer)
  PROVE  /\ faults' \in 0..MaxFaults /\ group' \in BOOLEAN /\ redis' \in Keys
         /\ mode' \in [Processes -> {"down", "streams", "list", "memory"}]
  <1> USE DEF TypeOK, Keys
  <1>1. faults' \in 0..MaxFaults
    BY CommandType DEF InitQueue
  <1>2. group' \in BOOLEAN
    BY DEF InitQueue
  <1>3. WithGroup \in Keys
    BY DEF WithGroup
  <1>4. redis' \in Keys
    BY <1>3 DEF InitQueue
  <1>5. mode' \in [Processes -> {"down", "streams", "list", "memory"}]
    BY DEF InitQueue, InitMode
  <1>. QED
    BY <1>1, <1>2, <1>4, <1>5

LEMMA InitType == Init => TypeOK
  <1> SUFFICES ASSUME Init PROVE TypeOK
    OBVIOUS
  <1>1. mem \in [Processes -> Queues] /\ redis \in Keys
    BY DEF Init, NoQueues, Queues, Keys
  <1>2. faults \in 0..MaxFaults /\ crashes \in 0..MaxCrashes
    BY DEF Init
  <1>. QED
    BY <1>1, <1>2 DEF Init, TypeOK, Queues, Keys

LEMMA StepType ==
  ASSUME TypeOK, Tidy, PlacedIsAccepted, [Next]_vars PROVE TypeOK'
  <1> USE DEF TypeOK, server, process, moving, slots, history, bounds
  <1>1. ASSUME NEW w \in Workers, NEW done, NEW answer, StartWorker(w, done, answer) PROVE TypeOK'
    BY <1>1, InitQueueType DEF StartWorker, Keys, Processes
  <1>2. ASSUME NEW done, NEW answer, StartApi(done, answer) PROVE TypeOK'
    BY <1>2, InitQueueType DEF StartApi, Keys, Processes
  <1>3. CASE StartAlone
    BY <1>3 DEF StartAlone, ToMemory, Processes
  <1>4. CASE StartScheduler
    BY <1>4 DEF StartScheduler
  <1>5. ASSUME NEW p \in Processes, Degrade(p) PROVE TypeOK'
    BY <1>5 DEF Degrade, ToMemory
  <1>6. ASSUME NEW p \in Processes, Crash(p) PROVE TypeOK'
    <2>1. Holds(p) \subseteq accepted
      BY DEF Holds, SlotsOf, PlacedIsAccepted
    <2>2. mem' \in [Processes -> Queues]
      BY <1>6 DEF Crash, NoQueues, Queues
    <2>3. stage' \in [Slots -> {"idle", "ack", "exec", "delay"}] /\ hand' \in [Slots -> Messages \cup {None}]
      BY <1>6 DEF Crash
    <2>4. crashes' \in 0..MaxCrashes /\ local' \in BOOLEAN
      BY <1>6 DEF Crash
    <2>. QED
      BY <1>6, <2>1, <2>2, <2>3, <2>4 DEF Crash, Queues
  <1>7. ASSUME NEW p \in Processes, Measure(p) PROVE TypeOK'
    BY <1>7 DEF Measure
  <1>8. ASSUME NEW p \in Processes, NEW r \in Runs, NEW done, NEW answer, Issue(p, r, done, answer) PROVE TypeOK'
    <2>1. First(r) \in Messages
      BY MessageType
    <2>. QED
      BY <1>8, <2>1, SendType DEF Issue, Keys, Queues
  <1>9. ASSUME NEW s \in Slots, ReadMemory(s) PROVE TypeOK'
    <2>1. PICK m \in mem[Home[s]].jobs : Take(s, m, "exec") /\ mem' = [mem EXCEPT ![Home[s]].jobs = @ \ {m}]
      BY <1>9 DEF ReadMemory, PopMemory
    <2>2. mem' \in [Processes -> Queues]
      BY <2>1, HomeType DEF Queues
    <2>3. stage' \in [Slots -> {"idle", "ack", "exec", "delay"}] /\ hand' \in [Slots -> Messages \cup {None}]
      BY <2>1, HomeType DEF Take
    <2>. QED
      BY <1>9, <2>2, <2>3 DEF ReadMemory, Queues
  <1>10. ASSUME NEW s \in Slots, NEW done, NEW answer, NEW m \in redis.stream, ReadStream(s, m, done, answer) PROVE TypeOK'
    <2>1. redis' \in Keys /\ faults' \in 0..MaxFaults
      BY <1>10, CommandType DEF ReadStream, Keys
    <2>2. harmed' \subseteq accepted'
      BY <1>10 DEF ReadStream, PlacedIsAccepted
    <2>3. CASE Take(s, m, "ack") /\ UNCHANGED <<mode, mem>>
      BY <1>10, <2>1, <2>2, <2>3 DEF ReadStream, Take, Keys
    <2>4. CASE NoAnswer(s, answer)
      BY <1>10, <2>1, <2>2, <2>4, NoAnswerType DEF ReadStream, Keys, Queues
    <2>. QED
      BY <1>10, <2>3, <2>4 DEF ReadStream
  <1>11. ASSUME NEW s \in Slots, NEW done, NEW answer, NEW m \in redis.list, ReadList(s, m, done, answer) PROVE TypeOK'
    <2>1. redis' \in Keys /\ faults' \in 0..MaxFaults
      BY <1>11, CommandType DEF ReadList, Keys
    <2>2. harmed' \subseteq accepted'
      BY <1>11 DEF ReadList, PlacedIsAccepted
    <2>3. CASE Take(s, m, "exec") /\ UNCHANGED <<mode, mem>>
      BY <1>11, <2>1, <2>2, <2>3 DEF ReadList, Take, Keys
    <2>4. CASE NoAnswer(s, answer)
      BY <1>11, <2>1, <2>2, <2>4, NoAnswerType DEF ReadList, Keys, Queues
    <2>. QED
      BY <1>11, <2>3, <2>4 DEF ReadList
  <1>12. ASSUME NEW s \in Slots, NEW done, NEW answer, Acknowledge(s, done, answer) PROVE TypeOK'
    <2>1. redis' \in Keys /\ faults' \in 0..MaxFaults
      BY <1>12, CommandType DEF Acknowledge, Keys
    <2>2. hand[s] \in accepted /\ hand[s] \in Messages
      BY <1>12, HandType DEF Acknowledge, PlacedIsAccepted, Tidy
    <2>3. harmed' \subseteq accepted'
      BY <1>12, <2>2 DEF Acknowledge
    <2>4. CASE Take(s, hand[s], "exec") /\ UNCHANGED <<mode, mem>>
      BY <1>12, <2>1, <2>2, <2>3, <2>4 DEF Acknowledge, Take, Keys
    <2>5. CASE NoAnswer(s, answer)
      BY <1>12, <2>1, <2>3, <2>5, NoAnswerType DEF Acknowledge, Keys, Queues
    <2>. QED
      BY <1>12, <2>4, <2>5 DEF Acknowledge
  <1>13. ASSUME NEW s \in Slots, NEW fails, Execute(s, fails) PROVE TypeOK'
    <2>1. hand[s] \in Messages
      BY <1>13, HandType DEF Execute
    <2>2. executions' \in [Messages -> Nat]
      BY <1>13, <2>1 DEF Execute
    <2>3. CASE fails /\ MayRetry(hand[s])
      BY <1>13, <2>1, <2>2, <2>3, MessageType DEF Execute, Take
    <2>4. CASE ~(fails /\ MayRetry(hand[s]))
      BY <1>13, <2>2, <2>4 DEF Execute, Release, Take
    <2>. QED
      BY <2>3, <2>4
  <1>14. ASSUME NEW s \in Slots, NEW done, NEW answer, Delay(s, done, answer) PROVE TypeOK'
    <2>1. hand[s] \in Messages
      BY <1>14, HandType DEF Delay
    <2>2. mem' = mem \/ mem' = [mem EXCEPT ![Home[s]].delayed = @ \cup {hand[s]}]
      BY <1>14 DEF Delay
    <2>3. mem' \in [Processes -> Queues]
      BY <2>1, <2>2, HomeType DEF Queues
    <2>4. redis' \in Keys /\ faults' \in 0..MaxFaults
      BY <1>14, <2>1, CommandType, SMTT(30) DEF Delay, Keys
    <2>5. mode' \in [Processes -> {"down", "streams", "list", "memory"}]
      BY <1>14 DEF Delay, ToMemory
    <2>. QED
      BY <1>14, <2>3, <2>4, <2>5 DEF Delay, Release, Take, Queues, Keys
  <1>15. ASSUME NEW p \in Processes, NEW ms \in SUBSET mem[p].delayed, FetchMemory(p, ms) PROVE TypeOK'
    <2>1. mem' \in [Processes -> Queues] /\ due' \in [Processes -> SUBSET Messages]
      BY <1>15 DEF FetchMemory, DueInMemory, Queues
    <2>. QED
      BY <1>15, <2>1 DEF FetchMemory, Queues
  <1>16. ASSUME NEW p \in Processes, NEW ms \in SUBSET redis.delayed, FetchDue(p, ms) PROVE TypeOK'
    BY <1>16 DEF FetchDue
  <1>17. ASSUME NEW p \in Processes, NEW done, NEW answer, NEW ms \in SUBSET mem[p].delayed,
                RemoveDue(p, ms, done, answer)
         PROVE  TypeOK'
    <2>1. redis' \in Keys /\ faults' \in 0..MaxFaults
      BY <1>17, CommandType DEF RemoveDue, Keys
    <2>2. harmed' \subseteq accepted'
      BY <1>17 DEF RemoveDue, PlacedIsAccepted
    <2>3. mode' \in [Processes -> {"down", "streams", "list", "memory"}]
      BY <1>17 DEF RemoveDue, RemoveFailed, ToMemory
    <2>4. due' \in [Processes -> SUBSET Messages] /\ fetched' \in [Processes -> SUBSET Messages]
      BY <1>17 DEF RemoveDue, RemoveFailed, DueInMemory
    <2>5. mem' = mem \/ mem' = [mem EXCEPT ![p].delayed = @ \ ms]
      BY <1>17 DEF RemoveDue, RemoveFailed, DueInMemory
    <2>6. mem' \in [Processes -> Queues]
      BY <2>5 DEF Queues
    <2>. QED
      BY <1>17, <2>1, <2>2, <2>3, <2>4, <2>6 DEF RemoveDue, Keys, Queues
  <1>18. ASSUME NEW p \in Processes, NEW done, NEW answer, NEW m \in due[p], EnqueueDue(p, m, done, answer) PROVE TypeOK'
    <2>1. m \in Messages /\ m \in accepted
      BY DEF PlacedIsAccepted
    <2>. QED
      BY <1>18, <2>1, SendType DEF EnqueueDue, Keys, Queues
  <1>19. CASE UNCHANGED vars
    BY <1>19 DEF vars
  <1>. HIDE DEF TypeOK, server, process, moving, slots, history, bounds
  <1>. QED
    BY NextCases, <1>1, <1>2, <1>3, <1>4, <1>5, <1>6, <1>7, <1>8, <1>9, <1>10, <1>11, <1>12, <1>13,
       <1>14, <1>15, <1>16, <1>17, <1>18, <1>19

(***************************************************************************)
(* One queue                                                               *)
(***************************************************************************)

\* An answer of the server about its queue leaves the process in a mode that
\* fits the server, and what it keeps is kept in the queue the server has.
LEMMA NoAnswerModes ==
  ASSUME TypeOK, ModesAgree, NEW s \in Slots, NEW answer, NoAnswer(s, answer)
  PROVE  mode' = mode \/ mode' = [mode EXCEPT ![Home[s]] = "memory"]
  BY DEF NoAnswer, ToMemory

LEMMA ModesStep ==
  ASSUME TypeOK, ModesAgree, [Next]_vars PROVE ModesAgree'
  <1> USE DEF TypeOK, ModesAgree, server, process, Processes
  <1>1. ASSUME NEW p \in {Api} \cup Workers, NEW done \in BOOLEAN, NEW answer, InitQueue(p, done, answer),
               UNCHANGED modern
        PROVE  ModesAgree'
    <2>1. answer = "ok" => done
      BY <1>1 DEF InitQueue, Command
    <2>2. redis'.list = redis.list
      BY <1>1 DEF InitQueue, WithGroup
    <2>3. CASE modern
      BY <1>1, <2>1, <2>2, <2>3 DEF InitQueue, InitMode
    <2>4. CASE ~modern
      BY <1>1, <2>4 DEF InitQueue
    <2>. QED
      BY <2>3, <2>4
  <1>2. ASSUME NEW w \in Workers, NEW done \in BOOLEAN, NEW answer, StartWorker(w, done, answer) PROVE ModesAgree'
    BY <1>1, <1>2 DEF StartWorker
  <1>3. ASSUME NEW done \in BOOLEAN, NEW answer, StartApi(done, answer) PROVE ModesAgree'
    BY <1>1, <1>3 DEF StartApi
  <1>4. CASE StartAlone \/ StartScheduler \/ \E p \in Processes : Degrade(p) \/ Crash(p) \/ Measure(p)
    BY <1>4 DEF StartAlone, StartScheduler, Degrade, Crash, Measure, ToMemory
  <1>5. ASSUME NEW p \in Processes, NEW m, NEW done, NEW answer, Send(p, m, done, answer), UNCHANGED <<modern, group>>
        PROVE  ModesAgree'
    <2>1. CASE UNCHANGED <<redis, mode>>
      BY <1>5, <2>1
    <2>2. CASE /\ OnRedis(p)
               /\ redis' = redis \/ redis' = [redis EXCEPT ![Uses(p)] = @ \cup {m}]
               /\ mode' = [mode EXCEPT ![p] = Answered(p)] \/ ToMemory(p)
      <3>1. modern => Uses(p) = "stream" /\ Answered(p) = mode[p]
        BY <2>2 DEF Uses, OnRedis, Answered
      <3>2. ~modern => Uses(p) = "list"
        BY DEF Uses
      <3>3. CASE modern
        BY <1>5, <2>2, <3>1, <3>3 DEF ToMemory
      <3>4. CASE ~modern
        BY <1>5, <2>2, <3>2, <3>4
      <3>. QED
        BY <3>3, <3>4
    <2>. QED
      BY <1>5, <2>1, <2>2 DEF Send
  <1>6. ASSUME NEW p \in Processes, NEW r \in Runs, NEW done, NEW answer, Issue(p, r, done, answer) PROVE ModesAgree'
    BY <1>5, <1>6 DEF Issue
  <1>7. ASSUME NEW p \in Processes, NEW done, NEW answer, NEW m \in due[p], EnqueueDue(p, m, done, answer)
        PROVE  ModesAgree'
    BY <1>5, <1>7 DEF EnqueueDue
  <1>8. ASSUME NEW s \in Slots, NEW done, NEW answer, NEW m, ReadStream(s, m, done, answer) PROVE ModesAgree'
    <2>1. redis'.list = redis.list /\ redis'.missed = redis.missed /\ redis'.stream \subseteq redis.stream
      BY <1>8 DEF ReadStream
    <2>2. mode' = mode \/ mode' = [mode EXCEPT ![Home[s]] = "memory"]
      BY <1>8, NoAnswerModes DEF ReadStream
    <2>. QED
      BY <1>8, <2>1, <2>2 DEF ReadStream
  <1>9. ASSUME NEW s \in Slots, NEW done, NEW answer, NEW m, ReadList(s, m, done, answer) PROVE ModesAgree'
    <2>1. redis'.list \subseteq redis.list /\ redis'.missed = redis.missed /\ redis'.stream = redis.stream
      BY <1>9 DEF ReadList
    <2>2. mode' = mode \/ mode' = [mode EXCEPT ![Home[s]] = "memory"]
      BY <1>9, NoAnswerModes DEF ReadList
    <2>. QED
      BY <1>9, <2>1, <2>2 DEF ReadList
  <1>10. ASSUME NEW s \in Slots, NEW done, NEW answer, Acknowledge(s, done, answer) PROVE ModesAgree'
    <2>1. redis'.list = redis.list /\ redis'.missed = redis.missed /\ redis'.stream = redis.stream
      BY <1>10 DEF Acknowledge
    <2>2. mode' = mode \/ mode' = [mode EXCEPT ![Home[s]] = "memory"]
      BY <1>10, NoAnswerModes DEF Acknowledge
    <2>. QED
      BY <1>10, <2>1, <2>2 DEF Acknowledge
  <1>11. ASSUME NEW s \in Slots, NEW done, NEW answer, Delay(s, done, answer) PROVE ModesAgree'
    <2>1. redis'.list = redis.list /\ redis'.missed = redis.missed /\ redis'.stream = redis.stream
      BY <1>11 DEF Delay
    <2>2. mode' = mode \/ mode' = [mode EXCEPT ![Home[s]] = "memory"]
      BY <1>11 DEF Delay, ToMemory
    <2>. QED
      BY <1>11, <2>1, <2>2 DEF Delay
  <1>12. ASSUME NEW p \in Processes, NEW done, NEW answer, NEW ms, RemoveDue(p, ms, done, answer) PROVE ModesAgree'
    <2>1. redis'.list = redis.list /\ redis'.missed = redis.missed /\ redis'.stream = redis.stream
      BY <1>12 DEF RemoveDue
    <2>2. mode' = mode \/ mode' = [mode EXCEPT ![p] = "memory"]
      BY <1>12 DEF RemoveDue, RemoveFailed, ToMemory
    <2>. QED
      BY <1>12, <2>1, <2>2 DEF RemoveDue
  <1>13. CASE \E s \in Slots : ReadMemory(s) \/ \E fails \in BOOLEAN : Execute(s, fails)
    BY <1>13 DEF ReadMemory, Execute
  <1>14. CASE \E p \in Processes : \/ \E ms \in SUBSET mem[p].delayed : FetchMemory(p, ms)
                                   \/ \E ms \in SUBSET redis.delayed : FetchDue(p, ms)
    BY <1>14 DEF FetchMemory, FetchDue
  <1>15. CASE UNCHANGED vars
    BY <1>15 DEF vars
  <1>. HIDE DEF TypeOK, ModesAgree, server, process, Processes
  <1>. QED
    BY NextCases, <1>2, <1>3, <1>4, <1>6, <1>7, <1>8, <1>9, <1>10, <1>11, <1>12, <1>13, <1>14, <1>15

(***************************************************************************)
(* What cannot be where                                                    *)
(***************************************************************************)

\* A slot that works from the server has no memory to fall back to.
LEMMA NoAnswerReleases ==
  ASSUME TypeOK, Tidy, NEW s \in Slots, Home[s] # Api, NEW answer, NoAnswer(s, answer)
  PROVE  Release(s) /\ UNCHANGED mem /\ (mode' = mode \/ mode' = [mode EXCEPT ![Home[s]] = "memory"])
  <1>1. Home[s] \in Workers
    OBVIOUS
  <1>. QED
    BY <1>1 DEF NoAnswer, ToMemory, PopMemory, Tidy

LEMMA ServerReaderIsWorker ==
  ASSUME TypeOK, Tidy, NEW s \in Slots, Serves(s), OnRedis(Home[s]) PROVE Home[s] \in Workers
  BY DEF Tidy, Serves, OnRedis

\* What a message sent does: it is in the sender's memory or, if Redis was
\* asked, in the queue of the server if that was done, and in the sender's
\* memory if there was no answer.
LEMMA SendEffect ==
  ASSUME NEW p, NEW m, NEW done \in BOOLEAN, NEW answer, Send(p, m, done, answer)
  PROVE  \/ /\ InMemory(p) /\ mem' = [mem EXCEPT ![p].jobs = @ \cup {m}] /\ UNCHANGED <<redis, mode, early>>
         \/ /\ OnRedis(p) /\ (done \/ answer # "ok")
            /\ redis' = IF done THEN [redis EXCEPT ![Uses(p)] = @ \cup {m}] ELSE redis
            /\ early' = IF done /\ ~group /\ Uses(p) = "stream" THEN early \cup {m} ELSE early
            /\ \/ mode' = [mode EXCEPT ![p] = Answered(p)] /\ mem' = mem /\ answer = "ok"
               \/ ToMemory(p) /\ mem' = [mem EXCEPT ![p].jobs = @ \cup {m}] /\ answer # "ok"
  BY DEF Send, Command

LEMMA SendModes ==
  ASSUME NEW p, NEW m, NEW done \in BOOLEAN, NEW answer, Send(p, m, done, answer)
  PROVE  mode' = mode \/ (OnRedis(p) /\ (mode' = [mode EXCEPT ![p] = Answered(p)] \/ ToMemory(p)))
  BY SendEffect, ZenonT(30)

LEMMA TidyInit == Init => Tidy
  <1> SUFFICES ASSUME Init PROVE Tidy
    OBVIOUS
  <1>1. \A p \in Processes : mem[p] = NoQueues /\ fetched[p] = {} /\ due[p] = {}
    BY DEF Init
  <1>2. NoQueues.jobs = {} /\ NoQueues.delayed = {}
    BY DEF NoQueues
  <1>3. \A s \in Slots : stage[s] = "idle" /\ hand[s] = None
    BY DEF Init
  <1>. QED
    BY <1>1, <1>2, <1>3 DEF Init, Tidy, Processes

LEMMA TidyStep ==
  ASSUME TypeOK, Tidy, TypeOK', [Next]_vars PROVE Tidy'
  <1> USE DEF TypeOK, Tidy, server, process, moving, slots, history, bounds, Processes
  <1>1. ASSUME NEW p \in {Api} \cup Workers, NEW done, NEW answer, InitQueue(p, done, answer), mode[p] = "down",
               UNCHANGED <<local, mem, moving, slots>>
        PROVE  Tidy'
    <2>1. redis'.delayed = redis.delayed
      <3>1. WithGroup.delayed = redis.delayed
        BY DEF WithGroup
      <3>. QED
        BY <1>1, <3>1 DEF InitQueue
    <2>2. \A q \in Processes : mode'[q] = "down" => mode[q] = "down"
      BY <1>1 DEF InitQueue, InitMode
    <2>3. p = Api => ~local
      BY <1>1
    <2>4. local => mode'[Api] = "memory"
      BY <1>1, <2>3 DEF InitQueue
    <2>. QED
      BY <1>1, <2>1, <2>2, <2>4
  <1>2. ASSUME NEW w \in Workers, NEW done, NEW answer, StartWorker(w, done, answer) PROVE Tidy'
    BY <1>1, <1>2 DEF StartWorker
  <1>3. ASSUME NEW done, NEW answer, StartApi(done, answer) PROVE Tidy'
    BY <1>1, <1>3 DEF StartApi
  <1>4. CASE StartAlone \/ StartScheduler \/ \E p \in Processes : Degrade(p) \/ Measure(p)
    <2>1. \A q \in Processes : mode'[q] = "down" => mode[q] = "down"
      BY <1>4 DEF StartAlone, StartScheduler, Degrade, Measure, ToMemory
    <2>2. local' => mode'[Api] = "memory"
      <3>1. CASE StartAlone
        BY <3>1 DEF StartAlone, ToMemory
      <3>2. CASE StartScheduler
        BY <3>2 DEF StartScheduler
      <3>3. ASSUME NEW p \in Processes, Degrade(p) PROVE local' => mode'[Api] = "memory"
        BY <3>3 DEF Degrade, ToMemory
      <3>4. ASSUME NEW p \in Processes, Measure(p) PROVE local' => mode'[Api] = "memory"
        BY <3>4 DEF Measure
      <3>. QED
        BY <1>4, <3>1, <3>2, <3>3, <3>4
    <2>3. UNCHANGED <<redis, mem, fetched, due, stage, hand>> /\ (local => local')
      BY <1>4 DEF StartAlone, StartScheduler, Degrade, Measure
    <2>. QED
      BY <2>1, <2>2, <2>3
  <1>5. ASSUME NEW p \in Processes, Crash(p) PROVE Tidy'
    <2>1. local' => local /\ p # Api /\ mode'[Api] = "memory"
      BY <1>5 DEF Crash
    <2>2. \A q \in Processes : mode'[q] = "down" => mem'[q] = NoQueues
      BY <1>5 DEF Crash
    <2>3. \A s \in Slots : stage'[s] = "idle" <=> hand'[s] = None
      BY <1>5 DEF Crash
    <2>4. \A s \in Slots : Home[s] = Api => stage'[s] # "ack" /\ (stage'[s] # "idle" => local')
      BY <1>5 DEF Crash
    <2>5. \A w \in Workers : mem'[w].jobs = {} /\ fetched'[w] = {} /\ due'[w] = {}
      BY <1>5 DEF Crash, NoQueues
    <2>6. mem'[Scheduler].delayed = {} /\ fetched'[Api] = {} /\ (due'[Api] # {} => local')
      BY <1>5 DEF Crash, NoQueues
    <2>7. fetched'[Scheduler] \subseteq redis'.delayed /\ (fetched'[Scheduler] # {} => due'[Scheduler] = {})
      BY <1>5 DEF Crash
    <2>. QED
      BY <2>1, <2>2, <2>3, <2>4, <2>5, <2>6, <2>7
  <1>6. ASSUME NEW p \in {Api, Scheduler}, NEW m, NEW done \in BOOLEAN, NEW answer, Send(p, m, done, answer),
               UNCHANGED <<local, slots, fetched>>, \A q \in Processes : due'[q] \subseteq due[q]
        PROVE  Tidy'
    <2>1. redis'.delayed = redis.delayed
      BY <1>6 DEF Send, Uses
    <2>2. local => mode'[Api] = "memory"
      <3>1. mode' = mode \/ (OnRedis(p) /\ (mode' = [mode EXCEPT ![p] = Answered(p)] \/ ToMemory(p)))
        BY <1>6, SendModes
      <3>2. ASSUME local, p = Api PROVE mode' = mode
        BY <3>1, <3>2 DEF OnRedis
      <3>3. CASE p = Api
        BY <3>2, <3>3
      <3>4. CASE p # Api
        BY <3>1, <3>4 DEF ToMemory
      <3>. QED
        BY <3>3, <3>4
    <2>3. \A q \in Processes : q # p => mem'[q] = mem[q] /\ mode'[q] = mode[q]
      BY <1>6 DEF Send, ToMemory
    <2>4. mem'[p].delayed = mem[p].delayed /\ mode'[p] # "down"
      BY <1>6 DEF Send, ToMemory, InMemory, OnRedis, Answered
    <2>. QED
      BY <1>6, <2>1, <2>2, <2>3, <2>4
  <1>7. ASSUME NEW p \in Processes, NEW r \in Runs, NEW done \in BOOLEAN, NEW answer, Issue(p, r, done, answer) PROVE Tidy'
    <2>1. /\ p \in {Api, Scheduler} /\ Send(p, First(r), done, answer)
          /\ UNCHANGED <<local, slots, fetched>> /\ \A q \in Processes : due'[q] \subseteq due[q]
      BY <1>7 DEF Issue
    <2> HIDE DEF Tidy, TypeOK
    <2>. QED
      BY <1>6, <2>1
  <1>8. ASSUME NEW p \in Processes, NEW done \in BOOLEAN, NEW answer, NEW m \in due[p], EnqueueDue(p, m, done, answer)
        PROVE  Tidy'
    <2>1. p \in {Api, Scheduler}
      OBVIOUS
    <2>2. \A q \in Processes : due'[q] \subseteq due[q]
      BY <1>8 DEF EnqueueDue
    <2>3. Send(p, m, done, answer) /\ UNCHANGED <<local, slots, fetched>>
      BY <1>8 DEF EnqueueDue
    <2> HIDE DEF Tidy, TypeOK
    <2>. QED
      BY <1>6, <2>1, <2>2, <2>3
  <1>9. ASSUME NEW s \in Slots, ReadMemory(s) PROVE Tidy'
    <2>1. PICK m \in mem[Home[s]].jobs : Take(s, m, "exec") /\ mem' = [mem EXCEPT ![Home[s]].jobs = @ \ {m}]
      BY <1>9 DEF ReadMemory, PopMemory
    <2>2. Home[s] = Api
      BY <2>1
    <2>3. m # None /\ local /\ mode[Api] # "down"
      BY <1>9, <2>1, <2>2 DEF ReadMemory, Serves
    <2>4. mem'[Api].delayed = mem[Api].delayed /\ \A q \in Processes : q # Api => mem'[q] = mem[q]
      BY <2>1, <2>2
    <2>. QED
      BY <1>9, <2>1, <2>2, <2>3, <2>4 DEF ReadMemory, Take
  <1>10. ASSUME NEW s \in Slots, NEW m \in Messages, NEW st \in {"ack", "exec"}, Home[s] \in Workers,
                Take(s, m, st) \/ Release(s), UNCHANGED <<local, mem, moving>>, redis'.delayed = redis.delayed,
                mode' = mode \/ mode' = [mode EXCEPT ![Home[s]] = "memory"]
         PROVE  Tidy'
    <2>1. \A t \in Slots : stage'[t] = "idle" <=> hand'[t] = None
      BY <1>10 DEF Take, Release
    <2>2. \A t \in Slots : Home[t] = Api => stage'[t] = stage[t]
      BY <1>10 DEF Take, Release
    <2>. QED
      BY <1>10, <2>1, <2>2
  <1>11. ASSUME NEW s \in Slots, NEW done, NEW answer, NEW m \in redis.stream, ReadStream(s, m, done, answer) PROVE Tidy'
    <2>1. Home[s] \in Workers
      BY <1>11, ServerReaderIsWorker DEF ReadStream
    <2>2. redis'.delayed = redis.delayed
      BY <1>11 DEF ReadStream
    <2>. QED
      BY <1>10, <1>11, <2>1, <2>2, NoAnswerReleases DEF ReadStream
  <1>12. ASSUME NEW s \in Slots, NEW done, NEW answer, NEW m \in redis.list, ReadList(s, m, done, answer) PROVE Tidy'
    <2>1. Home[s] \in Workers
      BY <1>12, ServerReaderIsWorker DEF ReadList
    <2>2. redis'.delayed = redis.delayed
      BY <1>12 DEF ReadList
    <2>. QED
      BY <1>10, <1>12, <2>1, <2>2, NoAnswerReleases DEF ReadList
  <1>13. ASSUME NEW s \in Slots, NEW done, NEW answer, Acknowledge(s, done, answer) PROVE Tidy'
    <2>1. Home[s] \in Workers /\ hand[s] \in Messages
      BY <1>13 DEF Acknowledge
    <2>2. redis'.delayed = redis.delayed
      BY <1>13 DEF Acknowledge
    <2>. QED
      BY <1>10, <1>13, <2>1, <2>2, NoAnswerReleases DEF Acknowledge
  <1>14. ASSUME NEW s \in Slots, NEW fails, Execute(s, fails) PROVE Tidy'
    <2>1. hand[s] \in Messages
      BY <1>14 DEF Execute
    <2>2. (Take(s, Following(hand[s]), "delay") /\ Following(hand[s]) # None) \/ Release(s)
      BY <1>14, <2>1, MessageType DEF Execute
    <2>. QED
      BY <1>14, <2>2 DEF Execute, Take, Release
  <1>15. ASSUME NEW s \in Slots, NEW done, NEW answer, Delay(s, done, answer) PROVE Tidy'
    <2>1. redis.delayed \subseteq redis'.delayed
      BY <1>15 DEF Delay
    <2>2. \A q \in Processes : mem'[q].jobs = mem[q].jobs /\ (q # Home[s] => mem'[q] = mem[q] /\ mode'[q] = mode[q])
      BY <1>15, HomeType DEF Delay, ToMemory
    <2>3. mode'[Home[s]] # "down" /\ (Home[s] = Api => mode'[Api] = "memory")
      BY <1>15, HomeType DEF Delay, ToMemory, InMemory, OnRedis
    <2>4. Scheduler # Home[s]
      BY HomeType
    <2>5. \A t \in Slots : stage'[t] = "idle" <=> hand'[t] = None
      BY <1>15 DEF Delay, Take, Release
    <2>6. \A t \in Slots : Home[t] = Api => stage'[t] # "ack" /\ (stage'[t] # "idle" => stage[t] # "idle")
      BY <1>15 DEF Delay, Take, Release
    <2>7. UNCHANGED <<local, fetched, due>>
      BY <1>15 DEF Delay
    <2>. QED
      BY <2>1, <2>2, <2>3, <2>4, <2>5, <2>6, <2>7
  <1>16. ASSUME NEW p \in Processes, NEW ms \in SUBSET mem[p].delayed, FetchMemory(p, ms) PROVE Tidy'
    <2>1. p = Api /\ local
      BY <1>16 DEF FetchMemory, Schedules
    <2>2. \A q \in Processes : mem'[q].jobs = mem[q].jobs /\ (q # Api => mem'[q] = mem[q])
      BY <1>16, <2>1 DEF FetchMemory, DueInMemory
    <2>. QED
      BY <1>16, <2>1, <2>2 DEF FetchMemory, DueInMemory
  <1>17. ASSUME NEW p \in Processes, NEW ms \in SUBSET redis.delayed, FetchDue(p, ms) PROVE Tidy'
    <2>1. p = Scheduler
      BY <1>17 DEF FetchDue, Schedules, OnRedis
    <2>. QED
      BY <1>17, <2>1 DEF FetchDue, Waiting
  <1>18. ASSUME NEW p \in Processes, NEW done, NEW answer, NEW ms \in SUBSET mem[p].delayed, RemoveDue(p, ms, done, answer)
         PROVE  Tidy'
    <2>1. p = Scheduler /\ ms = {}
      BY <1>18 DEF RemoveDue
    <2>2. \A q \in Processes : mem'[q].jobs = mem[q].jobs /\ mem'[q].delayed = mem[q].delayed
      BY <1>18, <2>1 DEF RemoveDue, RemoveFailed, DueInMemory
    <2>3. \A q \in Processes : mode'[q] = "down" => mode[q] = "down" /\ mem'[q] = mem[q]
      BY <1>18, <2>1 DEF RemoveDue, RemoveFailed, DueInMemory, ToMemory
    <2>4. mode'[Api] = mode[Api]
      BY <1>18, <2>1 DEF RemoveDue, RemoveFailed, ToMemory
    <2>5. \A q \in Processes : q # Scheduler => due'[q] = due[q] /\ fetched'[q] = fetched[q]
      BY <1>18, <2>1 DEF RemoveDue, RemoveFailed, DueInMemory
    <2>6. fetched'[Scheduler] = {}
      BY <1>18, <2>1 DEF RemoveDue
    <2>. QED
      BY <1>18, <2>2, <2>3, <2>4, <2>5, <2>6 DEF RemoveDue
  <1>19. CASE UNCHANGED vars
    BY <1>19 DEF vars
  <1>. HIDE DEF TypeOK, Tidy, server, process, moving, slots, history, bounds, Processes
  <1>. QED
    BY NextCases, <1>2, <1>3, <1>4, <1>5, <1>7, <1>8, <1>9, <1>11, <1>12, <1>13, <1>14, <1>15, <1>16, <1>17, <1>18, <1>19

(***************************************************************************)
(* Whatever is anywhere was accepted                                       *)
(***************************************************************************)

\* A message that goes on is one that was accepted, and everything else stays
\* where it was or is taken away.
LEMMA SendPlaces ==
  ASSUME TypeOK, PlacedIsAccepted, NEW p \in Processes, NEW m, NEW done \in BOOLEAN, NEW answer,
         Send(p, m, done, answer), m \in accepted', accepted \subseteq accepted'
  PROVE  /\ redis'.stream \cup redis'.list \cup redis'.pel \cup redis'.delayed \subseteq accepted'
         /\ \A q \in Processes : mem'[q].jobs \cup mem'[q].delayed \subseteq accepted'
  <1>1. mem' = mem \/ mem' = [mem EXCEPT ![p].jobs = @ \cup {m}]
    BY SendEffect, ZenonT(30)
  <1>2. redis' = redis \/ redis' = [redis EXCEPT ![Uses(p)] = @ \cup {m}]
    BY SendEffect, ZenonT(30)
  <1>3. Uses(p) = "stream" \/ Uses(p) = "list"
    BY DEF Uses
  <1> USE DEF TypeOK, PlacedIsAccepted
  <1>4. redis'.stream \cup redis'.list \cup redis'.pel \cup redis'.delayed \subseteq accepted'
    <2>1. CASE redis' = redis
      BY <2>1
    <2>2. CASE redis' = [redis EXCEPT !["stream"] = @ \cup {m}]
      BY <2>2
    <2>3. CASE redis' = [redis EXCEPT !["list"] = @ \cup {m}]
      BY <2>3
    <2>. QED
      BY <1>2, <1>3, <2>1, <2>2, <2>3
  <1>5. \A q \in Processes : mem'[q].jobs \cup mem'[q].delayed \subseteq accepted'
    <2>1. CASE mem' = mem
      BY <2>1
    <2>2. CASE mem' = [mem EXCEPT ![p].jobs = @ \cup {m}]
      <3>1. \A q \in Processes : mem'[q].jobs \subseteq mem[q].jobs \cup {m} /\ mem'[q].delayed = mem[q].delayed
        BY <2>2
      <3>. QED
        BY <3>1
    <2>. QED
      BY <1>1, <2>1, <2>2
  <1>. QED
    BY <1>4, <1>5

LEMMA NoAnswerPlaces ==
  ASSUME TypeOK, Tidy, PlacedIsAccepted, NEW s \in Slots, Home[s] # Api, NEW answer, NoAnswer(s, answer)
  PROVE  UNCHANGED mem /\ \A t \in Slots : hand'[t] # None => hand'[t] \in accepted
  BY NoAnswerReleases DEF PlacedIsAccepted, Release, Take, TypeOK

LEMMA PlacedStep ==
  ASSUME TypeOK, Tidy, PlacedIsAccepted, [Next]_vars PROVE PlacedIsAccepted'
  <1> USE DEF TypeOK, PlacedIsAccepted, server, process, moving, slots, history, bounds
  <1>1. ASSUME NEW p \in Processes, NEW done, NEW answer, InitQueue(p, done, answer), UNCHANGED <<mem, moving, slots, history>>
        PROVE  PlacedIsAccepted'
    <2>1. WithGroup.stream \cup WithGroup.list \cup WithGroup.pel \cup WithGroup.delayed
            \subseteq redis.stream \cup redis.list \cup redis.pel \cup redis.delayed
      BY DEF WithGroup
    <2>2. redis' = redis \/ redis' = WithGroup
      BY <1>1 DEF InitQueue
    <2>. QED
      BY <1>1, <2>1, <2>2
  <1>2. ASSUME NEW w \in Workers, NEW done, NEW answer, StartWorker(w, done, answer) PROVE PlacedIsAccepted'
    BY <1>1, <1>2 DEF StartWorker, Processes
  <1>3. ASSUME NEW done, NEW answer, StartApi(done, answer) PROVE PlacedIsAccepted'
    BY <1>1, <1>3 DEF StartApi, Processes
  <1>4. CASE StartAlone \/ StartScheduler \/ \E p \in Processes : Degrade(p) \/ Measure(p)
    BY <1>4 DEF StartAlone, StartScheduler, Degrade, Measure
  <1>5. ASSUME NEW p \in Processes, Crash(p) PROVE PlacedIsAccepted'
    <2>1. \A q \in Processes : mem'[q].jobs \cup mem'[q].delayed \cup fetched'[q] \cup due'[q] \subseteq accepted
      BY <1>5 DEF Crash, NoQueues
    <2>2. \A s \in Slots : hand'[s] # None => hand'[s] \in accepted
      BY <1>5 DEF Crash
    <2>. QED
      BY <1>5, <2>1, <2>2 DEF Crash
  <1>6. ASSUME NEW p \in Processes, NEW r \in Runs, NEW done \in BOOLEAN, NEW answer, Issue(p, r, done, answer)
        PROVE  PlacedIsAccepted'
    <2>1. Send(p, First(r), done, answer) /\ accepted' = accepted \cup {First(r)} /\ UNCHANGED <<moving, slots>>
      BY <1>6 DEF Issue
    <2>2. /\ redis'.stream \cup redis'.list \cup redis'.pel \cup redis'.delayed \subseteq accepted'
          /\ \A q \in Processes : mem'[q].jobs \cup mem'[q].delayed \subseteq accepted'
      <3>1. First(r) \in accepted' /\ accepted \subseteq accepted'
        BY <2>1
      <3> HIDE DEF TypeOK, PlacedIsAccepted
      <3>. QED
        BY <2>1, <3>1, SendPlaces
    <2>. QED
      BY <2>1, <2>2
  <1>7. ASSUME NEW p \in Processes, NEW done \in BOOLEAN, NEW answer, NEW m \in due[p], EnqueueDue(p, m, done, answer)
        PROVE  PlacedIsAccepted'
    <2>1. /\ Send(p, m, done, answer) /\ m \in accepted /\ UNCHANGED <<accepted, fetched, slots>>
          /\ \A q \in Processes : due'[q] \subseteq due[q]
      BY <1>7 DEF EnqueueDue
    <2>. QED
      BY <2>1, SendPlaces
  <1>8. ASSUME NEW s \in Slots, ReadMemory(s) PROVE PlacedIsAccepted'
    <2>1. PICK m \in mem[Home[s]].jobs : Take(s, m, "exec") /\ mem' = [mem EXCEPT ![Home[s]].jobs = @ \ {m}]
      BY <1>8 DEF ReadMemory, PopMemory
    <2>2. \A q \in Processes : mem'[q].jobs \subseteq mem[q].jobs /\ mem'[q].delayed = mem[q].delayed
      BY <2>1, HomeType
    <2>3. m \in accepted
      BY HomeType
    <2>. QED
      BY <1>8, <2>1, <2>2, <2>3 DEF ReadMemory, Take
  <1>9. ASSUME NEW s \in Slots, NEW done, NEW answer, NEW m \in redis.stream, ReadStream(s, m, done, answer)
        PROVE  PlacedIsAccepted'
    <2>1. Home[s] # Api /\ m \in accepted
      BY <1>9, ServerReaderIsWorker DEF ReadStream
    <2>2. redis'.stream \cup redis'.list \cup redis'.pel \cup redis'.delayed \subseteq accepted
      BY <1>9, <2>1 DEF ReadStream
    <2>3. UNCHANGED mem /\ \A t \in Slots : hand'[t] # None => hand'[t] \in accepted
      BY <1>9, <2>1, NoAnswerPlaces DEF ReadStream, Take
    <2>. QED
      BY <1>9, <2>2, <2>3 DEF ReadStream
  <1>10. ASSUME NEW s \in Slots, NEW done, NEW answer, NEW m \in redis.list, ReadList(s, m, done, answer)
         PROVE  PlacedIsAccepted'
    <2>1. Home[s] # Api /\ m \in accepted
      BY <1>10, ServerReaderIsWorker DEF ReadList
    <2>2. redis'.stream \cup redis'.list \cup redis'.pel \cup redis'.delayed \subseteq accepted
      BY <1>10, <2>1 DEF ReadList
    <2>3. UNCHANGED mem /\ \A t \in Slots : hand'[t] # None => hand'[t] \in accepted
      BY <1>10, <2>1, NoAnswerPlaces DEF ReadList, Take
    <2>. QED
      BY <1>10, <2>2, <2>3 DEF ReadList
  <1>11. ASSUME NEW s \in Slots, NEW done, NEW answer, Acknowledge(s, done, answer) PROVE PlacedIsAccepted'
    <2>1. Home[s] # Api /\ hand[s] \in accepted
      BY <1>11 DEF Acknowledge, Tidy
    <2>2. redis'.stream \cup redis'.list \cup redis'.pel \cup redis'.delayed \subseteq accepted
      BY <1>11 DEF Acknowledge
    <2>3. UNCHANGED mem /\ \A t \in Slots : hand'[t] # None => hand'[t] \in accepted
      BY <1>11, <2>1, NoAnswerPlaces DEF Acknowledge, Take
    <2>. QED
      BY <1>11, <2>2, <2>3 DEF Acknowledge
  <1>12. ASSUME NEW s \in Slots, NEW fails, Execute(s, fails) PROVE PlacedIsAccepted'
    <2>1. accepted \subseteq accepted'
      BY <1>12 DEF Execute
    <2>2. \A t \in Slots : hand'[t] # None => hand'[t] \in accepted'
      BY <1>12, SMTT(30) DEF Execute, Take, Release
    <2>. QED
      BY <1>12, <2>1, <2>2 DEF Execute
  <1>13. ASSUME NEW s \in Slots, NEW done, NEW answer, Delay(s, done, answer) PROVE PlacedIsAccepted'
    <2>1. hand[s] \in accepted
      BY <1>13 DEF Delay, Tidy
    <2>2. mem' = mem \/ mem' = [mem EXCEPT ![Home[s]].delayed = @ \cup {hand[s]}]
      BY <1>13 DEF Delay
    <2>3. \A q \in Processes : mem'[q].jobs \cup mem'[q].delayed \subseteq accepted
      BY <2>1, <2>2, HomeType
    <2>4. redis'.stream \cup redis'.list \cup redis'.pel \cup redis'.delayed \subseteq accepted
      BY <1>13, <2>1 DEF Delay
    <2>. QED
      BY <1>13, <2>3, <2>4 DEF Delay, Release, Take
  <1>14. ASSUME NEW p \in Processes, NEW ms \in SUBSET mem[p].delayed, FetchMemory(p, ms) PROVE PlacedIsAccepted'
    BY <1>14 DEF FetchMemory, DueInMemory
  <1>15. ASSUME NEW p \in Processes, NEW ms \in SUBSET redis.delayed, FetchDue(p, ms) PROVE PlacedIsAccepted'
    BY <1>15 DEF FetchDue
  <1>16. ASSUME NEW p \in Processes, NEW done, NEW answer, NEW ms \in SUBSET mem[p].delayed, RemoveDue(p, ms, done, answer)
         PROVE  PlacedIsAccepted'
    <2>1. redis'.stream \cup redis'.list \cup redis'.pel \cup redis'.delayed \subseteq accepted
      BY <1>16 DEF RemoveDue
    <2>2. mem' = mem \/ mem' = [mem EXCEPT ![p].delayed = @ \ ms]
      BY <1>16 DEF RemoveDue, RemoveFailed, DueInMemory
    <2>3. \A q \in Processes : mem'[q].jobs \cup mem'[q].delayed \subseteq accepted
      BY <2>2
    <2>4. due' = [due EXCEPT ![p] = ms] \/ due' = [due EXCEPT ![p] = fetched[p]]
      BY <1>16 DEF RemoveDue, RemoveFailed, DueInMemory
    <2>5. fetched' = [fetched EXCEPT ![p] = {}] /\ UNCHANGED <<slots, accepted>>
      BY <1>16 DEF RemoveDue
    <2>. QED
      BY <2>1, <2>3, <2>4, <2>5
  <1>17. CASE UNCHANGED vars
    BY <1>17 DEF vars
  <1>. HIDE DEF TypeOK, PlacedIsAccepted, server, process, moving, slots, history, bounds
  <1>. QED
    BY NextCases, <1>2, <1>3, <1>4, <1>5, <1>6, <1>7, <1>8, <1>9, <1>10, <1>11, <1>12, <1>13, <1>14, <1>15, <1>16, <1>17

LEMMA EarlyStep ==
  ASSUME TypeOK, EarlyKnown, [Next]_vars PROVE EarlyKnown'
  <1> USE DEF TypeOK, EarlyKnown, server, process, moving, slots, history, bounds
  <1>1. ASSUME NEW p \in Processes, NEW done, NEW answer, InitQueue(p, done, answer), UNCHANGED early PROVE EarlyKnown'
    BY <1>1 DEF InitQueue
  <1>2. CASE \/ \E w \in Workers, done \in BOOLEAN, answer \in Results : StartWorker(w, done, answer)
             \/ \E done \in BOOLEAN, answer \in Results : StartApi(done, answer)
    BY <1>1, <1>2 DEF StartWorker, StartApi, Processes
  <1>3. ASSUME NEW p \in Processes, NEW m, NEW done \in BOOLEAN, NEW answer, Send(p, m, done, answer), UNCHANGED group
        PROVE  EarlyKnown'
    <2>1. CASE UNCHANGED <<redis, early>>
      BY <1>3, <2>1
    <2>2. CASE /\ redis' = IF done THEN [redis EXCEPT ![Uses(p)] = @ \cup {m}] ELSE redis
               /\ early' = IF done /\ ~group /\ Uses(p) = "stream" THEN early \cup {m} ELSE early
      <3>1. CASE ~done
        BY <1>3, <2>2, <3>1
      <3>2. CASE done /\ Uses(p) = "stream"
        BY <1>3, <2>2, <3>2
      <3>3. CASE done /\ Uses(p) = "list"
        BY <1>3, <2>2, <3>3
      <3>. QED
        BY <3>1, <3>2, <3>3 DEF Uses
    <2> HIDE DEF TypeOK, EarlyKnown
    <2>. QED
      BY <1>3, <2>1, <2>2 DEF Send
  <1>4. ASSUME NEW p \in Processes, NEW r, NEW m, NEW done \in BOOLEAN, NEW answer,
               Issue(p, r, done, answer) \/ EnqueueDue(p, m, done, answer)
        PROVE  EarlyKnown'
    <2>1. UNCHANGED group /\ (Send(p, First(r), done, answer) \/ Send(p, m, done, answer))
      BY <1>4 DEF Issue, EnqueueDue
    <2> HIDE DEF TypeOK, EarlyKnown
    <2>. QED
      BY <1>3, <2>1
  <1>5. ASSUME NEW s \in Slots, NEW done, NEW answer, NEW m,
               ReadStream(s, m, done, answer) \/ ReadList(s, m, done, answer) \/ Acknowledge(s, done, answer)
        PROVE  EarlyKnown'
    BY <1>5 DEF ReadStream, ReadList, Acknowledge
  <1>6. ASSUME NEW s, NEW p, NEW ms, NEW done \in BOOLEAN, NEW answer,
               Delay(s, done, answer) \/ RemoveDue(p, ms, done, answer)
        PROVE  EarlyKnown'
    <2>1. redis'.stream = redis.stream /\ UNCHANGED <<group, early>>
      BY <1>6 DEF Delay, RemoveDue
    <2>. QED
      BY <2>1
  <1>7. CASE \/ StartAlone \/ StartScheduler \/ \E p \in Processes : Degrade(p) \/ Crash(p) \/ Measure(p)
             \/ \E s \in Slots : ReadMemory(s) \/ \E fails \in BOOLEAN : Execute(s, fails)
             \/ \E p \in Processes : \E ms \in SUBSET mem[p].delayed : FetchMemory(p, ms)
             \/ \E p \in Processes : \E ms \in SUBSET redis.delayed : FetchDue(p, ms)
    BY <1>7 DEF StartAlone, StartScheduler, Degrade, Crash, Measure, ReadMemory, Execute, FetchMemory, FetchDue
  <1>8. CASE UNCHANGED vars
    BY <1>8 DEF vars
  <1>. HIDE DEF TypeOK, EarlyKnown, server, process, moving, slots, history, bounds
  <1>. QED
    BY NextCases, <1>2, <1>4, <1>5, <1>6, <1>7, <1>8

(***************************************************************************)
(* A message is in one place                                               *)
(***************************************************************************)

\* A step takes the message nowhere it was not.
Stays(m) ==
  /\ m \in redis'.stream => m \in redis.stream
  /\ m \in redis'.list => m \in redis.list
  /\ m \in redis'.delayed => m \in redis.delayed
  /\ local' /\ m \in mem'[Api].jobs => local /\ m \in mem[Api].jobs
  /\ local' /\ m \in mem'[Api].delayed => local /\ m \in mem[Api].delayed
  /\ \A p \in Processes : m \in due'[p] => m \in due[p]
  /\ \A s \in Slots : m = hand'[s] => m = hand[s]

\* A step that executes nothing and leaves each message where it was, or takes
\* one that is new or was somewhere to one place.
LEMMA Moving ==
  ASSUME TypeOK, OneLive, SpentIsGone, UNCHANGED executions, accepted \subseteq accepted',
         \A m \in Messages : \/ Stays(m)
                             \/ /\ m \notin accepted \/ ~Only(m, "nowhere", None)
                                /\ \E spot \in Spots, holder \in Holders : Only(m, spot, holder)'
  PROVE  OneLive' /\ SpentIsGone'
  <1>1. ASSUME NEW m, NEW spot, NEW holder, Stays(m), Only(m, spot, holder) PROVE Only(m, spot, holder)'
    BY <1>1 DEF Stays, Only
  <1>2. OneLive'
    BY <1>1 DEF OneLive
  <1>3. ASSUME NEW m \in Messages, executions'[m] # 0
        PROVE  executions'[m] = 1 /\ m \in accepted' /\ Only(m, "nowhere", None)'
    <2>1. executions[m] = 1 /\ m \in accepted /\ Only(m, "nowhere", None)
      BY <1>3 DEF SpentIsGone
    <2>2. Stays(m)
      BY <2>1
    <2>. QED
      BY <1>1, <2>1, <2>2
  <1>. QED
    BY <1>2, <1>3 DEF SpentIsGone

\* A message that has not been accepted is nowhere.
LEMMA NewIsNowhere ==
  ASSUME TypeOK, PlacedIsAccepted, NEW m \in Messages, m \notin accepted PROVE Only(m, "nowhere", None)
  BY DEF TypeOK, PlacedIsAccepted, Only, Processes

\* A message somebody sends, and that was nowhere else, is at one place.
LEMMA SendMoves ==
  ASSUME TypeOK, Tidy, NEW p \in {Api, Scheduler}, NEW m \in Messages, NEW done \in BOOLEAN, NEW answer,
         Send(p, m, done, answer), UNCHANGED <<local, hand>>,
         NEW spot, NEW holder, Only(m, spot, holder), spot \in {"nowhere", "batch"},
         \A q \in Processes : due'[q] \subseteq due[q] \ {m}
  PROVE  /\ \E place \in {"jobs", "stream", "list"} : Only(m, place, None)'
         /\ \A n \in Messages : n # m => Stays(n)
  <1>1. CASE InMemory(p) /\ mem' = [mem EXCEPT ![p].jobs = @ \cup {m}] /\ UNCHANGED <<redis, mode, early>>
    <2>1. Only(m, "jobs", None)'
      BY <1>1 DEF Only, TypeOK, Processes
    <2>2. \A n \in Messages : n # m => Stays(n)
      BY <1>1 DEF Stays, TypeOK, Processes
    <2>. QED
      BY <2>1, <2>2
  <1>2. CASE /\ OnRedis(p)
             /\ redis' = IF done THEN [redis EXCEPT ![Uses(p)] = @ \cup {m}] ELSE redis
             /\ mem' = mem \/ mem' = [mem EXCEPT ![p].jobs = @ \cup {m}]
    <2>1. local => mem'[Api] = mem[Api]
      <3>1. local => p # Api
        BY <1>2 DEF Tidy, OnRedis
      <3>. QED
        BY <1>2, <3>1 DEF TypeOK, Processes
    <2>2. PICK place \in {"stream", "list"} :
            redis' = redis \/ redis' = [redis EXCEPT ![place] = @ \cup {m}]
      BY <1>2 DEF Uses
    <2>3. Only(m, place, None)' /\ \A n \in Messages : n # m => Stays(n)
      <3>1. CASE redis' = redis
        BY <2>1, <3>1 DEF Only, Stays, TypeOK
      <3>2. CASE place = "stream" /\ redis' = [redis EXCEPT !["stream"] = @ \cup {m}]
        BY <2>1, <3>2 DEF Only, Stays, TypeOK
      <3>3. CASE place = "list" /\ redis' = [redis EXCEPT !["list"] = @ \cup {m}]
        BY <2>1, <3>3 DEF Only, Stays, TypeOK
      <3>. QED
        BY <2>2, <3>1, <3>2, <3>3
    <2>. QED
      BY <2>3
  <1>. QED
    BY <1>1, <1>2 DEF Send

\* The invariant speaks of the messages only through the operators above.
LEMMA LiveStep ==
  ASSUME TypeOK, Tidy, PlacedIsAccepted, OneLive, SpentIsGone, RetryFollows, [Next]_vars
  PROVE  OneLive' /\ SpentIsGone'
  <1> DEFINE
    Moves(m) == /\ m \notin accepted \/ ~Only(m, "nowhere", None)
                /\ \E spot \in Spots, holder \in Holders : Only(m, spot, holder)'
    Fine == (\A m \in Messages : Stays(m) \/ Moves(m)) /\ UNCHANGED executions /\ accepted \subseteq accepted'
    Goal == OneLive' /\ SpentIsGone'
  <1>0. ASSUME Fine PROVE Goal
    BY <1>0, Moving
  <1> HIDE DEF Goal
  <1> USE DEF server, process, moving, slots, history, bounds
  <1>1. ASSUME NEW p \in Processes, NEW done, NEW answer, InitQueue(p, done, answer), UNCHANGED <<local, mem, moving, slots, history>>
        PROVE  Goal
    <2>1. /\ redis'.stream \subseteq redis.stream /\ redis'.list = redis.list /\ redis'.delayed = redis.delayed
      <3>1. redis' = redis \/ redis' = WithGroup
        BY <1>1 DEF InitQueue
      <3>2. /\ WithGroup.stream \subseteq redis.stream /\ WithGroup.list = redis.list
            /\ WithGroup.delayed = redis.delayed
        BY DEF WithGroup, TypeOK
      <3>. QED
        BY <3>1, <3>2
    <2>2. Fine
      <3>1. \A m \in Messages : Stays(m)
        BY <1>1, <2>1 DEF Stays
      <3>. QED
        BY <1>1, <3>1
    <2>. QED
      BY <1>0, <2>2
  <1>2. ASSUME NEW w \in Workers, NEW done, NEW answer, StartWorker(w, done, answer) PROVE Goal
    BY <1>1, <1>2 DEF StartWorker, Processes
  <1>3. ASSUME NEW done, NEW answer, StartApi(done, answer) PROVE Goal
    BY <1>1, <1>3 DEF StartApi, Processes
  <1>4. ASSUME StartAlone PROVE Goal
    <2>1. mem[Api].jobs = {} /\ mem[Api].delayed = {}
      BY <1>4 DEF StartAlone, Tidy, NoQueues, Processes
    <2>2. Fine
      BY <1>4, <2>1 DEF StartAlone, Stays
    <2>. QED
      BY <1>0, <2>2
  <1>5. ASSUME StartScheduler \/ \E p \in Processes : Degrade(p) \/ Measure(p) PROVE Goal
    <2>1. Fine
      BY <1>5 DEF StartScheduler, Degrade, Measure, Stays
    <2>. QED
      BY <1>0, <2>1
  <1>6. ASSUME NEW p \in Processes, Crash(p) PROVE Goal
    <2>1. /\ local' => local /\ mem'[Api] = mem[Api]
          /\ \A q \in Processes : due'[q] \subseteq due[q]
          /\ \A s \in Slots : hand'[s] = hand[s] \/ hand'[s] = None
          /\ UNCHANGED <<redis, executions, accepted>>
      BY <1>6 DEF Crash, TypeOK, Processes
    <2>2. Fine
      BY <2>1 DEF Stays
    <2>. QED
      BY <1>0, <2>2
  <1>7. ASSUME NEW p \in {Api, Scheduler}, NEW m \in Messages, NEW done \in BOOLEAN, NEW answer,
               Send(p, m, done, answer), UNCHANGED <<local, hand, executions>>, accepted \subseteq accepted',
               NEW spot, NEW holder, Only(m, spot, holder), spot \in {"nowhere", "batch"},
               m \notin accepted \/ ~Only(m, "nowhere", None),
               \A q \in Processes : due'[q] \subseteq due[q] \ {m}
        PROVE  Goal
    <2>1. /\ \E place \in {"jobs", "stream", "list"} : Only(m, place, None)'
          /\ \A n \in Messages : n # m => Stays(n)
      BY <1>7, SendMoves
    <2>2. Moves(m)
      BY <1>7, <2>1 DEF Spots, Holders
    <2> HIDE DEF Moves
    <2>3. Fine
      BY <1>7, <2>1, <2>2
    <2>. QED
      BY <1>0, <2>3
  <1>8. ASSUME NEW p \in Processes, NEW r \in Runs, NEW done \in BOOLEAN, NEW answer, Issue(p, r, done, answer) PROVE Goal
    <2>1. First(r) \in Messages /\ First(r) \notin accepted
      BY <1>8, MessageType DEF Issue
    <2>2. Only(First(r), "nowhere", None)
      BY <2>1, NewIsNowhere
    <2>3. \A q \in Processes : First(r) \notin due[q]
      BY <2>1 DEF PlacedIsAccepted
    <2>4. /\ p \in {Api, Scheduler} /\ Send(p, First(r), done, answer) /\ UNCHANGED <<local, hand, executions, due>>
          /\ accepted \subseteq accepted'
      BY <1>8 DEF Issue
    <2>5. \A q \in Processes : due'[q] \subseteq due[q] \ {First(r)}
      BY <2>3, <2>4
    <2>. QED
      BY <1>7, <2>1, <2>2, <2>4, <2>5
  <1>9. ASSUME NEW p \in Processes, NEW done \in BOOLEAN, NEW answer, NEW m \in due[p], EnqueueDue(p, m, done, answer)
        PROVE  Goal
    <2>1. m \in Messages /\ p \in {Api, Scheduler}
      BY DEF TypeOK, Tidy, Processes
    <2>2. PICK spot \in Spots, holder \in Holders : Only(m, spot, holder)
      BY <2>1 DEF OneLive
    <2>3. spot = "batch" /\ holder = p /\ \A q \in Processes : q # p => m \notin due[q]
      BY <2>2 DEF Only
    <2>4. ~Only(m, "nowhere", None)
      BY DEF Only
    <2>5. /\ Send(p, m, done, answer) /\ UNCHANGED <<local, hand, executions, accepted>>
          /\ due' = [due EXCEPT ![p] = @ \ {m}]
      BY <1>9 DEF EnqueueDue
    <2>6. \A q \in Processes : due'[q] \subseteq due[q] \ {m}
      BY <2>3, <2>5 DEF TypeOK
    <2>. QED
      BY <1>7, <2>1, <2>2, <2>3, <2>4, <2>5, <2>6
  <1>10. ASSUME NEW s \in Slots, NEW m \in Messages, NEW st, Take(s, m, st), hand[s] = None, ~Only(m, "nowhere", None),
                UNCHANGED <<local, due, executions, accepted>>,
                /\ m \notin redis'.stream /\ m \notin redis'.list /\ m \notin redis'.delayed
                /\ \A n \in Messages \ {m} : Stays(n),
                ~(local /\ m \in mem'[Api].jobs) /\ ~(local /\ m \in mem'[Api].delayed),
                \A p \in Processes : m \notin due[p],
                \A t \in Slots : m # hand[t]
         PROVE  Goal
    <2>1. Only(m, "hand", s)'
      BY <1>10 DEF Only, Take, TypeOK
    <2>2. Moves(m)
      BY <1>10, <2>1 DEF Spots, Holders
    <2> HIDE DEF Moves
    <2>3. Fine
      BY <1>10, <2>2
    <2>. QED
      BY <1>0, <2>3
  <1>11. ASSUME NEW s \in Slots, ReadMemory(s) PROVE Goal
    <2>1. PICK m \in mem[Home[s]].jobs : Take(s, m, "exec") /\ mem' = [mem EXCEPT ![Home[s]].jobs = @ \ {m}]
      BY <1>11 DEF ReadMemory, PopMemory
    <2>2. Home[s] = Api /\ local /\ m \in Messages /\ hand[s] = None
      BY <1>11, HomeType DEF ReadMemory, Serves, Tidy, TypeOK, Processes
    <2>3. ~Only(m, "nowhere", None)
      BY <2>1, <2>2 DEF Only
    <2>4. PICK spot \in Spots, holder \in Holders : Only(m, spot, holder)
      BY <2>2 DEF OneLive
    <2>5. spot = "jobs"
      BY <2>2, <2>4 DEF Only
    <2>6. /\ m \notin redis.stream /\ m \notin redis.list /\ m \notin redis.delayed
          /\ m \notin mem[Api].delayed /\ \A p \in Processes : m \notin due[p]
          /\ \A t \in Slots : m # hand[t]
      BY <2>2, <2>4, <2>5 DEF Only
    <2>7. UNCHANGED <<redis, local, due, executions, accepted>>
      BY <1>11 DEF ReadMemory
    <2>8. mem'[Api].jobs = mem[Api].jobs \ {m} /\ mem'[Api].delayed = mem[Api].delayed
      BY <2>1, <2>2 DEF TypeOK, Processes
    <2>9. \A n \in Messages \ {m} : Stays(n)
      BY <2>1, <2>7, <2>8 DEF Stays, Take, TypeOK
    <2>. QED
      BY <1>10, <2>1, <2>2, <2>3, <2>6, <2>7, <2>8, <2>9
  <1>12. ASSUME NEW s \in Slots, NEW done \in BOOLEAN, NEW answer, NEW m, NEW st,
                Command(done, answer), Home[s] # Api, NEW key \in {"stream", "list"}, m \in redis[key],
                \/ answer = "ok" /\ Take(s, m, st) /\ UNCHANGED <<mode, mem>>
                \/ answer # "ok" /\ NoAnswer(s, answer),
                /\ redis'[key] = IF done THEN redis[key] \ {m} ELSE redis[key]
                /\ redis'.delayed = redis.delayed
                /\ {redis'.stream, redis'.list} \subseteq {redis'[key], redis.stream, redis.list},
                key = "list" => redis'.stream = redis.stream,
                key = "stream" => redis'.list = redis.list,
                hand[s] = None, UNCHANGED <<local, due, executions, accepted>>
         PROVE  Goal
    <2>1. CASE answer # "ok"
      <3>1. Release(s) /\ UNCHANGED mem
        BY <1>12, <2>1, NoAnswerReleases
      <3>2. redis'.stream \subseteq redis.stream /\ redis'.list \subseteq redis.list
        BY <1>12
      <3>3. \A n \in Messages : Stays(n)
        BY <1>12, <3>1, <3>2 DEF Stays, Release, Take, TypeOK
      <3>4. Fine
        BY <1>12, <3>3
      <3>. QED
        BY <1>0, <3>4
    <2>2. CASE answer = "ok"
      <3>1. done /\ Take(s, m, st) /\ UNCHANGED mem
        BY <1>12, <2>2 DEF Command
      <3>2. m \in Messages
        BY <1>12 DEF TypeOK
      <3>3. PICK spot \in Spots, holder \in Holders : Only(m, spot, holder)
        BY <3>2 DEF OneLive
      <3>4. spot = key /\ ~Only(m, "nowhere", None)
        BY <1>12, <3>3 DEF Only
      <3>5. /\ m \notin redis'.stream /\ m \notin redis'.list /\ m \notin redis'.delayed
            /\ ~(local /\ m \in mem'[Api].jobs) /\ ~(local /\ m \in mem'[Api].delayed)
            /\ \A p \in Processes : m \notin due[p]
            /\ \A t \in Slots : m # hand[t]
        BY <1>12, <3>1, <3>3, <3>4 DEF Only
      <3>6. redis'.stream \subseteq redis.stream /\ redis'.list \subseteq redis.list
        BY <1>12
      <3>7. \A n \in Messages \ {m} : Stays(n)
        BY <1>12, <3>1, <3>6 DEF Stays, Take, TypeOK
      <3>. QED
        BY <1>10, <1>12, <3>1, <3>2, <3>4, <3>5, <3>7
    <2>. QED
      BY <2>1, <2>2
  <1>13. ASSUME NEW s \in Slots, NEW done \in BOOLEAN, NEW answer, NEW m \in redis.stream, ReadStream(s, m, done, answer)
         PROVE  Goal
    <2>1. Home[s] # Api /\ hand[s] = None
      BY <1>13, ServerReaderIsWorker DEF ReadStream, Tidy
    <2>2. /\ redis'["stream"] = IF done THEN redis["stream"] \ {m} ELSE redis["stream"]
          /\ redis'.delayed = redis.delayed /\ redis'.list = redis.list
      BY <1>13 DEF ReadStream, TypeOK
    <2>3. UNCHANGED <<local, due, executions, accepted>> /\ Command(done, answer)
      BY <1>13 DEF ReadStream
    <2>4. \/ answer = "ok" /\ Take(s, m, "ack") /\ UNCHANGED <<mode, mem>>
          \/ answer # "ok" /\ NoAnswer(s, answer)
      BY <1>13 DEF ReadStream
    <2>. QED
      BY <1>12, <2>1, <2>2, <2>3, <2>4
  <1>14. ASSUME NEW s \in Slots, NEW done \in BOOLEAN, NEW answer, NEW m \in redis.list, ReadList(s, m, done, answer)
         PROVE  Goal
    <2>1. Home[s] # Api /\ hand[s] = None
      BY <1>14, ServerReaderIsWorker DEF ReadList, Tidy
    <2>2. /\ redis'["list"] = IF done THEN redis["list"] \ {m} ELSE redis["list"]
          /\ redis'.delayed = redis.delayed /\ redis'.stream = redis.stream
      BY <1>14 DEF ReadList, TypeOK
    <2>3. UNCHANGED <<local, due, executions, accepted>> /\ Command(done, answer)
      BY <1>14 DEF ReadList
    <2>4. \/ answer = "ok" /\ Take(s, m, "exec") /\ UNCHANGED <<mode, mem>>
          \/ answer # "ok" /\ NoAnswer(s, answer)
      BY <1>14 DEF ReadList
    <2>. QED
      BY <1>12, <2>1, <2>2, <2>3, <2>4
  <1>15. ASSUME NEW s \in Slots, NEW done \in BOOLEAN, NEW answer, Acknowledge(s, done, answer) PROVE Goal
    <2>1. Home[s] # Api
      BY <1>15 DEF Acknowledge, Tidy
    <2>2. redis'.stream = redis.stream /\ redis'.list = redis.list /\ redis'.delayed = redis.delayed
      BY <1>15 DEF Acknowledge, TypeOK
    <2>3. UNCHANGED mem /\ \A t \in Slots : hand'[t] = hand[t] \/ hand'[t] = None
      BY <1>15, <2>1, NoAnswerReleases DEF Acknowledge, Release, Take, TypeOK
    <2>4. Fine
      BY <1>15, <2>2, <2>3 DEF Acknowledge, Stays
    <2>. QED
      BY <1>0, <2>4
  <1>16. ASSUME NEW s \in Slots, NEW fails, Execute(s, fails) PROVE Goal
    <2>1. PICK m \in Messages : m = hand[s] /\ m \in accepted
      BY <1>16, HandType DEF Execute, Tidy, PlacedIsAccepted
    <2>2. ~Only(m, "nowhere", None)
      BY <2>1 DEF Only
    <2>3. executions[m] = 0 /\ executions' = [executions EXCEPT ![m] = @ + 1]
      BY <1>16, <2>1, <2>2 DEF Execute, SpentIsGone
    <2>4. executions'[m] = 1 /\ \A n \in Messages : n # m => executions'[n] = executions[n]
      BY <2>1, <2>3 DEF TypeOK
    <2>5. PICK spot \in Spots, holder \in Holders : Only(m, spot, holder)
      BY <2>1 DEF OneLive
    <2>6. spot = "hand" /\ holder = s
      BY <2>1, <2>5 DEF Only
    <2>7. UNCHANGED <<redis, local, mem, due>> /\ accepted \subseteq accepted'
      BY <1>16 DEF Execute
    <2>8. ASSUME NEW q, q = None \/ (q \in Messages /\ q \notin accepted /\ q # m), hand' = [hand EXCEPT ![s] = q]
          PROVE  /\ Only(m, "nowhere", None)'
                 /\ \A n \in Messages : n # m /\ n # q => Stays(n)
                 /\ q \in Messages => executions[q] = 0 /\ Only(q, "hand", s)'
      <3>1. Only(m, "nowhere", None)'
        BY <2>1, <2>5, <2>6, <2>7, <2>8 DEF Only, TypeOK
      <3>2. \A n \in Messages : n # m /\ n # q => Stays(n)
        BY <2>7, <2>8 DEF Stays, TypeOK
      <3>3. ASSUME q \in Messages PROVE executions[q] = 0 /\ Only(q, "hand", s)'
        <4>1. q \notin accepted
          BY <2>8, <3>3
        <4>2. Only(q, "nowhere", None)
          BY <3>3, <4>1, NewIsNowhere
        <4>3. executions[q] = 0
          BY <3>3, <4>1 DEF SpentIsGone
        <4>4. Only(q, "hand", s)'
          BY <2>7, <2>8, <4>2 DEF Only, TypeOK
        <4>. QED
          BY <4>3, <4>4
      <3>. QED
        BY <3>1, <3>2, <3>3
    <2>9. PICK q : (q = None \/ (q \in Messages /\ q \notin accepted /\ q # m)) /\ hand' = [hand EXCEPT ![s] = q]
      <3>1. CASE fails /\ MayRetry(m)
        <4>1. Following(m) \in Messages /\ Following(m) # m
          BY <2>1, <3>1, MessageType
        <4>2. Following(m) \notin accepted
          BY <2>1, <2>3, <3>1 DEF RetryFollows
        <4>. QED
          BY <1>16, <2>1, <3>1, <4>1, <4>2 DEF Execute, Take
      <3>2. CASE ~(fails /\ MayRetry(m))
        BY <1>16, <2>1, <3>2 DEF Execute, Release, Take
      <3>. QED
        BY <3>1, <3>2
    <2>10. /\ Only(m, "nowhere", None)'
           /\ \A n \in Messages : n # m /\ n # q => Stays(n)
           /\ q \in Messages => executions[q] = 0 /\ Only(q, "hand", s)'
      BY <2>8, <2>9
    <2>11. ASSUME NEW n, NEW k, NEW x, Stays(n), Only(n, k, x) PROVE Only(n, k, x)'
      BY <2>11 DEF Stays, Only
    <2>12. OneLive'
      <3>1. ASSUME NEW n \in Messages PROVE \E k \in Spots, x \in Holders : Only(n, k, x)'
        <4>1. CASE n = m
          BY <2>10, <4>1 DEF Spots, Holders
        <4>2. CASE n = q
          BY <2>10, <4>2 DEF Spots, Holders
        <4>3. CASE n # m /\ n # q
          BY <2>10, <2>11, <4>3 DEF OneLive
        <4>. QED
          BY <4>1, <4>2, <4>3
      <3>. QED
        BY <3>1 DEF OneLive
    <2>13. SpentIsGone'
      <3>1. ASSUME NEW n \in Messages, executions'[n] # 0
            PROVE  executions'[n] = 1 /\ n \in accepted' /\ Only(n, "nowhere", None)'
        <4>1. CASE n = m
          BY <2>1, <2>4, <2>7, <2>10, <4>1
        <4>2. CASE n # m
          <5>1. executions'[n] = executions[n] /\ n # q
            BY <2>4, <2>10, <3>1, <4>2
          <5>2. executions[n] = 1 /\ n \in accepted /\ Only(n, "nowhere", None)
            BY <3>1, <5>1 DEF SpentIsGone
          <5>3. Stays(n)
            BY <2>10, <4>2, <5>1
          <5>. QED
            BY <2>7, <2>11, <5>1, <5>2, <5>3
        <4>. QED
          BY <4>1, <4>2
      <3>. QED
        BY <3>1 DEF SpentIsGone
    <2>. QED
      BY <2>12, <2>13 DEF Goal
  <1>17. ASSUME NEW s \in Slots, NEW done \in BOOLEAN, NEW answer, Delay(s, done, answer) PROVE Goal
    <2>1. PICK m \in Messages : m = hand[s]
      BY <1>17, HandType DEF Delay
    <2>2. ~Only(m, "nowhere", None)
      BY <2>1 DEF Only
    <2>3. PICK spot \in Spots, holder \in Holders : Only(m, spot, holder)
      BY <2>1 DEF OneLive
    <2>4. spot = "hand" /\ holder = s
      BY <2>1, <2>3 DEF Only
    <2>5. UNCHANGED <<local, due, executions, accepted>> /\ hand' = [hand EXCEPT ![s] = None]
      BY <1>17 DEF Delay, Release, Take
    <2>6. CASE mem' = [mem EXCEPT ![Home[s]].delayed = @ \cup {m}] /\ UNCHANGED redis
      <3>1. Only(m, "later", None)'
        BY <2>1, <2>3, <2>4, <2>5, <2>6, HomeType DEF Only, TypeOK, Processes
      <3>2. \A n \in Messages : n # m => Stays(n)
        BY <2>5, <2>6, HomeType DEF Stays, TypeOK, Processes
      <3>3. Fine
        BY <2>2, <2>5, <3>1, <3>2 DEF Spots, Holders
      <3>. QED
        BY <1>0, <3>3
    <2>7. CASE /\ OnRedis(Home[s])
               /\ redis' = redis \/ redis' = [redis EXCEPT !.delayed = @ \cup {m}]
               /\ mem' = mem \/ mem' = [mem EXCEPT ![Home[s]].delayed = @ \cup {m}]
      <3>1. Home[s] # Api
        BY <1>17, <2>7 DEF Delay, Tidy, OnRedis
      <3>2. mem'[Api] = mem[Api]
        BY <2>7, <3>1 DEF TypeOK, Processes
      <3>3. /\ redis'.stream = redis.stream /\ redis'.list = redis.list
            /\ redis'.delayed \subseteq redis.delayed \cup {m}
        BY <2>7 DEF TypeOK
      <3>4. Only(m, "delayed", None)'
        BY <2>1, <2>3, <2>4, <2>5, <3>2, <3>3 DEF Only, TypeOK
      <3>5. \A n \in Messages : n # m => Stays(n)
        BY <2>5, <3>2, <3>3 DEF Stays, TypeOK
      <3>6. Fine
        BY <2>2, <2>5, <3>4, <3>5 DEF Spots, Holders
      <3>. QED
        BY <1>0, <3>6
    <2>. QED
      BY <1>17, <2>1, <2>6, <2>7 DEF Delay
  <1>18. ASSUME NEW p \in Processes, NEW ms \in SUBSET Messages, due' = [due EXCEPT ![p] = ms],
                UNCHANGED <<local, hand, executions, accepted>>,
                redis'.stream = redis.stream, redis'.list = redis.list, mem'[Api].jobs = mem[Api].jobs,
                NEW here \in {"delayed", "later"},
                here = "delayed" => /\ ms \subseteq redis.delayed /\ redis'.delayed = redis.delayed \ ms
                                    /\ mem'[Api].delayed = mem[Api].delayed,
                here = "later" => /\ local /\ ms \subseteq mem[Api].delayed
                                  /\ mem'[Api].delayed = mem[Api].delayed \ ms
                                  /\ redis'.delayed = redis.delayed
         PROVE  Goal
    <2>1. ASSUME NEW m \in ms PROVE Moves(m)
      <3>1. PICK spot \in Spots, holder \in Holders : Only(m, spot, holder)
        BY DEF OneLive
      <3>2. spot = here /\ ~Only(m, "nowhere", None)
        BY <1>18, <3>1 DEF Only
      <3>3. Only(m, "batch", p)'
        BY <1>18, <3>1, <3>2 DEF Only, TypeOK
      <3>. QED
        BY <3>2, <3>3 DEF Spots, Holders
    <2>2. \A n \in Messages \ ms : Stays(n)
      <3>1. redis'.delayed \subseteq redis.delayed /\ mem'[Api].delayed \subseteq mem[Api].delayed
        BY <1>18
      <3>2. ASSUME NEW n \in Messages \ ms, NEW q \in Processes, n \in due'[q] PROVE n \in due[q]
        BY <1>18, <3>2 DEF TypeOK
      <3>. QED
        BY <1>18, <3>1, <3>2 DEF Stays
    <2> HIDE DEF Moves
    <2>3. Fine
      BY <1>18, <2>1, <2>2
    <2>. QED
      BY <1>0, <2>3
  <1>19. ASSUME NEW p \in Processes, NEW ms \in SUBSET mem[p].delayed, FetchMemory(p, ms) PROVE Goal
    <2>1. p = Api /\ local
      BY <1>19 DEF FetchMemory, Schedules, Tidy
    <2>2. /\ due' = [due EXCEPT ![p] = ms] /\ UNCHANGED <<redis, local, hand, executions, accepted>>
          /\ ms \in SUBSET Messages
      BY <1>19 DEF FetchMemory, DueInMemory, TypeOK
    <2>3. mem'[Api].jobs = mem[Api].jobs /\ mem'[Api].delayed = mem[Api].delayed \ ms
      BY <1>19, <2>1 DEF FetchMemory, DueInMemory, TypeOK
    <2>. QED
      BY <1>18, <2>1, <2>2, <2>3
  <1>20. ASSUME NEW p \in Processes, NEW ms \in SUBSET redis.delayed, FetchDue(p, ms) PROVE Goal
    <2>1. Fine
      BY <1>20 DEF FetchDue, Stays
    <2>. QED
      BY <1>0, <2>1
  <1>21. ASSUME NEW p \in Processes, NEW done \in BOOLEAN, NEW answer, NEW ms \in SUBSET mem[p].delayed,
                RemoveDue(p, ms, done, answer)
         PROVE  Goal
    <2>1. p = Scheduler /\ ms = {} /\ fetched[p] \subseteq redis.delayed /\ fetched[p] \in SUBSET Messages
      BY <1>21 DEF RemoveDue, Tidy, TypeOK, Processes
    <2>2. /\ redis'.stream = redis.stream /\ redis'.list = redis.list
          /\ redis'.delayed = IF done THEN redis.delayed \ fetched[p] ELSE redis.delayed
      BY <1>21 DEF RemoveDue, TypeOK
    <2>3. mem'[Api] = mem[Api]
      BY <1>21, <2>1 DEF RemoveDue, RemoveFailed, DueInMemory, TypeOK, Processes
    <2>4. UNCHANGED <<local, hand, executions, accepted>>
      BY <1>21 DEF RemoveDue
    <2>5. CASE answer = "ok"
      <3>1. done /\ due' = [due EXCEPT ![p] = fetched[p]]
        BY <1>21, <2>5 DEF RemoveDue, Command
      <3>. QED
        BY <1>18, <2>1, <2>2, <2>3, <2>4, <3>1
    <2>6. CASE answer # "ok"
      <3>1. due' = [due EXCEPT ![p] = {}]
        BY <1>21, <2>1, <2>6 DEF RemoveDue, RemoveFailed, DueInMemory
      <3>2. redis'.delayed \subseteq redis.delayed
        BY <2>2
      <3>3. \A q \in Processes : due'[q] \subseteq due[q]
        BY <3>1 DEF TypeOK
      <3>4. \A n \in Messages : Stays(n)
        BY <2>2, <2>3, <2>4, <3>2, <3>3 DEF Stays
      <3>5. Fine
        BY <2>4, <3>4
      <3>. QED
        BY <1>0, <3>5
    <2>. QED
      BY <2>5, <2>6
  <1>22. ASSUME UNCHANGED vars PROVE Goal
    <2>1. Fine
      BY <1>22 DEF vars, Stays
    <2>. QED
      BY <1>0, <2>1
  <1>. HIDE DEF server, process, moving, slots, history, bounds
  <1>23. Goal
    BY NextCases, <1>2, <1>3, <1>4, <1>5, <1>6, <1>8, <1>9, <1>11, <1>13, <1>14, <1>15, <1>16, <1>17, <1>19,
       <1>20, <1>21, <1>22
  <1>. QED
    BY <1>23 DEF Goal

\* A retry is accepted in the step that executes its predecessor, and no other
\* message has the same.
LEMMA RetryStep ==
  ASSUME TypeOK, TypeOK', Tidy, RetryFollows, SpentIsGone', [Next]_vars PROVE RetryFollows'
  <1>1. ASSUME UNCHANGED executions,
               \A m \in Messages : MayRetry(m) /\ Following(m) \in accepted' => Following(m) \in accepted
        PROVE  RetryFollows'
    BY <1>1 DEF RetryFollows, MayRetry, Following
  <1>2. ASSUME NEW p \in Processes, NEW r \in Runs, NEW done, NEW answer, Issue(p, r, done, answer) PROVE RetryFollows'
    BY <1>1, <1>2, FirstIsNoRetry DEF Issue
  <1>3. ASSUME NEW s \in Slots, NEW fails, Execute(s, fails) PROVE RetryFollows'
    <2>1. PICK o \in Messages : o = hand[s]
      BY <1>3, HandType DEF Execute
    <2>2. executions' = [executions EXCEPT ![o] = @ + 1]
      BY <1>3, <2>1 DEF Execute
    <2>3. executions'[o] = 1 /\ \A m \in Messages : m # o => executions'[m] = executions[m]
      BY <2>2 DEF TypeOK, SpentIsGone
    <2>4. accepted' \subseteq accepted \cup {Following(o)}
      BY <1>3, <2>1 DEF Execute
    <2>5. ASSUME NEW m \in Messages, MayRetry(m), Following(m) \in accepted' PROVE executions'[m] = 1
      <3>1. CASE m = o
        BY <2>3, <3>1
      <3>2. CASE m # o
        BY <2>3, <2>4, <2>5, <3>2, FollowingInjective DEF RetryFollows
      <3>. QED
        BY <3>1, <3>2
    <2>. QED
      BY <2>5 DEF RetryFollows, MayRetry, Following
  <1>4. ASSUME UNCHANGED <<accepted, executions>> PROVE RetryFollows'
    BY <1>1, <1>4
  <1>5. CASE \/ \E w \in Workers, done \in BOOLEAN, answer \in Results : StartWorker(w, done, answer)
             \/ \E done \in BOOLEAN, answer \in Results : StartApi(done, answer)
             \/ StartAlone \/ StartScheduler
             \/ \E p \in Processes : Degrade(p) \/ Crash(p) \/ Measure(p)
    BY <1>4, <1>5 DEF StartWorker, StartApi, StartAlone, StartScheduler, Degrade, Crash, Measure, history
  <1>6. CASE \/ \E s \in Slots : ReadMemory(s)
             \/ \E s \in Slots, done \in BOOLEAN, answer \in Answers, m \in redis.stream : ReadStream(s, m, done, answer)
             \/ \E s \in Slots, done \in BOOLEAN, answer \in Answers, m \in redis.list : ReadList(s, m, done, answer)
             \/ \E s \in Slots, done \in BOOLEAN, answer \in Answers : Acknowledge(s, done, answer)
             \/ \E s \in Slots, done \in BOOLEAN, answer \in Results : Delay(s, done, answer)
    BY <1>4, <1>6, ZenonT(30) DEF ReadMemory, ReadStream, ReadList, Acknowledge, Delay, history
  <1>7. CASE \/ \E p \in Processes : \E ms \in SUBSET mem[p].delayed : FetchMemory(p, ms)
             \/ \E p \in Processes : \E ms \in SUBSET redis.delayed : FetchDue(p, ms)
             \/ \E p \in Processes, done \in BOOLEAN, answer \in Results :
                  \E ms \in SUBSET mem[p].delayed : RemoveDue(p, ms, done, answer)
             \/ \E p \in Processes, done \in BOOLEAN, answer \in Results : \E m \in due[p] : EnqueueDue(p, m, done, answer)
             \/ UNCHANGED vars
    BY <1>4, <1>7 DEF FetchMemory, FetchDue, RemoveDue, EnqueueDue, history, vars
  <1>. QED
    BY NextCases, <1>2, <1>3, <1>5, <1>6, <1>7

(***************************************************************************)
(* No message is lost unnoticed                                            *)
(***************************************************************************)

\* Accounted, place by place.
Somewhere(m) ==
  \/ m \in redis.stream \/ m \in redis.list \/ m \in redis.delayed
  \/ \E p \in Processes : m \in due[p]
  \/ \E s \in Slots : hand[s] = m
  \/ \E p \in Processes : m \in mem[p].jobs
  \/ \E p \in Processes : m \in mem[p].delayed
  \/ m \in harmed \/ m \in early

LEMMA SomewhereAccounts ==
  /\ Accounted <=> \A m \in accepted : executions[m] = 0 => Somewhere(m)
  /\ Accounted' <=> \A m \in accepted' : executions'[m] = 0 => Somewhere(m)'
  BY HomeType DEF Accounted, Somewhere, OnServer, InHand, SlotsOf

\* A step that executes and accepts nothing and forgets no message keeps it.
LEMMA Keeping ==
  ASSUME Accounted, UNCHANGED executions,
         \A m \in accepted' : m \notin accepted \/ Somewhere(m) => Somewhere(m)'
  PROVE  Accounted'
  BY SomewhereAccounts

\* What is sent is somewhere, and the rest is where it was.
LEMMA SendKeeps ==
  ASSUME TypeOK, NEW p \in Processes, NEW m, NEW done \in BOOLEAN, NEW answer, Send(p, m, done, answer),
         UNCHANGED <<hand, harmed>>, \A q \in Processes : due[q] \ {m} \subseteq due'[q]
  PROVE  Somewhere(m)' /\ \A n : Somewhere(n) => Somewhere(n)'
  <1> DEFINE Grows == /\ redis.stream \subseteq redis'.stream /\ redis.list \subseteq redis'.list
                      /\ redis.delayed \subseteq redis'.delayed /\ early \subseteq early'
                      /\ \A q \in Processes : mem[q].jobs \subseteq mem'[q].jobs /\ mem[q].delayed \subseteq mem'[q].delayed
             Sent == m \in redis'.stream \/ m \in redis'.list \/ \E q \in Processes : m \in mem'[q].jobs
  <1>1. CASE InMemory(p) /\ mem' = [mem EXCEPT ![p].jobs = @ \cup {m}] /\ UNCHANGED <<redis, mode, early>>
    <2>1. Grows /\ Sent
      BY <1>1 DEF TypeOK
    <2>. QED
      BY <1>1, <2>1 DEF Somewhere
  <1>2. CASE /\ OnRedis(p) /\ Command(done, answer)
             /\ early' = IF done /\ ~group /\ Uses(p) = "stream" THEN early \cup {m} ELSE early
             /\ redis' = IF done THEN [redis EXCEPT ![Uses(p)] = @ \cup {m}] ELSE redis
             /\ IF answer = "ok"
                  THEN mode' = [mode EXCEPT ![p] = Answered(p)] /\ UNCHANGED mem
                  ELSE ToMemory(p) /\ mem' = [mem EXCEPT ![p].jobs = @ \cup {m}]
    <2>1. early \subseteq early'
      BY <1>2
    <2>2. /\ redis.stream \subseteq redis'.stream /\ redis.list \subseteq redis'.list
          /\ redis.delayed \subseteq redis'.delayed
          /\ done => m \in redis'.stream \/ m \in redis'.list
      <3>1. CASE ~done
        BY <1>2, <3>1
      <3>2. CASE done /\ redis' = [redis EXCEPT !["stream"] = @ \cup {m}]
        BY <3>2 DEF TypeOK
      <3>3. CASE done /\ redis' = [redis EXCEPT !["list"] = @ \cup {m}]
        BY <3>3 DEF TypeOK
      <3>. QED
        BY <1>2, <3>1, <3>2, <3>3 DEF Uses
    <2>3. /\ \A q \in Processes : mem[q].jobs \subseteq mem'[q].jobs /\ mem[q].delayed \subseteq mem'[q].delayed
          /\ ~done => m \in mem'[p].jobs
      <3>1. CASE answer = "ok"
        BY <1>2, <3>1 DEF Command
      <3>2. CASE answer # "ok"
        BY <1>2, <3>2, SMTT(30) DEF TypeOK
      <3>. QED
        BY <3>1, <3>2
    <2>4. Grows /\ Sent
      BY <2>1, <2>2, <2>3
    <2>. QED
      BY <2>4 DEF Somewhere
  <1>. QED
    BY <1>1, <1>2 DEF Send

LEMMA AccountedStep ==
  ASSUME TypeOK, ModesAgree, Tidy, PlacedIsAccepted, SpentIsGone, SpentIsGone', EarlyKnown, Accounted, [Next]_vars
  PROVE  Accounted'
  <1> DEFINE
    Kept == UNCHANGED executions /\ \A m \in accepted' : m \notin accepted \/ Somewhere(m) => Somewhere(m)'
    Goal == Accounted'
  <1>0. ASSUME Kept PROVE Goal
    BY <1>0, Keeping
  <1> HIDE DEF Goal
  <1> USE DEF server, process, moving, slots, history, bounds
  <1>1. ASSUME NEW p \in Processes, NEW done, NEW answer, InitQueue(p, done, answer), UNCHANGED <<mem, moving, slots, history>>
        PROVE  Goal
    <2>1. redis.stream \subseteq redis'.stream \cup early /\ redis'.list = redis.list /\ redis'.delayed = redis.delayed
      <3>1. redis' = redis \/ (redis' = WithGroup)
        BY <1>1 DEF InitQueue
      <3>2. /\ redis.stream \subseteq WithGroup.stream \cup early
            /\ WithGroup.list = redis.list /\ WithGroup.delayed = redis.delayed
        BY DEF WithGroup, TypeOK, EarlyKnown
      <3>. QED
        BY <3>1, <3>2
    <2>2. Kept
      BY <1>1, <2>1 DEF Somewhere
    <2>. QED
      BY <1>0, <2>2
  <1>2. ASSUME NEW w \in Workers, NEW done, NEW answer, StartWorker(w, done, answer) PROVE Goal
    BY <1>1, <1>2 DEF StartWorker, Processes
  <1>3. ASSUME NEW done, NEW answer, StartApi(done, answer) PROVE Goal
    BY <1>1, <1>3 DEF StartApi, Processes
  <1>4. ASSUME StartAlone \/ StartScheduler \/ \E p \in Processes : Degrade(p) \/ Measure(p) PROVE Goal
    <2>1. Kept
      BY <1>4 DEF StartAlone, StartScheduler, Degrade, Measure, Somewhere
    <2>. QED
      BY <1>0, <2>1
  <1>5. ASSUME NEW p \in Processes, Crash(p) PROVE Goal
    <2>1. /\ harmed' = harmed \cup Holds(p) /\ UNCHANGED <<redis, accepted, executions, early>>
          /\ \A q \in Processes : q # p => due'[q] = due[q] /\ mem'[q] = mem[q]
          /\ \A s \in Slots : Home[s] # p => hand'[s] = hand[s]
      BY <1>5 DEF Crash, TypeOK
    <2>2. ASSUME NEW m \in accepted, Somewhere(m) PROVE Somewhere(m)'
      <3>1. m \in Messages /\ m # None
        BY DEF TypeOK
      <3>2. m \in mem[p].jobs \/ m \in mem[p].delayed \/ m \in due[p] => m \in Holds(p)
        BY DEF Holds
      <3>3. \A s \in Slots : Home[s] = p /\ hand[s] = m => m \in Holds(p)
        BY <3>1 DEF Holds, SlotsOf
      <3>. QED
        BY <2>1, <2>2, <3>2, <3>3 DEF Somewhere
    <2>3. Kept
      BY <2>1, <2>2
    <2>. QED
      BY <1>0, <2>3
  <1>6. ASSUME NEW p \in Processes, NEW r \in Runs, NEW done \in BOOLEAN, NEW answer, Issue(p, r, done, answer) PROVE Goal
    <2>1. Send(p, First(r), done, answer) /\ UNCHANGED <<hand, harmed, due, executions>> /\ accepted' = accepted \cup {First(r)}
      BY <1>6 DEF Issue
    <2>2. Somewhere(First(r))' /\ \A n : Somewhere(n) => Somewhere(n)'
      BY <2>1, SendKeeps
    <2>3. Kept
      BY <2>1, <2>2
    <2>. QED
      BY <1>0, <2>3
  <1>7. ASSUME NEW p \in Processes, NEW done \in BOOLEAN, NEW answer, NEW m \in due[p], EnqueueDue(p, m, done, answer)
        PROVE  Goal
    <2>1. Send(p, m, done, answer) /\ UNCHANGED <<hand, harmed, executions, accepted>>
      BY <1>7 DEF EnqueueDue
    <2>2. \A q \in Processes : due[q] \ {m} \subseteq due'[q]
      BY <1>7 DEF EnqueueDue, TypeOK
    <2>3. \A n : Somewhere(n) => Somewhere(n)'
      BY <2>1, <2>2, SendKeeps
    <2>4. Kept
      BY <2>1, <2>3
    <2>. QED
      BY <1>0, <2>4
  <1>8. ASSUME NEW s \in Slots, ReadMemory(s) PROVE Goal
    <2>1. PICK m \in mem[Home[s]].jobs : Take(s, m, "exec") /\ mem' = [mem EXCEPT ![Home[s]].jobs = @ \ {m}]
      BY <1>8 DEF ReadMemory, PopMemory
    <2>2. /\ \A q \in Processes : mem[q].jobs \subseteq mem'[q].jobs \cup {m} /\ mem'[q].delayed = mem[q].delayed
      BY <2>1, HomeType DEF TypeOK
    <2>3. hand[s] = None /\ hand'[s] = m /\ \A t \in Slots : t # s => hand'[t] = hand[t]
      BY <1>8, <2>1 DEF ReadMemory, Take, Tidy, TypeOK
    <2>4. UNCHANGED <<redis, due, executions, accepted, early, harmed>>
      BY <1>8 DEF ReadMemory
    <2>5. \A n \in accepted : n # None
      BY DEF TypeOK
    <2>6. ASSUME NEW n \in accepted, Somewhere(n) PROVE Somewhere(n)'
      BY <2>2, <2>3, <2>4, <2>5, <2>6 DEF Somewhere
    <2>7. Kept
      BY <2>4, <2>6
    <2>. QED
      BY <1>0, <2>7
  <1>9. ASSUME NEW s \in Slots, NEW done \in BOOLEAN, NEW answer, NEW m, NEW st,
               Command(done, answer), Home[s] # Api, hand[s] = None,
               \/ answer = "ok" /\ Take(s, m, st) /\ UNCHANGED <<mode, mem>>
               \/ answer # "ok" /\ NoAnswer(s, answer),
               /\ redis.stream \ {m} \subseteq redis'.stream /\ redis.list \ {m} \subseteq redis'.list
               /\ redis'.delayed = redis.delayed,
               m \in redis.stream \/ m \in redis.list,
               ~done => redis' = redis,
               harmed' = (IF done /\ answer # "ok" THEN harmed \cup {m} ELSE harmed),
               UNCHANGED <<due, executions, accepted, early>>
        PROVE  Goal
    <2>1. UNCHANGED mem /\ \A t \in Slots : t # s => hand'[t] = hand[t]
      BY <1>9, NoAnswerReleases DEF Release, Take, TypeOK
    <2>2. \/ ~done /\ redis' = redis
          \/ m \in harmed'
          \/ hand'[s] = m
      BY <1>9 DEF Take, TypeOK
    <2>3. \A n \in accepted : n # None
      BY DEF TypeOK
    <2>4. ASSUME NEW n \in accepted, Somewhere(n) PROVE Somewhere(n)'
      <3>1. CASE n = m
        BY <1>9, <2>1, <2>2, <3>1 DEF Somewhere
      <3>2. CASE n # m
        BY <1>9, <2>1, <2>3, <2>4, <3>2 DEF Somewhere
      <3>. QED
        BY <3>1, <3>2
    <2>5. Kept
      BY <1>9, <2>4
    <2>. QED
      BY <1>0, <2>5
  <1>10. ASSUME NEW s \in Slots, NEW done \in BOOLEAN, NEW answer, NEW m \in redis.stream, ReadStream(s, m, done, answer)
         PROVE  Goal
    <2>1. Home[s] # Api /\ hand[s] = None
      BY <1>10, ServerReaderIsWorker DEF ReadStream, Tidy
    <2>2. /\ redis.stream \ {m} \subseteq redis'.stream /\ redis.list \ {m} \subseteq redis'.list
          /\ redis'.delayed = redis.delayed /\ (~done => redis' = redis)
      BY <1>10 DEF ReadStream, TypeOK
    <2>3. /\ Command(done, answer) /\ UNCHANGED <<due, executions, accepted, early>>
          /\ harmed' = (IF done /\ answer # "ok" THEN harmed \cup {m} ELSE harmed)
      BY <1>10 DEF ReadStream
    <2>4. \/ answer = "ok" /\ Take(s, m, "ack") /\ UNCHANGED <<mode, mem>>
          \/ answer # "ok" /\ NoAnswer(s, answer)
      BY <1>10 DEF ReadStream
    <2>. QED
      BY <1>9, <2>1, <2>2, <2>3, <2>4
  <1>11. ASSUME NEW s \in Slots, NEW done \in BOOLEAN, NEW answer, NEW m \in redis.list, ReadList(s, m, done, answer)
         PROVE  Goal
    <2>1. Home[s] # Api /\ hand[s] = None
      BY <1>11, ServerReaderIsWorker DEF ReadList, Tidy
    <2>2. /\ redis.stream \ {m} \subseteq redis'.stream /\ redis.list \ {m} \subseteq redis'.list
          /\ redis'.delayed = redis.delayed /\ (~done => redis' = redis)
      BY <1>11 DEF ReadList, TypeOK
    <2>3. /\ Command(done, answer) /\ UNCHANGED <<due, executions, accepted, early>>
          /\ harmed' = (IF done /\ answer # "ok" THEN harmed \cup {m} ELSE harmed)
      BY <1>11 DEF ReadList
    <2>4. \/ answer = "ok" /\ Take(s, m, "exec") /\ UNCHANGED <<mode, mem>>
          \/ answer # "ok" /\ NoAnswer(s, answer)
      BY <1>11 DEF ReadList
    <2>. QED
      BY <1>9, <2>1, <2>2, <2>3, <2>4
  <1>12. ASSUME NEW s \in Slots, NEW done \in BOOLEAN, NEW answer, Acknowledge(s, done, answer) PROVE Goal
    <2>1. Home[s] # Api
      BY <1>12 DEF Acknowledge, Tidy
    <2>2. redis'.stream = redis.stream /\ redis'.list = redis.list /\ redis'.delayed = redis.delayed
      BY <1>12 DEF Acknowledge, TypeOK
    <2>3. /\ UNCHANGED mem /\ \A t \in Slots : t # s => hand'[t] = hand[t]
          /\ hand'[s] = hand[s] \/ hand[s] \in harmed'
      BY <1>12, <2>1, NoAnswerReleases DEF Acknowledge, Release, Take, TypeOK
    <2>4. harmed \subseteq harmed' /\ UNCHANGED <<due, executions, accepted, early>>
      BY <1>12 DEF Acknowledge
    <2>5. \A n : Somewhere(n) => Somewhere(n)'
      BY <2>2, <2>3, <2>4 DEF Somewhere
    <2>6. Kept
      BY <2>4, <2>5
    <2>. QED
      BY <1>0, <2>6
  <1>13. ASSUME NEW s \in Slots, NEW fails, Execute(s, fails) PROVE Goal
    <2>1. PICK o \in Messages : o = hand[s] /\ o \in accepted
      BY <1>13, HandType DEF Execute, Tidy, PlacedIsAccepted
    <2>2. executions' = [executions EXCEPT ![o] = @ + 1] /\ UNCHANGED <<redis, due, mem, early, harmed>>
      BY <1>13, <2>1 DEF Execute
    <2>3. executions'[o] # 0 /\ \A m \in Messages : m # o => executions'[m] = executions[m]
      BY <2>2 DEF TypeOK
    <2>4. /\ \A t \in Slots : t # s => hand'[t] = hand[t]
          /\ \A m \in accepted' : m \notin accepted => hand'[s] = m
      BY <1>13 DEF Execute, Take, Release, TypeOK
    <2>5. ASSUME NEW m \in accepted', executions'[m] = 0 PROVE Somewhere(m)'
      <3>1. CASE m \notin accepted
        BY <2>4, <3>1 DEF Somewhere
      <3>2. CASE m \in accepted
        <4>1. m \in Messages /\ m # o /\ executions[m] = 0
          BY <2>3, <2>5, <3>2 DEF TypeOK
        <4>2. Somewhere(m)
          BY <3>2, <4>1, SomewhereAccounts
        <4>. QED
          BY <2>1, <2>2, <2>4, <4>1, <4>2 DEF Somewhere
      <3>. QED
        BY <3>1, <3>2
    <2>. QED
      BY <2>5, SomewhereAccounts DEF Goal
  <1>14. ASSUME NEW s \in Slots, NEW done \in BOOLEAN, NEW answer, Delay(s, done, answer) PROVE Goal
    <2>1. /\ \A t \in Slots : t # s => hand'[t] = hand[t]
          /\ UNCHANGED <<due, executions, accepted, early, harmed>>
      BY <1>14 DEF Delay, Release, Take, TypeOK
    <2>2. mem' = mem \/ mem' = [mem EXCEPT ![Home[s]].delayed = @ \cup {hand[s]}]
      BY <1>14 DEF Delay
    <2>3. \A q \in Processes : mem[q].jobs \subseteq mem'[q].jobs /\ mem[q].delayed \subseteq mem'[q].delayed
      BY <2>2, HomeType DEF TypeOK
    <2>4. redis' = redis \/ redis' = [redis EXCEPT !.delayed = @ \cup {hand[s]}]
      BY <1>14 DEF Delay
    <2>5. redis'.stream = redis.stream /\ redis'.list = redis.list /\ redis.delayed \subseteq redis'.delayed
      BY <2>4 DEF TypeOK
    <2>6. hand[s] \in redis'.delayed \/ hand[s] \in mem'[Home[s]].delayed
      <3>1. CASE mem' = [mem EXCEPT ![Home[s]].delayed = @ \cup {hand[s]}]
        BY <3>1, HomeType DEF TypeOK
      <3>2. CASE done /\ redis' = [redis EXCEPT !.delayed = @ \cup {hand[s]}]
        BY <3>2 DEF TypeOK
      <3>. QED
        BY <1>14, <3>1, <3>2 DEF Delay, Command
    <2>7. \A n : Somewhere(n) => Somewhere(n)'
      BY <2>1, <2>3, <2>5, <2>6, HomeType DEF Somewhere
    <2>8. Kept
      BY <2>1, <2>7
    <2>. QED
      BY <1>0, <2>8
  <1>15. ASSUME NEW p \in Processes, NEW ms \in SUBSET mem[p].delayed, FetchMemory(p, ms) PROVE Goal
    <2>1. /\ due[p] = {} /\ due' = [due EXCEPT ![p] = ms] /\ mem' = [mem EXCEPT ![p].delayed = @ \ ms]
          /\ UNCHANGED <<redis, hand, executions, accepted, early, harmed>>
      BY <1>15 DEF FetchMemory, DueInMemory, Waiting
    <2>2. /\ ms \subseteq due'[p] /\ \A q \in Processes : due[q] \subseteq due'[q]
          /\ \A q \in Processes : mem'[q].jobs = mem[q].jobs
          /\ \A q \in Processes : mem[q].delayed \ due'[p] \subseteq mem'[q].delayed
      BY <2>1 DEF TypeOK
    <2>3. \A n : Somewhere(n) => Somewhere(n)'
      BY <2>1, <2>2 DEF Somewhere
    <2>4. Kept
      BY <2>1, <2>3
    <2>. QED
      BY <1>0, <2>4
  <1>16. ASSUME NEW p \in Processes, NEW ms \in SUBSET redis.delayed, FetchDue(p, ms) PROVE Goal
    <2>1. Kept
      BY <1>16 DEF FetchDue, Somewhere
    <2>. QED
      BY <1>0, <2>1
  <1>17. ASSUME NEW p \in Processes, NEW done \in BOOLEAN, NEW answer, NEW ms \in SUBSET mem[p].delayed,
                RemoveDue(p, ms, done, answer)
         PROVE  Goal
    <2>1. p = Scheduler /\ ms = {} /\ due[p] = {}
      BY <1>17 DEF RemoveDue, Tidy, TypeOK, Processes
    <2>2. /\ UNCHANGED <<hand, executions, accepted, early>> /\ harmed \subseteq harmed'
          /\ redis'.stream = redis.stream /\ redis'.list = redis.list
          /\ redis'.delayed = IF done THEN redis.delayed \ fetched[p] ELSE redis.delayed
      BY <1>17 DEF RemoveDue, TypeOK
    <2>3. \A q \in Processes : due[q] \subseteq due'[q]
      BY <1>17, <2>1 DEF RemoveDue, RemoveFailed, DueInMemory, TypeOK
    <2>4. mem' = mem \/ mem' = [mem EXCEPT ![p].delayed = @ \ {}]
      BY <1>17, <2>1 DEF RemoveDue, RemoveFailed, DueInMemory
    <2>5. \A q \in Processes : mem'[q].jobs = mem[q].jobs /\ mem'[q].delayed = mem[q].delayed
      BY <2>4 DEF TypeOK
    <2>6. done => fetched[p] \subseteq due'[p] \/ fetched[p] \subseteq harmed'
      BY <1>17 DEF RemoveDue, TypeOK
    <2>7. \A n : Somewhere(n) => Somewhere(n)'
      BY <2>2, <2>3, <2>5, <2>6 DEF Somewhere
    <2>8. Kept
      BY <2>2, <2>7
    <2>. QED
      BY <1>0, <2>8
  <1>18. ASSUME UNCHANGED vars PROVE Goal
    <2>1. Kept
      BY <1>18 DEF vars, Somewhere
    <2>. QED
      BY <1>0, <2>1
  <1>. HIDE DEF server, process, moving, slots, history, bounds
  <1>19. Goal
    BY NextCases, <1>2, <1>3, <1>4, <1>5, <1>6, <1>7, <1>8, <1>10, <1>11, <1>12, <1>13, <1>14, <1>15, <1>16,
       <1>17, <1>18
  <1>. QED
    BY <1>19 DEF Goal

(***************************************************************************)
(* The theorems                                                            *)
(***************************************************************************)
LEMMA InitIInv == Init => IInv
  <1> SUFFICES ASSUME Init PROVE IInv
    OBVIOUS
  <1>1. /\ \A p \in Processes : mem[p] = NoQueues /\ fetched[p] = {} /\ due[p] = {} /\ mode[p] = "down"
        /\ \A s \in Slots : hand[s] = None
        /\ accepted = {} /\ \A m \in Messages : executions[m] = 0
        /\ redis.stream = {} /\ redis.missed = {} /\ redis.pel = {} /\ redis.list = {} /\ redis.delayed = {}
    BY DEF Init
  <1>2. NoQueues.jobs = {} /\ NoQueues.delayed = {}
    BY DEF NoQueues
  <1>3. TypeOK /\ Tidy
    BY InitType, TidyInit
  <1>4. ModesAgree
    BY <1>1 DEF ModesAgree, Processes
  <1>5. PlacedIsAccepted
    BY <1>1, <1>2 DEF PlacedIsAccepted
  <1>6. \A m \in Messages : Only(m, "nowhere", None)
    BY <1>3, <1>5, <1>1, NewIsNowhere
  <1>7. OneLive /\ SpentIsGone
    BY <1>1, <1>6 DEF OneLive, SpentIsGone, Spots, Holders
  <1>8. RetryFollows /\ Accounted /\ EarlyKnown
    BY <1>1 DEF RetryFollows, Accounted, EarlyKnown
  <1>. QED
    BY <1>3, <1>4, <1>5, <1>7, <1>8 DEF IInv

LEMMA StepIInv == IInv /\ [Next]_vars => IInv'
  <1> SUFFICES ASSUME IInv, [Next]_vars PROVE IInv'
    OBVIOUS
  <1>1. /\ TypeOK /\ ModesAgree /\ Tidy /\ PlacedIsAccepted
        /\ OneLive /\ SpentIsGone /\ RetryFollows /\ Accounted /\ EarlyKnown
    BY DEF IInv
  <1>2. TypeOK' /\ ModesAgree' /\ PlacedIsAccepted' /\ EarlyKnown'
    BY <1>1, StepType, ModesStep, PlacedStep, EarlyStep
  <1>3. Tidy'
    BY <1>1, <1>2, TidyStep
  <1>4. OneLive' /\ SpentIsGone'
    BY <1>1, LiveStep
  <1>5. RetryFollows'
    BY <1>1, <1>2, <1>4, RetryStep
  <1>6. Accounted'
    BY <1>1, <1>4, AccountedStep
  <1>. QED
    BY <1>2, <1>3, <1>4, <1>5, <1>6 DEF IInv

\* The inductive invariant holds in every state.
THEOREM ModesInvariant == Spec => []IInv
  BY InitIInv, StepIInv, PTL DEF Spec

\* Whatever fails, dies or starts again, and although a command without an
\* answer leaves a message in Redis and in a memory: no message is executed
\* twice, and one that was not executed is still somewhere, was taken along by
\* a command without an answer or by a process that died, or was sent before
\* the group existed (queue.py).
THEOREM OnceOrAccounted == Spec => []NeitherTwiceNorLost
  <1>1. IInv => NeitherTwiceNorLost
    BY DEF IInv, NeitherTwiceNorLost, AtMostOnce, SpentIsGone, TypeOK
  <1>. QED
    BY <1>1, ModesInvariant, PTL

\* All processes that use Redis use one queue, whenever each of them learned
\* whether it knows streams, and a worker that reads the stream has a group to
\* read it with.
THEOREM OneQueueForAll == Spec => []OneQueue
  <1>1. IInv => OneQueue
    <2> SUFFICES ASSUME TypeOK, ModesAgree PROVE OneQueue
      BY DEF IInv
    <2>1. redis.stream \cup redis.missed = {} \/ redis.list = {}
      BY DEF ModesAgree, TypeOK
    <2>2. ASSUME NEW w \in Workers, OnRedis(w)
          PROVE  IF modern THEN Uses(w) = "stream" /\ group ELSE Uses(w) = "list"
      BY <2>2 DEF ModesAgree, TypeOK, OnRedis, Uses, Processes
    <2>. QED
      BY <2>1, <2>2 DEF OneQueue
  <1>. QED
    BY <1>1, ModesInvariant, PTL
===================================================================================

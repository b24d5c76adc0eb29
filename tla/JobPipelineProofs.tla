--------------------------- MODULE JobPipelineProofs ---------------------------
(***************************************************************************)
(* Proofs about JobPipeline, for every set of jobs, runs, workers and      *)
(* clients, every retry policy and every number of crashes: what carries   *)
(* the messages, the index, the refinement of RunLifecycle, and what the   *)
(* overlap guard still guarantees.                                         *)
(***************************************************************************)
EXTENDS JobPipeline, TLAPS

USE PipelineAssumption

(***************************************************************************)
(* Type correctness                                                        *)
(***************************************************************************)

\* A message for the next attempt is a message.
LEMMA NextAttemptType ==
  ASSUME NEW m \in Message
  PROVE  NextAttempt(m) \in Message /\ NextAttempt(m).run = m.run
                                    /\ NextAttempt(m).attempt = m.attempt + 1
  BY DEF NextAttempt, Message

\* A process that is not idle and not between two payloads holds a message.
LEMMA HandType ==
  ASSUME TypeOK, NEW a \in Actors, pc[a] \notin {"idle", "due"}
  PROVE  hand[a] \in Message /\ hand[a] # NoMsg /\ hand[a].run \in Runs
           /\ hand[a].attempt \in Nat /\ JobOf[hand[a].run] \in Jobs
  BY DEF TypeOK, Message

LEMMA InitType == Init => TypeOK
  BY DEF Init, TypeOK, Statuses, Sources, Labels, Refreshing, Actors

LEMMA StepType == TypeOK /\ [Next]_vars => TypeOK'
  <1> SUFFICES ASSUME TypeOK, [Next]_vars PROVE TypeOK'
    OBVIOUS
  <1> USE DEF TypeOK, Labels, Refreshing
  <1>1. ASSUME NEW a \in Actors, SaveQueued(a) PROVE TypeOK'
    BY <1>1, HandType DEF Actors, SaveQueued, SavedAttempt, Goto, Statuses, records, queues, ghosts
  <1>2. ASSUME NEW a \in Actors, IndexRemove(a) PROVE TypeOK'
    <2>1. index' \in [Jobs -> SUBSET Runs]
      BY <1>2 DEF IndexRemove, Unindexed
    <2>2. a = Scheduler => pc[a] # "finish_srem"
      BY <1>2
    <2>3. CASE Release(a) /\ pc[a] = "finish_srem"
      BY <1>2, <2>1, <2>2, <2>3 DEF Actors, IndexRemove, Goto, Release, records, queues, ghosts
    <2>4. CASE UNCHANGED hand /\ Goto(a, IF pc[a] = "queued_srem" THEN "queued_sadd"
                                         ELSE IF pc[a] = "start_srem" THEN "start_sadd" ELSE "retry")
      BY <1>2, <2>1, <2>4, HandType DEF Actors, IndexRemove, Goto, records, queues, ghosts
    <2>. QED
      BY <1>2, <2>3, <2>4 DEF IndexRemove, Goto
  <1>3. ASSUME NEW a \in Actors, IndexAdd(a) PROVE TypeOK'
    BY <1>3, HandType DEF Actors, IndexAdd, Indexed, Goto, records, queues, ghosts
  <1>4. ASSUME NEW a \in Actors, Enqueue(a) PROVE TypeOK'
    <2>0. pc[a] = "enqueue" /\ hand[a] \in Message
      BY <1>4, HandType DEF Enqueue
    <2>1. stream' \in Seq(Message)
      <3>1. stream' = Append(stream, hand[a])
        BY <1>4 DEF Enqueue, Appended
      <3>2. stream \in Seq(Message)
        OBVIOUS
      <3> HIDE DEF TypeOK
      <3>. QED
        BY <2>0, <3>1, <3>2
    <2>2. AfterEnqueue(a) \in {"idle", "due"} /\ (AfterEnqueue(a) = "due" => a = Scheduler)
      BY DEF AfterEnqueue
    <2>3. a = Scheduler /\ due # {} => AfterEnqueue(a) = "due"
      BY DEF AfterEnqueue
    <2>. QED
      BY <1>4, <2>0, <2>1, <2>2, <2>3 DEF Actors, Enqueue, Goto, records, ghosts
  <1>5. ASSUME NEW j \in Jobs, NEW r \in Runs, Dispatch(j, r) PROVE TypeOK'
    <2>1. [run |-> r, attempt |-> 0, pool |-> JobPool[j]] \in Message
      BY DEF Message
    <2>. QED
      BY <1>5, <2>1 DEF Dispatch, Goto, Sources, Actors, records, queues
  <1>6. ASSUME NEW j \in Jobs, Skip(j) PROVE TypeOK'
    BY <1>6 DEF Skip, records, queues, ghosts
  <1>7. ASSUME NEW ripe \in SUBSET delayed, PopDue(ripe) PROVE TypeOK'
    BY <1>7 DEF PopDue, NotDue, Goto, Actors, records, ghosts
  <1>8. ASSUME NEW m \in due, TakeDue(m) PROVE TypeOK'
    BY <1>8 DEF TakeDue, RestOfBatch, Goto, Actors, records, ghosts
  <1>9. ASSUME NEW c \in Clients, NEW r \in Runs, ManualRun(c, r) PROVE TypeOK'
    <2>1. [run |-> r, attempt |-> 0, pool |-> DefaultPool] \in Message
      BY DEF Message
    <2>. QED
      BY <1>9, <2>1 DEF ManualRun, Goto, Sources, Actors, records, queues
  <1>10. ASSUME NEW r \in Runs, FireTrigger(r) PROVE TypeOK'
    <2>1. [run |-> r, attempt |-> 0, pool |-> DefaultPool] \in Message
      BY DEF Message
    <2>. QED
      BY <1>10, <2>1 DEF FireTrigger, Sources, records
  <1>11. ASSUME NEW w \in Workers, Dequeue(w) PROVE TypeOK'
    <2>1. Head(stream) \in Message /\ Tail(stream) \in Seq(Message)
      BY <1>11 DEF Dequeue
    <2>. QED
      BY <1>11, <2>1 DEF Dequeue, Undelivered, Goto, Actors, records, ghosts
  <1>12. ASSUME NEW w \in Workers, Drop(w) PROVE TypeOK'
    BY <1>12, HandType DEF Drop, StreamAfterDrop, Release, Goto, Actors, records
  <1>13. ASSUME NEW w \in Workers, StartRun(w) PROVE TypeOK'
    BY <1>13, HandType DEF StartRun, Goto, Statuses, Actors, queues, ghosts
  <1>14. ASSUME NEW w \in Workers, NEW o \in {"success", "failed"}, FinishRun(w, o) PROVE TypeOK'
    BY <1>14, HandType DEF FinishRun, Goto, Statuses, Actors, queues, ghosts
  <1>15. ASSUME NEW w \in Workers, AbortRun(w) PROVE TypeOK'
    BY <1>15 DEF AbortRun, Goto, Actors, records, queues, ghosts
  <1>16. ASSUME NEW w \in Workers, Retry(w) PROVE TypeOK'
    BY <1>16, HandType, NextAttemptType DEF Retry, Release, Goto, Actors, records
  <1>17. ASSUME NEW a \in Actors, Crash(a) PROVE TypeOK'
    <2>1. InHand(a) \subseteq Runs /\ Batch(a) \subseteq Runs
      BY DEF InHand, Batch, Message
    <2>. QED
      BY <1>17, <2>1 DEF Crash, Release, Goto, Actors, records
  <1>18. CASE UNCHANGED vars
    BY <1>18 DEF vars, records, queues, ghosts
  <1>. QED
    BY <1>1, <1>2, <1>3, <1>4, <1>5, <1>6, <1>7, <1>8, <1>9, <1>10, <1>11, <1>12, <1>13,
       <1>14, <1>15, <1>16, <1>17, <1>18, ZenonT(30)
    DEF Next, SaveStep, SchedulerStep, ClientStep, WorkerStep

\* In every reachable state each variable has its type, a process holds a
\* message exactly while it works on one, and only the process a program
\* label belongs to is ever at it.
THEOREM TypeCorrect == Spec => []TypeOK
  BY InitType, StepType, PTL DEF Spec

(***************************************************************************)
(* The inductive invariant.  OneCarrier alone is not inductive: that a     *)
(* fresh run id is not yet carried, and which status and attempt a record  *)
(* has while its message is at a given place, are what keeps a second      *)
(* message from appearing.                                                 *)
(***************************************************************************)

\* What the record of a message that waits for a worker looks like: queued
\* with the same attempt, or missing (a trigger's message).
AwaitsWorker(m) ==
  \/ status[m.run] = "queued" /\ attempt[m.run] = m.attempt
  \/ status[m.run] = "none" /\ m.attempt = 0

\* What it looks like while a retry waits for its time.
AwaitsTime(m) ==
  /\ status[m.run] \in {"failed", "running"}
  /\ m.attempt = attempt[m.run] + 1
  /\ m.attempt <= MaxRetry[JobOf[m.run]]

\* There is no record while a dispatch or a client's request saves a new run.
Unrecorded(m) == status[m.run] = "none" /\ m.attempt = 0

\* What it looks like while a process at label l works on the message.
InProgress(m, l) ==
  /\ l = "save_queued" => AwaitsTime(m) \/ Unrecorded(m)
  /\ l \in {"queued_srem", "queued_sadd", "enqueue"} => status[m.run] = "queued"
  /\ l = "got" => AwaitsWorker(m)
  /\ l \in {"start_srem", "start_sadd", "exec"} => status[m.run] = "running"
  /\ l = "finish_srem" => status[m.run] \in {"success", "failed"}
  /\ l = "retry" => status[m.run] \in {"running", "failed"}
  /\ l \notin {"save_queued", "got"} => m.attempt = attempt[m.run]

StreamStage  == \A i \in 1..Len(stream) : AwaitsWorker(stream[i])
DelayedStage == \A m \in delayed \cup due : AwaitsTime(m)
HandStage    == \A a \in Actors : hand[a] # NoMsg => InProgress(hand[a], pc[a])

FreshInv   == \A r \in Runs : Fresh(r) => status[r] = "none" /\ ~Carried(r) /\ r \notin orphaned
AttemptInv == \A r \in Runs : /\ attempt[r] <= MaxRetry[JobOf[r]]
                              /\ status[r] = "none" => attempt[r] = 0
OrphanInv  == \A r \in orphaned : ~Carried(r)

IInv ==
  /\ TypeOK /\ OneCarrier
  /\ StreamStage /\ DelayedStage /\ HandStage
  /\ FreshInv /\ AttemptInv /\ OrphanInv
  /\ OncePerAttempt /\ ActiveIsCarried

(***************************************************************************)
(* How the messages move                                                   *)
(***************************************************************************)
Carriers == <<stream, delayed, due, hand>>

\* The message a process holds is nowhere else.
LEMMA Elsewhere ==
  ASSUME TypeOK, OneCarrier, NEW a \in Actors, hand[a] # NoMsg
  PROVE  /\ hand[a].run \in Runs /\ InHands(hand[a].run) /\ Carried(hand[a].run)
         /\ \A i \in 1..Len(stream) : stream[i].run # hand[a].run
         /\ \A m \in delayed \cup due : m.run # hand[a].run
         /\ \A b \in Actors \ {a} : hand[b] # NoMsg => hand[b].run # hand[a].run
  <1>1. hand[a].run \in Runs
    BY DEF TypeOK, Message
  <1>2. InHands(hand[a].run)
    BY DEF InHands
  <1>3. ~InStream(hand[a].run) /\ ~InDelayed(hand[a].run) /\ ~InDue(hand[a].run)
    BY <1>1, <1>2 DEF OneCarrier, OnePlace
  <1>4. \A b \in Actors \ {a} : hand[b] # NoMsg => hand[b].run # hand[a].run
    BY DEF OneCarrier, HandsUnique
  <1>. QED
    BY <1>1, <1>2, <1>3, <1>4 DEF InStream, InDelayed, InDue, Carried

\* Nothing moves when the four places are unchanged.
LEMMA NothingMoves ==
  ASSUME OneCarrier, UNCHANGED Carriers
  PROVE  OneCarrier' /\ \A r \in Runs : Carried(r)' <=> Carried(r)
  BY DEF Carriers, OneCarrier, StreamUnique, DelayedUnique, DueUnique, HandsUnique, OnePlace,
         Carried, InStream, InDelayed, InDue, InHands

\* A process lets go of its message.
LEMMA LetGo ==
  ASSUME TypeOK, OneCarrier, NEW a \in Actors, hand[a] # NoMsg,
         hand' = [hand EXCEPT ![a] = NoMsg]
  PROVE  HandsUnique' /\ \A r \in Runs : InHands(r)' <=> InHands(r) /\ r # hand[a].run
  <1>1. \A b \in Actors : hand'[b] = IF b = a THEN NoMsg ELSE hand[b]
    BY DEF TypeOK
  <1>. QED
    BY <1>1 DEF OneCarrier, HandsUnique, InHands

\* An idle process takes a message that nobody holds.
LEMMA Grasp ==
  ASSUME TypeOK, OneCarrier, NEW a \in Actors, hand[a] = NoMsg, NEW m \in Message,
         ~InHands(m.run), hand' = [hand EXCEPT ![a] = m]
  PROVE  /\ HandsUnique' /\ hand'[a] = m /\ \A b \in Actors \ {a} : hand'[b] = hand[b]
         /\ \A r \in Runs : InHands(r)' <=> InHands(r) \/ r = m.run
  <1>1. \A b \in Actors : hand'[b] = IF b = a THEN m ELSE hand[b]
    BY DEF TypeOK
  <1>2. m # NoMsg
    OBVIOUS
  <1>. QED
    BY <1>1, <1>2 DEF OneCarrier, HandsUnique, InHands

\* A message is appended to the stream.
LEMMA Appending ==
  ASSUME TypeOK, OneCarrier, NEW m \in Message, ~InStream(m.run), stream' = Append(stream, m)
  PROVE  /\ StreamUnique'
         /\ \A r \in Runs : InStream(r)' <=> InStream(r) \/ r = m.run
         /\ \A i \in 1..Len(stream') : stream'[i] = m \/ \E k \in 1..Len(stream) : stream'[i] = stream[k]
  <1>1. stream \in Seq(Message)
    BY DEF TypeOK
  <1>2. /\ Len(stream') = Len(stream) + 1 /\ Len(stream) \in Nat
        /\ \A i \in 1..Len(stream) : stream'[i] = stream[i]
        /\ stream'[Len(stream) + 1] = m
    BY <1>1
  <1>3. \A i \in 1..Len(stream) : stream[i].run # m.run
    BY DEF InStream
  <1>4. \A i \in 1..Len(stream') : i \in 1..Len(stream) \/ i = Len(stream) + 1
    BY <1>2
  <1>5. StreamUnique
    BY DEF OneCarrier
  <1>6. StreamUnique'
    <2> SUFFICES ASSUME NEW i \in 1..Len(stream'), NEW k \in 1..Len(stream'),
                        stream'[i].run = stream'[k].run
                 PROVE i = k
      BY DEF StreamUnique
    <2>1. CASE i \in 1..Len(stream) /\ k \in 1..Len(stream)
      BY <1>2, <1>5, <2>1 DEF StreamUnique
    <2>2. CASE i \in 1..Len(stream) /\ k = Len(stream) + 1
      BY <1>2, <1>3, <2>2
    <2>3. CASE i = Len(stream) + 1 /\ k \in 1..Len(stream)
      BY <1>2, <1>3, <2>3
    <2>. QED
      BY <1>4, <2>1, <2>2, <2>3
  <1>7. \A r \in Runs : InStream(r)' <=> InStream(r) \/ r = m.run
    BY <1>2, <1>4 DEF InStream
  <1>. QED
    BY <1>2, <1>4, <1>6, <1>7

\* The first message of the stream is delivered.
LEMMA Delivering ==
  ASSUME TypeOK, OneCarrier, stream # <<>>, stream' = Tail(stream)
  PROVE  /\ StreamUnique'
         /\ Head(stream) = stream[1] /\ 1 \in 1..Len(stream)
         /\ Head(stream) \in Message /\ InStream(Head(stream).run)
         /\ \A r \in Runs : InStream(r)' <=> InStream(r) /\ r # Head(stream).run
         /\ \A i \in 1..Len(stream') : \E k \in 1..Len(stream) : stream'[i] = stream[k]
  <1>1. stream \in Seq(Message)
    BY DEF TypeOK
  <1>2. /\ Len(stream) \in Nat \ {0} /\ Len(stream') = Len(stream) - 1
        /\ \A i \in 1..Len(stream') : stream'[i] = stream[i + 1] /\ i + 1 \in 1..Len(stream)
        /\ Head(stream) = stream[1]
    BY <1>1
  <1>3. \A k \in 1..Len(stream) : k = 1 \/ (k - 1 \in 1..Len(stream') /\ (k - 1) + 1 = k)
    BY <1>2
  <1>4. StreamUnique
    BY DEF OneCarrier
  <1>5. StreamUnique'
    <2> SUFFICES ASSUME NEW i \in 1..Len(stream'), NEW k \in 1..Len(stream'),
                        stream'[i].run = stream'[k].run
                 PROVE i = k
      BY DEF StreamUnique
    <2>1. i + 1 = k + 1
      BY <1>2, <1>4 DEF StreamUnique
    <2>. QED
      BY <2>1
  <1>6. 1 \in 1..Len(stream) /\ Head(stream) \in Message
    BY <1>1, <1>2
  <1>7. ASSUME NEW r \in Runs PROVE InStream(r)' <=> InStream(r) /\ r # Head(stream).run
    <2>1. ASSUME NEW i \in 1..Len(stream'), stream'[i].run = r
          PROVE InStream(r) /\ r # Head(stream).run
      <3>1. i + 1 \in 1..Len(stream) /\ stream[i + 1].run = r /\ i + 1 # 1
        BY <1>2, <2>1
      <3>. QED
        BY <1>2, <1>4, <1>6, <3>1 DEF InStream, StreamUnique
    <2>2. ASSUME NEW k \in 1..Len(stream), stream[k].run = r, r # Head(stream).run
          PROVE InStream(r)'
      <3>1. k - 1 \in 1..Len(stream') /\ stream'[k - 1] = stream[k]
        BY <1>2, <1>3, <2>2
      <3>. QED
        BY <2>2, <3>1 DEF InStream
    <2>. QED
      BY <2>1, <2>2 DEF InStream
  <1>. QED
    BY <1>2, <1>5, <1>6, <1>7 DEF InStream

(***************************************************************************)
(* The two kinds of step: a process works on the record of the message it  *)
(* holds, or a message moves and every record stays as it is.              *)
(***************************************************************************)

\* A step that only touches the record and the label of the process that
\* holds the record's message.
LEMMA RecordStep ==
  ASSUME IInv, TypeOK', NEW a \in Actors, hand[a] # NoMsg,
         UNCHANGED Carriers, UNCHANGED <<source, orphaned>>,
         \A b \in Actors \ {a} : pc'[b] = pc[b],
         \A s \in Runs \ {hand[a].run} :
            status'[s] = status[s] /\ attempt'[s] = attempt[s] /\ executions'[s] = executions[s],
         InProgress(hand[a], pc[a])',
         attempt'[hand[a].run] <= MaxRetry[JobOf[hand[a].run]],
         status'[hand[a].run] # "none",
         executions'[hand[a].run] = IF status'[hand[a].run] = "queued" THEN attempt'[hand[a].run]
                                                                      ELSE attempt'[hand[a].run] + 1
  PROVE  IInv'
  <1> DEFINE r == hand[a].run
  <1>0. TypeOK /\ OneCarrier
    BY DEF IInv
  <1>1. OneCarrier' /\ \A s \in Runs : Carried(s)' <=> Carried(s)
    BY <1>0, NothingMoves
  <1>2. /\ r \in Runs /\ Carried(r)
        /\ \A i \in 1..Len(stream) : stream[i].run # r
        /\ \A m \in delayed \cup due : m.run # r
        /\ \A b \in Actors \ {a} : hand[b] # NoMsg => hand[b].run # r
    BY <1>0, Elsewhere
  <1>3. UNCHANGED stream /\ UNCHANGED delayed /\ UNCHANGED due /\ UNCHANGED hand
    BY DEF Carriers
  <1>4. StreamStage'
    <2> SUFFICES ASSUME NEW i \in 1..Len(stream') PROVE AwaitsWorker(stream[i])'
      BY DEF StreamStage
    <2>1. stream' = stream /\ i \in 1..Len(stream) /\ stream[i] \in Message
      BY <1>0, <1>3 DEF TypeOK
    <2>2. stream[i].run \in Runs \ {r} /\ AwaitsWorker(stream[i])
      BY <1>2, <2>1 DEF IInv, StreamStage, Message
    <2>. QED
      BY <2>1, <2>2 DEF AwaitsWorker
  <1>5. DelayedStage'
    <2> SUFFICES ASSUME NEW m \in (delayed \cup due)' PROVE AwaitsTime(m)'
      BY DEF DelayedStage
    <2>1. m \in delayed \cup due /\ m \in Message
      BY <1>0, <1>3 DEF TypeOK
    <2>2. m.run \in Runs \ {r} /\ AwaitsTime(m)
      BY <1>2, <2>1 DEF IInv, DelayedStage, Message
    <2>. QED
      BY <2>2 DEF AwaitsTime
  <1>6. HandStage'
    <2> SUFFICES ASSUME NEW b \in Actors, hand'[b] # NoMsg PROVE InProgress(hand[b], pc[b])'
      BY DEF HandStage
    <2>1. CASE b = a
      BY <2>1
    <2>2. CASE b # a
      <3>1. hand'[b] = hand[b] /\ pc'[b] = pc[b] /\ hand[b] \in Message
        BY <1>0, <1>3, <2>2 DEF TypeOK
      <3>2. hand[b].run \in Runs \ {r} /\ InProgress(hand[b], pc[b])
        BY <1>2, <2>2, <3>1 DEF IInv, HandStage, Message
      <3>. QED
        BY <3>1, <3>2 DEF InProgress, AwaitsTime, Unrecorded, AwaitsWorker
    <2>. QED
      BY <2>1, <2>2
  <1>7. ~Fresh(r)
    BY <1>2 DEF IInv, FreshInv
  <1>8. FreshInv'
    BY <1>1, <1>2, <1>7 DEF IInv, FreshInv, Fresh
  <1>9. AttemptInv'
    BY <1>2 DEF IInv, AttemptInv
  <1>10. OrphanInv'
    BY <1>0, <1>1 DEF IInv, OrphanInv, TypeOK
  <1>11. OncePerAttempt'
    BY <1>2 DEF IInv, OncePerAttempt
  <1>12. ActiveIsCarried'
    BY <1>1, <1>2 DEF IInv, ActiveIsCarried
  <1>. QED
    BY <1>1, <1>4, <1>5, <1>6, <1>8, <1>9, <1>10, <1>11, <1>12 DEF IInv

\* A step that moves messages and writes no record.
LEMMA MoveStep ==
  ASSUME IInv, TypeOK', OneCarrier', StreamStage', DelayedStage', HandStage',
         UNCHANGED records,
         \A r \in Runs : Carried(r)' => Carried(r) \/ (Fresh(r) /\ ~Fresh(r)'),
         \A r \in Runs : Fresh(r)' => Fresh(r),
         \A r \in orphaned' : r \in Runs /\ ~Carried(r)' /\ ~Fresh(r)',
         \A r \in Runs : r \in orphaned => r \in orphaned',
         \A r \in Runs : status[r] \in Active /\ Carried(r) => Carried(r)' \/ r \in orphaned'
  PROVE  IInv'
  <1>1. UNCHANGED status /\ UNCHANGED attempt /\ UNCHANGED executions
    BY DEF records
  <1>2. FreshInv'
    BY <1>1 DEF IInv, FreshInv
  <1>3. AttemptInv' /\ OncePerAttempt'
    BY <1>1 DEF IInv, AttemptInv, OncePerAttempt
  <1>4. OrphanInv'
    BY DEF OrphanInv
  <1>5. ActiveIsCarried'
    BY <1>1 DEF IInv, ActiveIsCarried
  <1>. QED
    BY <1>2, <1>3, <1>4, <1>5 DEF IInv

(***************************************************************************)
(* Record steps                                                            *)
(***************************************************************************)
LEMMA SaveQueuedInv == ASSUME IInv, TypeOK', NEW a \in Actors, SaveQueued(a) PROVE IInv'
  <1> DEFINE m == hand[a]
             r == hand[a].run
  <1>1. TypeOK /\ pc[a] = "save_queued"
    BY DEF IInv, SaveQueued
  <1>2. m \in Message /\ m # NoMsg /\ r \in Runs
    BY <1>1, HandType
  <1>3. AwaitsTime(m) \/ Unrecorded(m)
    BY <1>1, <1>2 DEF IInv, HandStage, InProgress
  <1>4. /\ UNCHANGED Carriers /\ UNCHANGED <<source, orphaned>>
        /\ \A b \in Actors \ {a} : pc'[b] = pc[b]
        /\ \A s \in Runs \ {r} : status'[s] = status[s] /\ attempt'[s] = attempt[s] /\ executions'[s] = executions[s]
    BY <1>1 DEF SaveQueued, SavedAttempt, Goto, queues, ghosts, Carriers, TypeOK
  <1>5. /\ status'[r] = "queued" /\ attempt'[r] = m.attempt /\ executions'[r] = executions[r]
        /\ pc'[a] \in {"queued_srem", "queued_sadd"}
    BY <1>1, <1>2 DEF SaveQueued, SavedAttempt, Goto, TypeOK
  <1>6. InProgress(hand[a], pc[a])'
    <2>1. hand' = hand
      BY <1>4 DEF Carriers
    <2>. QED
      BY <1>5, <2>1 DEF InProgress
  <1>7. executions[r] = IF status[r] = "none" THEN attempt[r] ELSE attempt[r] + 1
    BY <1>2, <1>3 DEF IInv, OncePerAttempt, AwaitsTime, Unrecorded
  <1>8. attempt'[r] <= MaxRetry[JobOf[r]] /\ executions'[r] = attempt'[r]
    BY <1>2, <1>3, <1>5, <1>7 DEF IInv, AttemptInv, AwaitsTime, Unrecorded
  <1>. QED
    BY <1>2, <1>4, <1>5, <1>6, <1>8, RecordStep

LEMMA StartRunInv == ASSUME IInv, TypeOK', NEW w \in Workers, StartRun(w) PROVE IInv'
  <1> DEFINE m == hand[w]
             r == hand[w].run
  <1>1. TypeOK /\ pc[w] = "got" /\ w \in Actors
    BY DEF IInv, StartRun, Actors
  <1>2. m \in Message /\ m # NoMsg /\ r \in Runs
    BY <1>1, HandType
  <1>3. AwaitsWorker(m)
    BY <1>1, <1>2 DEF IInv, HandStage, InProgress
  <1>4. /\ UNCHANGED Carriers /\ UNCHANGED <<source, orphaned>>
        /\ \A b \in Actors \ {w} : pc'[b] = pc[b]
        /\ \A s \in Runs \ {r} : status'[s] = status[s] /\ attempt'[s] = attempt[s] /\ executions'[s] = executions[s]
    BY <1>1 DEF StartRun, Goto, queues, ghosts, Carriers, TypeOK
  <1>5. /\ status'[r] = "running" /\ attempt'[r] = m.attempt /\ executions'[r] = executions[r] + 1
        /\ pc'[w] \in {"start_srem", "start_sadd"}
    BY <1>1, <1>2, <1>3 DEF StartRun, Goto, TypeOK, AwaitsWorker
  <1>6. InProgress(hand[w], pc[w])'
    <2>1. hand' = hand
      BY <1>4 DEF Carriers
    <2>. QED
      BY <1>5, <2>1 DEF InProgress
  <1>7. attempt[r] = m.attempt /\ executions[r] = attempt[r] /\ attempt[r] <= MaxRetry[JobOf[r]]
    BY <1>2, <1>3 DEF IInv, OncePerAttempt, AttemptInv, AwaitsWorker
  <1>. QED
    BY <1>1, <1>2, <1>4, <1>5, <1>6, <1>7, RecordStep

\* The steps of a process that leave the attempt and the executions alone.
LEMMA LabelStep ==
  ASSUME IInv, TypeOK', NEW a \in Actors, hand[a] # NoMsg,
         UNCHANGED <<attempt, executions>>, UNCHANGED Carriers, UNCHANGED <<source, orphaned>>,
         \A b \in Actors \ {a} : pc'[b] = pc[b],
         \A s \in Runs \ {hand[a].run} : status'[s] = status[s],
         InProgress(hand[a], pc[a])',
         \/ status'[hand[a].run] = status[hand[a].run] /\ status[hand[a].run] # "none"
         \/ {status[hand[a].run], status'[hand[a].run]} \subseteq {"running", "success", "failed"}
  PROVE  IInv'
  <1> DEFINE r == hand[a].run
  <1>1. r \in Runs /\ UNCHANGED attempt /\ UNCHANGED executions
    BY DEF IInv, TypeOK, Message
  <1>2. /\ status'[r] # "none" /\ status[r] # "none"
        /\ status'[r] = "queued" <=> status[r] = "queued"
    OBVIOUS
  <1>3. attempt[r] <= MaxRetry[JobOf[r]] /\ executions[r] = IF status[r] = "queued" THEN attempt[r] ELSE attempt[r] + 1
    BY <1>1, <1>2 DEF IInv, AttemptInv, OncePerAttempt
  <1>. QED
    BY <1>1, <1>2, <1>3, RecordStep

LEMMA IndexRemoveStayInv ==
  ASSUME IInv, TypeOK', NEW a \in Actors, IndexRemove(a), UNCHANGED hand PROVE IInv'
  <1>1. TypeOK /\ pc[a] \in {"queued_srem", "start_srem", "finish_srem"}
    BY DEF IInv, IndexRemove
  <1>2. hand[a] \in Message /\ hand[a] # NoMsg /\ hand[a].run \in Runs
    BY <1>1, HandType
  <1>3. InProgress(hand[a], pc[a])
    BY <1>2 DEF IInv, HandStage
  <1>4. /\ UNCHANGED records /\ UNCHANGED Carriers /\ UNCHANGED <<source, orphaned>>
        /\ \A b \in Actors \ {a} : pc'[b] = pc[b]
    BY <1>1 DEF IndexRemove, Goto, Release, queues, ghosts, Carriers, TypeOK
  <1>5. \/ pc[a] = "queued_srem" /\ pc'[a] = "queued_sadd"
        \/ pc[a] = "start_srem" /\ pc'[a] = "start_sadd"
        \/ pc[a] = "finish_srem" /\ status[hand[a].run] # "success" /\ pc'[a] = "retry"
    <2>1. ~Release(a)
      BY <1>1, <1>2 DEF Release, TypeOK
    <2>. QED
      BY <1>1, <2>1 DEF IndexRemove, Goto, TypeOK
  <1>6. status[hand[a].run] # "none" /\ InProgress(hand[a], pc[a])'
    BY <1>3, <1>4, <1>5 DEF InProgress, records
  <1>. QED
    BY <1>2, <1>4, <1>6, LabelStep DEF records

LEMMA IndexAddInv == ASSUME IInv, TypeOK', NEW a \in Actors, IndexAdd(a) PROVE IInv'
  <1>1. TypeOK /\ pc[a] \in {"queued_sadd", "start_sadd"}
    BY DEF IInv, IndexAdd
  <1>2. hand[a] \in Message /\ hand[a] # NoMsg /\ hand[a].run \in Runs
    BY <1>1, HandType
  <1>3. InProgress(hand[a], pc[a])
    BY <1>2 DEF IInv, HandStage
  <1>4. /\ UNCHANGED records /\ UNCHANGED Carriers /\ UNCHANGED <<source, orphaned>> /\ UNCHANGED hand
        /\ \A b \in Actors \ {a} : pc'[b] = pc[b]
        /\ pc'[a] = IF pc[a] = "queued_sadd" THEN "enqueue" ELSE "exec"
    BY <1>1 DEF IndexAdd, Goto, queues, ghosts, Carriers, TypeOK
  <1>5. status[hand[a].run] # "none" /\ InProgress(hand[a], pc[a])'
    BY <1>1, <1>3, <1>4 DEF InProgress, records
  <1>. QED
    BY <1>2, <1>4, <1>5, LabelStep DEF records

LEMMA FinishRunInv ==
  ASSUME IInv, TypeOK', NEW w \in Workers, NEW o \in {"success", "failed"}, FinishRun(w, o)
  PROVE  IInv'
  <1>1. TypeOK /\ pc[w] = "exec" /\ w \in Actors
    BY DEF IInv, FinishRun, Actors
  <1>2. hand[w] \in Message /\ hand[w] # NoMsg /\ hand[w].run \in Runs
    BY <1>1, HandType
  <1>3. InProgress(hand[w], pc[w])
    BY <1>1, <1>2 DEF IInv, HandStage
  <1>4. /\ UNCHANGED <<attempt, executions>> /\ UNCHANGED Carriers /\ UNCHANGED <<source, orphaned>> /\ UNCHANGED hand
        /\ \A b \in Actors \ {w} : pc'[b] = pc[b]
        /\ \A s \in Runs \ {hand[w].run} : status'[s] = status[s]
        /\ pc'[w] = "finish_srem" /\ status'[hand[w].run] = o
    BY <1>1, <1>2 DEF FinishRun, Goto, queues, ghosts, Carriers, TypeOK
  <1>5. status[hand[w].run] = "running" /\ InProgress(hand[w], pc[w])'
    BY <1>1, <1>3, <1>4 DEF InProgress
  <1>6. {status[hand[w].run], status'[hand[w].run]} \subseteq {"running", "success", "failed"}
    BY <1>4, <1>5
  <1>. QED
    BY <1>1, <1>2, <1>4, <1>5, <1>6, LabelStep

LEMMA AbortRunInv == ASSUME IInv, TypeOK', NEW w \in Workers, AbortRun(w) PROVE IInv'
  <1>1. TypeOK /\ pc[w] = "exec" /\ w \in Actors
    BY DEF IInv, AbortRun, Actors
  <1>2. hand[w] \in Message /\ hand[w] # NoMsg /\ hand[w].run \in Runs
    BY <1>1, HandType
  <1>3. InProgress(hand[w], pc[w])
    BY <1>1, <1>2 DEF IInv, HandStage
  <1>4. /\ UNCHANGED records /\ UNCHANGED Carriers /\ UNCHANGED <<source, orphaned>> /\ UNCHANGED hand
        /\ \A b \in Actors \ {w} : pc'[b] = pc[b]
        /\ pc'[w] = "retry"
    BY <1>1 DEF AbortRun, Goto, queues, ghosts, Carriers, TypeOK
  <1>5. status[hand[w].run] = "running" /\ InProgress(hand[w], pc[w])'
    BY <1>1, <1>3, <1>4 DEF InProgress, records
  <1>. QED
    BY <1>1, <1>2, <1>4, <1>5, LabelStep DEF records

(***************************************************************************)
(* Move steps                                                              *)
(***************************************************************************)

\* The stages speak about records, so they hold as long as every message
\* found after the step was at the same stage before it.
LEMMA StagesKept ==
  ASSUME IInv, UNCHANGED records
  PROVE  /\ (\A i \in 1..Len(stream') :
                AwaitsWorker(stream'[i]) \/ \E k \in 1..Len(stream) : stream'[i] = stream[k])
              => StreamStage'
         /\ (\A m \in delayed' \cup due' : AwaitsTime(m) \/ m \in delayed \cup due) => DelayedStage'
         /\ \A a \in Actors :
              /\ \A b \in Actors \ {a} : hand'[b] = hand[b] /\ pc'[b] = pc[b]
              /\ hand'[a] # NoMsg => InProgress(hand'[a], pc'[a])
              => HandStage'
  <1>1. status' = status /\ attempt' = attempt
    BY DEF records
  <1>2. StreamStage /\ DelayedStage /\ HandStage
    BY DEF IInv
  <1>3. ASSUME \A i \in 1..Len(stream') :
                AwaitsWorker(stream'[i]) \/ \E k \in 1..Len(stream) : stream'[i] = stream[k]
        PROVE StreamStage'
    <2>1. \A i \in 1..Len(stream') : AwaitsWorker(stream'[i])
      BY <1>2, <1>3 DEF StreamStage
    <2>. QED
      BY <1>1, <2>1 DEF StreamStage, AwaitsWorker
  <1>4. ASSUME \A m \in delayed' \cup due' : AwaitsTime(m) \/ m \in delayed \cup due
        PROVE DelayedStage'
    <2>1. \A m \in delayed' \cup due' : AwaitsTime(m)
      BY <1>2, <1>4 DEF DelayedStage
    <2>. QED
      BY <1>1, <2>1 DEF DelayedStage, AwaitsTime
  <1>5. ASSUME NEW a \in Actors,
               \A b \in Actors \ {a} : hand'[b] = hand[b] /\ pc'[b] = pc[b],
               hand'[a] # NoMsg => InProgress(hand'[a], pc'[a])
        PROVE HandStage'
    <2>1. \A b \in Actors : hand'[b] # NoMsg => InProgress(hand'[b], pc'[b])
      BY <1>2, <1>5 DEF HandStage
    <2>. QED
      BY <1>1, <2>1 DEF HandStage, InProgress, AwaitsTime, Unrecorded, AwaitsWorker
  <1>. QED
    BY <1>3, <1>4, <1>5

LEMMA EnqueueInv == ASSUME IInv, TypeOK', NEW a \in Actors, Enqueue(a) PROVE IInv'
  <1> DEFINE m == hand[a]
  <1>1. TypeOK /\ OneCarrier /\ pc[a] = "enqueue"
    BY DEF IInv, Enqueue
  <1>2. m \in Message /\ m # NoMsg /\ m.run \in Runs
    BY <1>1, HandType
  <1>3. /\ stream' = Append(stream, m) /\ hand' = [hand EXCEPT ![a] = NoMsg]
        /\ delayed' = delayed /\ due' = due /\ source' = source /\ orphaned' = orphaned /\ UNCHANGED records
        /\ hand'[a] = NoMsg /\ \A b \in Actors \ {a} : hand'[b] = hand[b] /\ pc'[b] = pc[b]
    BY <1>1 DEF Enqueue, Appended, Goto, ghosts, TypeOK
  <1>4. ~InStream(m.run) /\ ~InDelayed(m.run) /\ ~InDue(m.run) /\ InHands(m.run)
    BY <1>1, <1>2 DEF OneCarrier, OnePlace, InHands
  <1>5. /\ StreamUnique'
        /\ \A r \in Runs : InStream(r)' <=> InStream(r) \/ r = m.run
        /\ \A i \in 1..Len(stream') : stream'[i] = m \/ \E k \in 1..Len(stream) : stream'[i] = stream[k]
    BY <1>1, <1>2, <1>3, <1>4, Appending
  <1>6. HandsUnique' /\ \A r \in Runs : InHands(r)' <=> InHands(r) /\ r # m.run
    BY <1>1, <1>2, <1>3, LetGo
  <1>7. /\ DelayedUnique' /\ DueUnique'
        /\ \A r \in Runs : InDelayed(r)' <=> InDelayed(r)
        /\ \A r \in Runs : InDue(r)' <=> InDue(r)
    BY <1>1, <1>3 DEF OneCarrier, DelayedUnique, DueUnique, InDelayed, InDue
  <1>8. OnePlace'
    BY <1>1, <1>4, <1>5, <1>6, <1>7 DEF OneCarrier, OnePlace
  <1>9. OneCarrier'
    BY <1>5, <1>6, <1>7, <1>8 DEF OneCarrier
  <1>10. \A r \in Runs : Carried(r)' <=> Carried(r)
    BY <1>4, <1>5, <1>6, <1>7 DEF Carried
  <1>11. AwaitsWorker(m)
    BY <1>1, <1>2 DEF IInv, HandStage, InProgress, AwaitsWorker
  <1>12. StreamStage' /\ DelayedStage' /\ HandStage'
    BY <1>3, <1>5, <1>11, StagesKept
  <1>13. \A r \in orphaned : r \in Runs /\ ~Carried(r) /\ ~Fresh(r)
    BY <1>1 DEF IInv, OrphanInv, FreshInv, TypeOK
  <1>. QED
    BY <1>3, <1>9, <1>10, <1>12, <1>13, MoveStep DEF Fresh

\* A process is done with its message: it is lost, or its run has succeeded.
LEMMA ReleaseInv ==
  ASSUME IInv, TypeOK', NEW a \in Actors, hand[a] # NoMsg, Release(a),
         UNCHANGED records, UNCHANGED <<stream, delayed, due, source>>,
         orphaned' \in {orphaned, orphaned \cup {hand[a].run}},
         status[hand[a].run] \in Active => hand[a].run \in orphaned'
  PROVE  IInv'
  <1> DEFINE m == hand[a]
  <1>1. TypeOK /\ OneCarrier
    BY DEF IInv
  <1>2. m \in Message /\ m.run \in Runs
    BY <1>1 DEF TypeOK, Message
  <1>3. /\ hand' = [hand EXCEPT ![a] = NoMsg] /\ hand'[a] = NoMsg
        /\ \A b \in Actors \ {a} : hand'[b] = hand[b] /\ pc'[b] = pc[b]
    BY <1>1 DEF Release, Goto, TypeOK
  <1>4. ~InStream(m.run) /\ ~InDelayed(m.run) /\ ~InDue(m.run) /\ InHands(m.run)
    BY <1>1, <1>2 DEF OneCarrier, OnePlace, InHands
  <1>5. HandsUnique' /\ \A r \in Runs : InHands(r)' <=> InHands(r) /\ r # m.run
    BY <1>1, <1>2, <1>3, LetGo
  <1>6. /\ StreamUnique' /\ DelayedUnique' /\ DueUnique'
        /\ \A r \in Runs : InStream(r)' <=> InStream(r)
        /\ \A r \in Runs : InDelayed(r)' <=> InDelayed(r)
        /\ \A r \in Runs : InDue(r)' <=> InDue(r)
    BY <1>1 DEF OneCarrier, StreamUnique, DelayedUnique, DueUnique, InStream, InDelayed, InDue
  <1>7. OnePlace'
    BY <1>1, <1>5, <1>6 DEF OneCarrier, OnePlace
  <1>8. OneCarrier'
    BY <1>5, <1>6, <1>7 DEF OneCarrier
  <1>9. \A r \in Runs : Carried(r)' <=> Carried(r) /\ r # m.run
    BY <1>4, <1>5, <1>6 DEF Carried
  <1>10. StreamStage' /\ DelayedStage' /\ HandStage'
    BY <1>3, StagesKept
  <1>11. ~Fresh(m.run)
    BY <1>2, <1>4 DEF IInv, FreshInv, Carried
  <1>12. \A r \in orphaned' : r \in Runs /\ ~Carried(r)' /\ ~Fresh(r)'
    BY <1>1, <1>2, <1>9, <1>11 DEF IInv, OrphanInv, FreshInv, TypeOK, Fresh
  <1>. QED
    BY <1>8, <1>9, <1>10, <1>12, MoveStep DEF Fresh

LEMMA IndexRemoveInv == ASSUME IInv, TypeOK', NEW a \in Actors, IndexRemove(a) PROVE IInv'
  <1>1. TypeOK /\ pc[a] \in {"queued_srem", "start_srem", "finish_srem"}
    BY DEF IInv, IndexRemove
  <1>2. hand[a] # NoMsg
    BY <1>1, HandType
  <1>3. CASE UNCHANGED hand
    BY <1>3, IndexRemoveStayInv
  <1>4. CASE status[hand[a].run] = "success" /\ Release(a)
    <2>1. UNCHANGED records /\ UNCHANGED <<stream, delayed, due, source>> /\ orphaned' = orphaned
      BY DEF IndexRemove, queues, ghosts
    <2>2. status[hand[a].run] \notin Active
      BY <1>4 DEF Active
    <2>. QED
      BY <1>2, <1>4, <2>1, <2>2, ReleaseInv
  <1>. QED
    BY <1>3, <1>4 DEF IndexRemove

LEMMA DropInv == ASSUME IInv, TypeOK', NEW w \in Workers, Drop(w) PROVE IInv'
  <1>1. TypeOK /\ pc[w] = "got" /\ w \in Actors
    BY DEF IInv, Drop, Actors
  <1>2. hand[w] # NoMsg
    BY <1>1, HandType
  <1>3. UNCHANGED records /\ UNCHANGED <<stream, delayed, due, source>>
          /\ orphaned' = orphaned \cup {hand[w].run} /\ Release(w)
    BY DEF Drop, StreamAfterDrop
  <1>. QED
    BY <1>1, <1>2, <1>3, ReleaseInv

\* A process that holds nothing takes a message that nobody else keeps: the
\* first one of a new run id, or one it just removed from its place.
LEMMA GraspInv ==
  ASSUME IInv, TypeOK', NEW a \in Actors, hand[a] = NoMsg, NEW m \in Message,
         hand' = [hand EXCEPT ![a] = m], UNCHANGED records, orphaned' = orphaned,
         \A b \in Actors \ {a} : pc'[b] = pc[b], InProgress(m, pc'[a]),
         StreamUnique', DelayedUnique', DueUnique', StreamStage', DelayedStage',
         ~InHands(m.run),
         \A r \in Runs : InStream(r)' <=> InStream(r) /\ r # m.run,
         \A r \in Runs : InDelayed(r)' <=> InDelayed(r) /\ r # m.run,
         \A r \in Runs : InDue(r)' <=> InDue(r) /\ r # m.run,
         Carried(m.run) \/ Fresh(m.run), ~Fresh(m.run)',
         \A r \in Runs \ {m.run} : source'[r] = source[r]
  PROVE  IInv'
  <1>1. TypeOK /\ OneCarrier /\ m.run \in Runs
    BY DEF IInv, Message
  <1>2. /\ HandsUnique' /\ hand'[a] = m /\ \A b \in Actors \ {a} : hand'[b] = hand[b]
        /\ \A r \in Runs : InHands(r)' <=> InHands(r) \/ r = m.run
    BY <1>1, Grasp
  <1>3. OnePlace'
    BY <1>1, <1>2 DEF OneCarrier, OnePlace
  <1>4. OneCarrier'
    BY <1>2, <1>3 DEF OneCarrier
  <1>5. HandStage'
    BY <1>2, StagesKept
  <1>6. \A r \in Runs : Carried(r)' <=> Carried(r) \/ r = m.run
    BY <1>1, <1>2 DEF Carried
  <1>7. \A r \in Runs : Fresh(r)' => Fresh(r)
    BY DEF Fresh
  <1>8. \A r \in orphaned' : r \in Runs /\ ~Carried(r)' /\ ~Fresh(r)'
    <2>1. \A r \in orphaned : r \in Runs /\ ~Carried(r) /\ ~Fresh(r)
      BY <1>1 DEF IInv, OrphanInv, FreshInv, TypeOK
    <2>. QED
      BY <1>1, <1>6, <1>7, <2>1
  <1>. QED
    BY <1>4, <1>5, <1>6, <1>7, <1>8, MoveStep

\* A new run id is generated and its first message built.
LEMMA IssueInv ==
  ASSUME IInv, TypeOK', NEW a \in Actors, pc[a] = "idle", NEW r \in Runs, Fresh(r), NEW p \in Pools,
         hand' = [hand EXCEPT ![a] = [run |-> r, attempt |-> 0, pool |-> p]],
         Goto(a, "save_queued"), UNCHANGED records, UNCHANGED queues, orphaned' = orphaned,
         NEW o \in Sources \ {"none"}, source' = [source EXCEPT ![r] = o]
  PROVE  IInv'
  <1> DEFINE m == [run |-> r, attempt |-> 0, pool |-> p]
  <1>1. TypeOK /\ OneCarrier
    BY DEF IInv
  <1>2. m \in Message /\ m.run = r /\ m.attempt = 0
    BY DEF Message
  <1>3. hand[a] = NoMsg /\ pc'[a] = "save_queued" /\ \A b \in Actors \ {a} : pc'[b] = pc[b]
    BY <1>1 DEF TypeOK, Goto
  <1>4. status[r] = "none" /\ ~Carried(r)
    BY DEF IInv, FreshInv
  <1>5. InProgress(m, pc'[a])
    BY <1>2, <1>3, <1>4 DEF InProgress, Unrecorded
  <1>6. stream' = stream /\ delayed' = delayed /\ due' = due
    BY DEF queues
  <1>7. /\ StreamUnique' /\ DelayedUnique' /\ DueUnique'
        /\ \A s \in Runs : InStream(s)' <=> InStream(s)
        /\ \A s \in Runs : InDelayed(s)' <=> InDelayed(s)
        /\ \A s \in Runs : InDue(s)' <=> InDue(s)
    BY <1>1, <1>6 DEF OneCarrier, StreamUnique, DelayedUnique, DueUnique, InStream, InDelayed, InDue
  <1>8. ~InStream(r) /\ ~InDelayed(r) /\ ~InDue(r) /\ ~InHands(r)
    BY <1>4 DEF Carried
  <1>9. StreamStage' /\ DelayedStage'
    BY <1>6, StagesKept
  <1>10. ~Fresh(r)' /\ \A s \in Runs \ {r} : source'[s] = source[s]
    BY <1>1 DEF Fresh, TypeOK
  <1> HIDE DEF m
  <1>11. hand' = [hand EXCEPT ![a] = m]
    BY DEF m
  <1>. QED
    BY <1>2, <1>3, <1>5, <1>7, <1>8, <1>9, <1>10, <1>11, GraspInv

LEMMA DispatchInv == ASSUME IInv, TypeOK', NEW j \in Jobs, NEW r \in Runs, Dispatch(j, r) PROVE IInv'
  <1>1. Scheduler \in Actors /\ JobPool[j] \in Pools /\ "scheduler" \in Sources \ {"none"}
    BY DEF Actors, Sources
  <1>. QED
    BY <1>1, IssueInv DEF Dispatch

LEMMA ManualRunInv == ASSUME IInv, TypeOK', NEW c \in Clients, NEW r \in Runs, ManualRun(c, r) PROVE IInv'
  <1>1. c \in Actors /\ DefaultPool \in Pools /\ "manual" \in Sources \ {"none"}
    BY DEF Actors, Sources
  <1>. QED
    BY <1>1, IssueInv DEF ManualRun

LEMMA FireTriggerInv == ASSUME IInv, TypeOK', NEW r \in Runs, FireTrigger(r) PROVE IInv'
  <1> DEFINE m == [run |-> r, attempt |-> 0, pool |-> DefaultPool]
  <1>1. TypeOK /\ OneCarrier
    BY DEF IInv
  <1>2. m \in Message /\ m.run = r /\ m.attempt = 0
    BY DEF Message
  <1>3. /\ UNCHANGED records /\ delayed' = delayed /\ due' = due /\ hand' = hand /\ pc' = pc
        /\ orphaned' = orphaned /\ stream' = Append(stream, m) /\ source' = [source EXCEPT ![r] = "trigger"]
    BY DEF FireTrigger
  <1>4. status[r] = "none" /\ attempt[r] = 0 /\ ~Carried(r) /\ Fresh(r)
    BY DEF FireTrigger, IInv, FreshInv, AttemptInv
  <1>5. ~InStream(r) /\ ~InDelayed(r) /\ ~InDue(r) /\ ~InHands(r)
    BY <1>4 DEF Carried
  <1>6. ~Fresh(r)' /\ \A s \in Runs : Fresh(s)' => Fresh(s)
    BY <1>1, <1>3 DEF Fresh, TypeOK
  <1>7. AwaitsWorker(m)
    BY <1>2, <1>4 DEF AwaitsWorker
  <1> HIDE DEF m
  <1>8. /\ StreamUnique'
        /\ \A s \in Runs : InStream(s)' <=> InStream(s) \/ s = r
        /\ \A i \in 1..Len(stream') : stream'[i] = m \/ \E k \in 1..Len(stream) : stream'[i] = stream[k]
    BY <1>1, <1>2, <1>3, <1>5, Appending
  <1>9. /\ DelayedUnique' /\ DueUnique' /\ HandsUnique'
        /\ \A s \in Runs : InDelayed(s)' <=> InDelayed(s)
        /\ \A s \in Runs : InDue(s)' <=> InDue(s)
        /\ \A s \in Runs : InHands(s)' <=> InHands(s)
    BY <1>1, <1>3 DEF OneCarrier, DelayedUnique, DueUnique, HandsUnique, InDelayed, InDue, InHands
  <1>10. OnePlace'
    BY <1>1, <1>5, <1>8, <1>9 DEF OneCarrier, OnePlace
  <1>11. OneCarrier'
    BY <1>8, <1>9, <1>10 DEF OneCarrier
  <1>12. \A s \in Runs : Carried(s)' <=> Carried(s) \/ s = r
    BY <1>8, <1>9 DEF Carried
  <1>13. StreamStage' /\ DelayedStage'
    BY <1>3, <1>7, <1>8, StagesKept
  <1>14. HandStage'
    BY <1>3 DEF IInv, HandStage, InProgress, AwaitsTime, Unrecorded, AwaitsWorker, records
  <1>15. \A s \in orphaned' : s \in Runs /\ ~Carried(s)' /\ ~Fresh(s)'
    BY <1>1, <1>3, <1>4, <1>6, <1>12 DEF IInv, OrphanInv, FreshInv, TypeOK
  <1>. QED
    BY <1>3, <1>4, <1>6, <1>11, <1>12, <1>13, <1>14, <1>15, MoveStep

\* A step that changes no record, no message and no label.
LEMMA SameInv ==
  ASSUME IInv, TypeOK', UNCHANGED records, UNCHANGED Carriers, UNCHANGED <<pc, source, orphaned>>
  PROVE  IInv'
  <1>1. TypeOK /\ OneCarrier
    BY DEF IInv
  <1>2. OneCarrier' /\ \A r \in Runs : Carried(r)' <=> Carried(r)
    BY <1>1, NothingMoves
  <1>3. StreamStage' /\ DelayedStage' /\ HandStage'
    BY DEF IInv, StreamStage, DelayedStage, HandStage, AwaitsWorker, AwaitsTime, Unrecorded, InProgress, records, Carriers
  <1>4. \A r \in orphaned : r \in Runs /\ ~Carried(r) /\ ~Fresh(r)
    BY <1>1 DEF IInv, OrphanInv, FreshInv, TypeOK
  <1>. QED
    BY <1>2, <1>3, <1>4, MoveStep DEF Fresh

LEMMA SkipInv == ASSUME IInv, TypeOK', NEW j \in Jobs, Skip(j) PROVE IInv'
  BY SameInv DEF Skip, queues, ghosts, Carriers

LEMMA PopDueInv == ASSUME IInv, TypeOK', NEW ripe \in SUBSET delayed, PopDue(ripe) PROVE IInv'
  <1>1. TypeOK /\ OneCarrier
    BY DEF IInv
  <1>2. /\ UNCHANGED records /\ stream' = stream /\ hand' = hand /\ orphaned' = orphaned /\ source' = source
        /\ delayed' = delayed \ ripe /\ due' = ripe
        /\ Scheduler \in Actors /\ \A b \in Actors \ {Scheduler} : pc'[b] = pc[b]
    BY <1>1 DEF PopDue, NotDue, ghosts, Goto, Actors, TypeOK
  <1>3. pc[Scheduler] = "idle" /\ due = {} /\ hand[Scheduler] = NoMsg
    BY <1>1, <1>2 DEF PopDue, TypeOK
  <1>4. /\ StreamUnique' /\ HandsUnique'
        /\ \A r \in Runs : InStream(r)' <=> InStream(r)
        /\ \A r \in Runs : InHands(r)' <=> InHands(r)
    BY <1>1, <1>2 DEF OneCarrier, StreamUnique, HandsUnique, InStream, InHands
  <1>5. DelayedUnique' /\ DueUnique'
    BY <1>1, <1>2 DEF OneCarrier, DelayedUnique, DueUnique
  <1>6. /\ \A r \in Runs : InDelayed(r)' \/ InDue(r)' <=> InDelayed(r)
        /\ \A r \in Runs : ~(InDelayed(r)' /\ InDue(r)')
    BY <1>1, <1>2 DEF OneCarrier, DelayedUnique, InDelayed, InDue
  <1>7. \A r \in Runs : ~InDue(r)
    BY <1>3 DEF InDue
  <1>8. OnePlace'
    BY <1>1, <1>4, <1>6 DEF OneCarrier, OnePlace
  <1>9. OneCarrier'
    BY <1>4, <1>5, <1>8 DEF OneCarrier
  <1>10. \A r \in Runs : Carried(r)' <=> Carried(r)
    BY <1>4, <1>6, <1>7 DEF Carried
  <1>11. StreamStage' /\ DelayedStage'
    BY <1>2, StagesKept
  <1>12. HandStage'
    BY <1>2, <1>3, StagesKept
  <1>13. \A r \in orphaned : r \in Runs /\ ~Carried(r) /\ ~Fresh(r)
    BY <1>1 DEF IInv, OrphanInv, FreshInv, TypeOK
  <1>. QED
    BY <1>2, <1>9, <1>10, <1>11, <1>12, <1>13, MoveStep DEF Fresh

LEMMA TakeDueInv == ASSUME IInv, TypeOK', NEW m \in due, TakeDue(m) PROVE IInv'
  <1>1. TypeOK /\ OneCarrier /\ Scheduler \in Actors
    BY DEF IInv, Actors
  <1>2. m \in Message /\ m.run \in Runs /\ hand[Scheduler] = NoMsg
    BY <1>1 DEF TypeOK, TakeDue, Message
  <1>3. /\ UNCHANGED records /\ stream' = stream /\ delayed' = delayed /\ due' = due \ {m}
        /\ orphaned' = orphaned /\ source' = source /\ hand' = [hand EXCEPT ![Scheduler] = m]
        /\ pc'[Scheduler] = "save_queued" /\ \A b \in Actors \ {Scheduler} : pc'[b] = pc[b]
    BY <1>1 DEF TakeDue, RestOfBatch, ghosts, Goto, TypeOK
  <1>4. InDue(m.run)
    BY DEF InDue
  <1>5. ~InStream(m.run) /\ ~InDelayed(m.run) /\ ~InHands(m.run) /\ Carried(m.run)
    BY <1>1, <1>2, <1>4 DEF OneCarrier, OnePlace, Carried
  <1>6. /\ StreamUnique' /\ DelayedUnique' /\ DueUnique'
        /\ \A r \in Runs : InStream(r)' <=> InStream(r)
        /\ \A r \in Runs : InDelayed(r)' <=> InDelayed(r)
        /\ \A r \in Runs : InDue(r)' <=> InDue(r) /\ r # m.run
    BY <1>1, <1>3 DEF OneCarrier, StreamUnique, DelayedUnique, DueUnique, InStream, InDelayed, InDue
  <1>7. StreamStage' /\ DelayedStage'
    BY <1>3, StagesKept
  <1>8. InProgress(m, pc'[Scheduler])
    BY <1>3 DEF IInv, DelayedStage, InProgress
  <1>9. ~Fresh(m.run)'
    BY <1>2, <1>3, <1>5 DEF IInv, FreshInv, Fresh
  <1>. QED
    BY <1>1, <1>2, <1>3, <1>5, <1>6, <1>7, <1>8, <1>9, GraspInv

LEMMA DequeueInv == ASSUME IInv, TypeOK', NEW w \in Workers, Dequeue(w) PROVE IInv'
  <1>1. TypeOK /\ OneCarrier /\ w \in Actors
    BY DEF IInv, Actors
  <1>0. PICK m \in Message : m = Head(stream)
    BY <1>1 DEF Dequeue, TypeOK
  <1>2. /\ UNCHANGED records /\ stream # <<>> /\ stream' = Tail(stream) /\ delayed' = delayed /\ due' = due
        /\ orphaned' = orphaned /\ source' = source /\ hand' = [hand EXCEPT ![w] = m]
        /\ pc'[w] = "got" /\ \A b \in Actors \ {w} : pc'[b] = pc[b]
    BY <1>0, <1>1 DEF Dequeue, Undelivered, ghosts, Goto, TypeOK
  <1>3. hand[w] = NoMsg
    BY <1>1 DEF Dequeue, TypeOK
  <1>4. /\ StreamUnique' /\ m = stream[1] /\ 1 \in 1..Len(stream) /\ m \in Message /\ InStream(m.run)
        /\ \A r \in Runs : InStream(r)' <=> InStream(r) /\ r # m.run
        /\ \A i \in 1..Len(stream') : \E k \in 1..Len(stream) : stream'[i] = stream[k]
    BY <1>0, <1>1, <1>2, Delivering
  <1>5. AwaitsWorker(m)
    BY <1>4 DEF IInv, StreamStage
  <1>6. m.run \in Runs
    BY <1>4 DEF Message
  <1>7. ~InDelayed(m.run) /\ ~InDue(m.run) /\ ~InHands(m.run) /\ Carried(m.run)
    BY <1>1, <1>4, <1>6 DEF OneCarrier, OnePlace, Carried
  <1>8. /\ DelayedUnique' /\ DueUnique'
        /\ \A r \in Runs : InDelayed(r)' <=> InDelayed(r)
        /\ \A r \in Runs : InDue(r)' <=> InDue(r)
    BY <1>1, <1>2 DEF OneCarrier, DelayedUnique, DueUnique, InDelayed, InDue
  <1>9. StreamStage' /\ DelayedStage'
    BY <1>2, <1>4, StagesKept
  <1>10. InProgress(m, pc'[w])
    BY <1>2, <1>5 DEF InProgress
  <1>11. ~Fresh(m.run)'
    BY <1>2, <1>6, <1>7 DEF IInv, FreshInv, Fresh
  <1>. QED
    BY <1>1, <1>2, <1>3, <1>4, <1>6, <1>7, <1>8, <1>9, <1>10, <1>11, GraspInv

LEMMA RetryInv == ASSUME IInv, TypeOK', NEW w \in Workers, Retry(w) PROVE IInv'
  <1> DEFINE m == hand[w]
  <1>1. TypeOK /\ OneCarrier /\ w \in Actors /\ pc[w] = "retry"
    BY DEF IInv, Actors, Retry
  <1>2. m \in Message /\ m # NoMsg /\ m.run \in Runs /\ JobOf[m.run] \in Jobs
    BY <1>1, HandType
  <1>3. InProgress(m, pc[w])
    BY <1>1, <1>2 DEF IInv, HandStage
  <1>4. UNCHANGED records /\ UNCHANGED <<stream, due, source>> /\ Release(w)
    BY DEF Retry
  <1>5. CASE UNCHANGED delayed /\ orphaned' = IF status[m.run] \in Active THEN orphaned \cup {m.run} ELSE orphaned
    BY <1>1, <1>2, <1>4, <1>5, ReleaseInv
  <1>6. CASE RetriesLeft(m) /\ delayed' = delayed \cup {NextAttempt(m)} /\ UNCHANGED orphaned
    <2>0. PICK n \in Message : n = NextAttempt(m)
      BY <1>2, NextAttemptType
    <2>1. n.run = m.run /\ n.attempt = m.attempt + 1 /\ delayed' = delayed \cup {n}
      BY <1>2, <1>6, <2>0, NextAttemptType
    <2>2. AwaitsTime(n)
      BY <1>1, <1>2, <1>3, <1>6, <2>1 DEF InProgress, AwaitsTime, Unrecorded, RetriesLeft, TypeOK, Message
    <2>3. ~InStream(m.run) /\ ~InDelayed(m.run) /\ ~InDue(m.run) /\ InHands(m.run)
      BY <1>1, <1>2 DEF OneCarrier, OnePlace, InHands
    <2>4. /\ hand' = [hand EXCEPT ![w] = NoMsg] /\ hand'[w] = NoMsg
          /\ \A b \in Actors \ {w} : hand'[b] = hand[b] /\ pc'[b] = pc[b]
      BY <1>1, <1>4 DEF Release, Goto, TypeOK
    <2>5. HandsUnique' /\ \A r \in Runs : InHands(r)' <=> InHands(r) /\ r # m.run
      BY <1>1, <1>2, <2>4, LetGo
    <2>6. /\ StreamUnique' /\ DueUnique'
          /\ \A r \in Runs : InStream(r)' <=> InStream(r)
          /\ \A r \in Runs : InDue(r)' <=> InDue(r)
      BY <1>1, <1>4 DEF OneCarrier, StreamUnique, DueUnique, InStream, InDue
    <2>7. DelayedUnique' /\ \A r \in Runs : InDelayed(r)' <=> InDelayed(r) \/ r = m.run
      BY <1>1, <1>6, <2>1, <2>3 DEF OneCarrier, DelayedUnique, InDelayed
    <2>8. OnePlace'
      BY <1>1, <2>3, <2>5, <2>6, <2>7 DEF OneCarrier, OnePlace
    <2>9. OneCarrier'
      BY <2>5, <2>6, <2>7, <2>8 DEF OneCarrier
    <2>10. \A r \in Runs : Carried(r)' <=> Carried(r)
      BY <2>3, <2>5, <2>6, <2>7 DEF Carried
    <2>11. StreamStage' /\ DelayedStage' /\ HandStage'
      <3>1. stream' = stream /\ due' = due
        BY <1>4
      <3>2. \A x \in delayed' \cup due' : AwaitsTime(x) \/ x \in delayed \cup due
        BY <2>1, <2>2, <3>1
      <3>. QED
        BY <1>1, <1>4, <2>4, <3>1, <3>2, StagesKept
    <2>12. \A r \in orphaned : r \in Runs /\ ~Carried(r) /\ ~Fresh(r)
      BY <1>1 DEF IInv, OrphanInv, FreshInv, TypeOK
    <2>. QED
      BY <1>4, <1>6, <2>9, <2>10, <2>11, <2>12, MoveStep DEF Fresh
  <1>. QED
    BY <1>5, <1>6 DEF Retry

LEMMA CrashInv == ASSUME IInv, TypeOK', NEW a \in Actors, Crash(a) PROVE IInv'
  <1> DEFINE Lost(r) == r \in InHand(a) \/ r \in Batch(a)
  <1>1. TypeOK /\ OneCarrier
    BY DEF IInv
  <1>2. /\ UNCHANGED records /\ stream' = stream /\ delayed' = delayed /\ source' = source
        /\ due' = IF a = Scheduler THEN {} ELSE due
        /\ \A r : r \in orphaned' <=> r \in orphaned \/ Lost(r)
        /\ hand' = [hand EXCEPT ![a] = NoMsg] /\ hand'[a] = NoMsg
        /\ \A b \in Actors \ {a} : hand'[b] = hand[b] /\ pc'[b] = pc[b]
    BY <1>1 DEF Crash, Release, Goto, TypeOK
  <1>3. HandsUnique' /\ \A r \in Runs : InHands(r)' <=> InHands(r) /\ r \notin InHand(a)
    <2>1. CASE hand[a] = NoMsg
      <3>1. hand' = hand
        BY <1>1, <1>2, <2>1 DEF TypeOK
      <3>. QED
        BY <1>1, <2>1, <3>1 DEF OneCarrier, HandsUnique, InHands, InHand
    <2>2. CASE hand[a] # NoMsg
      BY <1>1, <1>2, <2>2, LetGo DEF InHand
    <2>. QED
      BY <2>1, <2>2
  <1>4. DueUnique' /\ \A r \in Runs : InDue(r)' <=> InDue(r) /\ r \notin Batch(a)
    BY <1>1, <1>2 DEF OneCarrier, DueUnique, InDue, Batch
  <1>5. /\ StreamUnique' /\ DelayedUnique'
        /\ \A r \in Runs : InStream(r)' <=> InStream(r)
        /\ \A r \in Runs : InDelayed(r)' <=> InDelayed(r)
    BY <1>1, <1>2 DEF OneCarrier, StreamUnique, DelayedUnique, InStream, InDelayed
  <1>6. OnePlace'
    BY <1>1, <1>3, <1>4, <1>5 DEF OneCarrier, OnePlace
  <1>7. OneCarrier'
    BY <1>3, <1>4, <1>5, <1>6 DEF OneCarrier
  <1>8. /\ \A r \in InHand(a) : r \in Runs /\ InHands(r)
        /\ \A r \in Batch(a) : r \in Runs /\ InDue(r)
    BY <1>1 DEF InHand, Batch, InHands, InDue, TypeOK, Message
  <1>9. \A r \in Runs : Carried(r)' <=> Carried(r) /\ ~Lost(r)
    BY <1>1, <1>3, <1>4, <1>5, <1>8 DEF Carried, OneCarrier, OnePlace
  <1>10. StreamStage' /\ DelayedStage' /\ HandStage'
    BY <1>2, StagesKept
  <1>11. \A r : Lost(r) => r \in Runs /\ ~Fresh(r)
    BY <1>8 DEF IInv, FreshInv, Carried
  <1>12. \A r \in orphaned : r \in Runs /\ ~Carried(r) /\ ~Fresh(r)
    BY <1>1 DEF IInv, OrphanInv, FreshInv, TypeOK
  <1> HIDE DEF Lost
  <1>. QED
    BY <1>2, <1>7, <1>9, <1>10, <1>11, <1>12, MoveStep DEF Fresh

(***************************************************************************)
(* The theorems                                                            *)
(***************************************************************************)
LEMMA InitInv == Init => IInv
  <1> SUFFICES ASSUME Init PROVE IInv
    OBVIOUS
  <1>1. TypeOK
    BY InitType
  <1>2. stream = <<>> /\ Len(stream) = 0 /\ delayed = {} /\ due = {} /\ \A a \in Actors : hand[a] = NoMsg
    BY DEF Init
  <1>3. \A r \in Runs : ~InStream(r) /\ ~InDelayed(r) /\ ~InDue(r) /\ ~InHands(r)
    BY <1>2 DEF InStream, InDelayed, InDue, InHands
  <1>4. OneCarrier
    BY <1>2, <1>3 DEF OneCarrier, StreamUnique, DelayedUnique, DueUnique, HandsUnique, OnePlace
  <1>5. StreamStage /\ DelayedStage /\ HandStage
    BY <1>2 DEF StreamStage, DelayedStage, HandStage
  <1>6. \A r \in Runs : status[r] = "none" /\ attempt[r] = 0 /\ executions[r] = 0 /\ r \notin orphaned
    BY DEF Init
  <1>7. \A r \in Runs : MaxRetry[JobOf[r]] \in Nat
    OBVIOUS
  <1>. QED
    BY <1>1, <1>3, <1>4, <1>5, <1>6, <1>7
    DEF IInv, FreshInv, AttemptInv, OrphanInv, OncePerAttempt, ActiveIsCarried, Carried, Active, Init

LEMMA StepInv == IInv /\ [Next]_vars => IInv'
  <1> SUFFICES ASSUME IInv, [Next]_vars PROVE IInv'
    OBVIOUS
  <1>0. TypeOK /\ TypeOK'
    BY StepType DEF IInv
  <1>1. CASE SchedulerStep
    BY <1>0, <1>1, DispatchInv, SkipInv, PopDueInv, TakeDueInv DEF SchedulerStep
  <1>2. CASE ClientStep
    BY <1>0, <1>2, ManualRunInv, FireTriggerInv DEF ClientStep
  <1>3. ASSUME NEW w \in Workers, WorkerStep(w) PROVE IInv'
    BY <1>0, <1>3, DequeueInv, DropInv, StartRunInv, FinishRunInv, AbortRunInv, RetryInv DEF WorkerStep
  <1>4. ASSUME NEW a \in Actors, SaveStep(a) PROVE IInv'
    BY <1>0, <1>4, SaveQueuedInv, IndexRemoveInv, IndexAddInv, EnqueueInv DEF SaveStep
  <1>5. ASSUME NEW a \in Actors, Crash(a) PROVE IInv'
    BY <1>0, <1>5, CrashInv
  <1>6. CASE UNCHANGED vars
    BY <1>0, <1>6, SameInv DEF vars, queues, ghosts, Carriers
  <1>. QED
    BY <1>1, <1>2, <1>3, <1>4, <1>5, <1>6 DEF Next

\* The strengthening holds in every reachable state.
THEOREM InvariantCorrect == Spec => []IInv
  BY InitInv, StepInv, PTL DEF Spec

\* A run's message is never duplicated: it is in the stream, in zset:delayed,
\* in the scheduler's batch or with one process, in one copy, so no two
\* workers ever execute the same run.
THEOREM MessagesAreNotDuplicated == Spec => []OneCarrier
  <1>1. IInv => OneCarrier
    BY DEF IInv
  <1>. QED
    BY <1>1, InvariantCorrect, PTL

\* Whatever crashes, no attempt of a run is executed twice and none skipped.
THEOREM AtMostOncePerAttempt == Spec => []OncePerAttempt
  <1>1. IInv => OncePerAttempt
    BY DEF IInv
  <1>. QED
    BY <1>1, InvariantCorrect, PTL

\* A run that looks queued or running has a message or has lost it.
THEOREM ActiveRunsAreCarried == Spec => []ActiveIsCarried
  <1>1. IInv => ActiveIsCarried
    BY DEF IInv
  <1>. QED
    BY <1>1, InvariantCorrect, PTL

\* A run is executed at most max_retry + 1 times.
THEOREM RetriesAreLimited == Spec => []RetryLimit
  <1>1. IInv => RetryLimit
    <2> SUFFICES ASSUME IInv, NEW r \in Runs PROVE executions[r] <= MaxRetry[JobOf[r]] + 1
      BY DEF RetryLimit
    <2>1. attempt[r] \in Nat /\ executions[r] \in Nat /\ MaxRetry[JobOf[r]] \in Nat
      BY DEF IInv, TypeOK
    <2>2. executions[r] \in {attempt[r], attempt[r] + 1} /\ attempt[r] <= MaxRetry[JobOf[r]]
      BY DEF IInv, OncePerAttempt, AttemptInv
    <2>. QED
      BY <2>1, <2>2
  <1>. QED
    BY <1>1, InvariantCorrect, PTL

(***************************************************************************)
(* The active index                                                        *)
(***************************************************************************)
Refreshed(r) == \E a \in Actors : pc[a] \in Refreshing /\ hand[a].run = r
IndexRight(r) == r \in index[JobOf[r]] <=> status[r] \in Active

\* A step in which no process enters or leaves a refresh, and no record and
\* no index changes.
LEMMA IndexUntouched ==
  ASSUME IndexAgrees, UNCHANGED <<status, index, torn>>,
         \A a \in Actors : pc[a] \in Refreshing => pc'[a] = pc[a] /\ hand'[a] = hand[a]
  PROVE  IndexAgrees'
  BY DEF IndexAgrees

\* A process that starts or continues a refresh of its run.
LEMMA IndexInRefresh ==
  ASSUME IndexAgrees, TypeOK, NEW a \in Actors, hand[a] # NoMsg, UNCHANGED <<hand, torn>>,
         pc'[a] \in Refreshing, \A b \in Actors \ {a} : pc'[b] = pc[b],
         \A s \in Runs \ {hand[a].run} :
            status'[s] = status[s] /\ (s \in index'[JobOf[s]] <=> s \in index[JobOf[s]])
  PROVE  IndexAgrees'
  <1> SUFFICES ASSUME NEW r \in Runs, r \notin torn', ~Refreshed(r)' PROVE IndexRight(r)'
    BY DEF IndexAgrees, Refreshed, IndexRight
  <1>1. r # hand[a].run
    BY DEF Refreshed
  <1>2. ~Refreshed(r)
    BY <1>1 DEF Refreshed
  <1>3. IndexRight(r)
    BY <1>2 DEF IndexAgrees, Refreshed, IndexRight
  <1>. QED
    BY <1>1, <1>3 DEF IndexRight

\* A process that ends a refresh with the index in accordance with the record.
LEMMA IndexRefreshed ==
  ASSUME IndexAgrees, TypeOK, NEW a \in Actors, hand[a] # NoMsg, UNCHANGED <<torn, status>>,
         \A b \in Actors \ {a} : pc'[b] = pc[b] /\ hand'[b] = hand[b],
         hand[a].run \in index'[JobOf[hand[a].run]] <=> status[hand[a].run] \in Active,
         \A s \in Runs \ {hand[a].run} : s \in index'[JobOf[s]] <=> s \in index[JobOf[s]]
  PROVE  IndexAgrees'
  <1> DEFINE q == hand[a].run
  <1>1. q \in Runs /\ status' = status /\ torn' = torn
    BY DEF TypeOK, Message
  <1>2. q \in index'[JobOf[q]] <=> status[q] \in Active
    OBVIOUS
  <1> SUFFICES ASSUME NEW r \in Runs, r \notin torn, r # q,
                      ~(\E b \in Actors : pc'[b] \in Refreshing /\ hand'[b].run = r)
               PROVE  r \in index'[JobOf[r]] <=> status[r] \in Active
    BY <1>1, <1>2 DEF IndexAgrees
  <1>3. ~(\E b \in Actors : pc[b] \in Refreshing /\ hand[b].run = r)
    OBVIOUS
  <1>. QED
    BY <1>3 DEF IndexAgrees

LEMMA IndexStep == IInv /\ IndexAgrees /\ [Next]_vars => IndexAgrees'
  <1> SUFFICES ASSUME IInv, IndexAgrees, [Next]_vars PROVE IndexAgrees'
    OBVIOUS
  <1>0. TypeOK
    BY DEF IInv
  <1>1. ASSUME NEW a \in Actors, SaveQueued(a) PROVE IndexAgrees'
    <2>1. hand[a] # NoMsg
      BY <1>0, <1>1, HandType DEF SaveQueued
    <2>2. /\ UNCHANGED <<hand, torn>> /\ pc'[a] \in Refreshing /\ \A b \in Actors \ {a} : pc'[b] = pc[b]
          /\ index' = index /\ \A s \in Runs \ {hand[a].run} : status'[s] = status[s]
      BY <1>0, <1>1 DEF SaveQueued, Goto, Refreshing, ghosts, TypeOK
    <2>. QED
      BY <1>0, <2>1, <2>2, IndexInRefresh
  <1>2. ASSUME NEW a \in Actors, StartRun(a) PROVE IndexAgrees'
    <2>1. hand[a] # NoMsg
      BY <1>0, <1>2, HandType DEF StartRun
    <2>2. /\ UNCHANGED <<hand, torn>> /\ pc'[a] \in Refreshing /\ \A b \in Actors \ {a} : pc'[b] = pc[b]
          /\ index' = index /\ \A s \in Runs \ {hand[a].run} : status'[s] = status[s]
      BY <1>0, <1>2 DEF StartRun, Goto, Refreshing, ghosts, TypeOK
    <2>. QED
      BY <1>0, <2>1, <2>2, IndexInRefresh
  <1>3. ASSUME NEW a \in Actors, NEW o \in {"success", "failed"}, FinishRun(a, o) PROVE IndexAgrees'
    <2>1. hand[a] # NoMsg
      BY <1>0, <1>3, HandType DEF FinishRun
    <2>2. /\ UNCHANGED <<hand, torn>> /\ pc'[a] \in Refreshing /\ \A b \in Actors \ {a} : pc'[b] = pc[b]
          /\ index' = index /\ \A s \in Runs \ {hand[a].run} : status'[s] = status[s]
      BY <1>0, <1>3 DEF FinishRun, Goto, Refreshing, ghosts, TypeOK
    <2>. QED
      BY <1>0, <2>1, <2>2, IndexInRefresh
  <1>4. ASSUME NEW a \in Actors, IndexRemove(a) PROVE IndexAgrees'
    <2>1. hand[a] # NoMsg /\ hand[a].run \in Runs /\ JobOf[hand[a].run] \in Jobs
      BY <1>0, <1>4, HandType DEF IndexRemove
    <2>2. /\ UNCHANGED <<torn, status>>
          /\ \A b \in Actors \ {a} : pc'[b] = pc[b] /\ hand'[b] = hand[b]
      BY <1>0, <1>4 DEF IndexRemove, Goto, Release, records, ghosts, TypeOK
    <2>3. /\ hand[a].run \notin index'[JobOf[hand[a].run]]
          /\ \A s \in Runs \ {hand[a].run} : s \in index'[JobOf[s]] <=> s \in index[JobOf[s]]
      BY <1>0, <1>4, <2>1 DEF IndexRemove, Unindexed, TypeOK
    <2>4. CASE pc[a] \in {"queued_srem", "start_srem"}
      <3>1. UNCHANGED hand /\ pc'[a] \in Refreshing
        BY <1>0, <1>4, <2>4 DEF IndexRemove, Goto, Refreshing, TypeOK
      <3>. QED
        BY <1>0, <2>1, <2>2, <2>3, <3>1, IndexInRefresh
    <2>5. CASE pc[a] = "finish_srem"
      <3>1. status[hand[a].run] \notin Active
        BY <2>1, <2>5 DEF IInv, HandStage, InProgress, Active
      <3>. QED
        BY <1>0, <2>1, <2>2, <2>3, <3>1, IndexRefreshed
    <2>. QED
      BY <1>4, <2>4, <2>5 DEF IndexRemove
  <1>5. ASSUME NEW a \in Actors, IndexAdd(a) PROVE IndexAgrees'
    <2>1. hand[a] # NoMsg /\ hand[a].run \in Runs /\ JobOf[hand[a].run] \in Jobs
      BY <1>0, <1>5, HandType DEF IndexAdd
    <2>2. /\ UNCHANGED <<torn, status>>
          /\ \A b \in Actors \ {a} : pc'[b] = pc[b] /\ hand'[b] = hand[b]
      BY <1>0, <1>5 DEF IndexAdd, Goto, records, ghosts, TypeOK
    <2>3. /\ hand[a].run \in index'[JobOf[hand[a].run]]
          /\ \A s \in Runs \ {hand[a].run} : s \in index'[JobOf[s]] <=> s \in index[JobOf[s]]
      BY <1>0, <1>5, <2>1 DEF IndexAdd, Indexed, TypeOK
    <2>4. status[hand[a].run] \in Active
      BY <1>5, <2>1 DEF IndexAdd, IInv, HandStage, InProgress, Active
    <2>. QED
      BY <1>0, <2>1, <2>2, <2>3, <2>4, IndexRefreshed
  <1>6. ASSUME NEW a \in Actors, Crash(a) PROVE IndexAgrees'
    <2> SUFFICES ASSUME NEW r \in Runs, r \notin torn', ~Refreshed(r)' PROVE IndexRight(r)'
      BY DEF IndexAgrees, Refreshed, IndexRight
    <2>1. /\ status' = status /\ index' = index /\ torn \subseteq torn'
          /\ \A b \in Actors \ {a} : pc'[b] = pc[b] /\ hand'[b] = hand[b]
          /\ pc[a] \in Refreshing => InHand(a) \subseteq torn'
      BY <1>0, <1>6 DEF Crash, Release, Goto, records, TypeOK
    <2>2. pc[a] \in Refreshing => hand[a].run # r
      BY <1>0, <2>1, HandType DEF InHand, Refreshing
    <2>3. ~Refreshed(r)
      BY <2>1, <2>2 DEF Refreshed
    <2>. QED
      BY <2>1, <2>3 DEF IndexAgrees, IndexRight, Refreshed
  <1>7. ASSUME UNCHANGED <<status, index, torn>>, NEW a \in Actors, pc[a] \notin Refreshing,
               \A b \in Actors \ {a} : pc'[b] = pc[b] /\ hand'[b] = hand[b]
        PROVE IndexAgrees'
    BY <1>7, IndexUntouched
  <1>8. ASSUME NEW a \in Actors, Enqueue(a) PROVE IndexAgrees'
    BY <1>0, <1>7, <1>8 DEF Enqueue, Goto, Refreshing, TypeOK, records, ghosts
  <1>9. ASSUME NEW j \in Jobs, NEW r \in Runs, Dispatch(j, r) PROVE IndexAgrees'
    BY <1>0, <1>7, <1>9 DEF Dispatch, Goto, Refreshing, TypeOK, records, Actors
  <1>10. ASSUME NEW ripe \in SUBSET delayed, PopDue(ripe) PROVE IndexAgrees'
    BY <1>0, <1>7, <1>10 DEF PopDue, Goto, Refreshing, TypeOK, records, ghosts, Actors
  <1>11. ASSUME NEW m \in due, TakeDue(m) PROVE IndexAgrees'
    BY <1>0, <1>7, <1>11 DEF TakeDue, Goto, Refreshing, TypeOK, records, ghosts, Actors
  <1>12. ASSUME NEW c \in Clients, NEW r \in Runs, ManualRun(c, r) PROVE IndexAgrees'
    BY <1>0, <1>7, <1>12 DEF ManualRun, Goto, Refreshing, TypeOK, records, Actors
  <1>13. ASSUME NEW w \in Workers, Dequeue(w) \/ Drop(w) \/ AbortRun(w) \/ Retry(w) PROVE IndexAgrees'
    <2>0. w \in Actors
      BY DEF Actors
    <2>1. CASE Dequeue(w)
      BY <1>0, <1>7, <2>0, <2>1 DEF Dequeue, Goto, Refreshing, TypeOK, records, ghosts
    <2>2. CASE Drop(w)
      BY <1>0, <1>7, <2>0, <2>2 DEF Drop, Release, Goto, Refreshing, TypeOK, records
    <2>3. CASE AbortRun(w)
      BY <1>0, <1>7, <2>0, <2>3 DEF AbortRun, Goto, Refreshing, TypeOK, records, ghosts
    <2>4. CASE Retry(w)
      BY <1>0, <1>7, <2>0, <2>4 DEF Retry, Release, Goto, Refreshing, TypeOK, records
    <2>. QED
      BY <1>13, <2>1, <2>2, <2>3, <2>4
  <1>14. ASSUME UNCHANGED <<status, index, torn, pc, hand>> PROVE IndexAgrees'
    BY <1>14 DEF IndexAgrees
  <1>15. ASSUME NEW j \in Jobs, Skip(j) PROVE IndexAgrees'
    BY <1>14, <1>15 DEF Skip, records, ghosts
  <1>16. ASSUME NEW r \in Runs, FireTrigger(r) PROVE IndexAgrees'
    BY <1>14, <1>16 DEF FireTrigger, records
  <1>17. CASE UNCHANGED vars
    BY <1>14, <1>17 DEF vars, records, ghosts
  <1>18. Workers \subseteq Actors
    BY DEF Actors
  <1>. QED
    BY <1>18, <1>1, <1>2, <1>3, <1>4, <1>5, <1>6, <1>8, <1>9, <1>10, <1>11, <1>12, <1>13, <1>15, <1>16, <1>17
    DEF Next, SaveStep, SchedulerStep, ClientStep, WorkerStep

\* Outside a refresh in progress the active index agrees with the run records,
\* except for runs whose refresh was cut short by a crash.
THEOREM IndexIsRight == Spec => []IndexAgrees
  <1>1. Init => IndexAgrees
    BY DEF Init, IndexAgrees, Active
  <1>2. Spec => []IInv
    BY InvariantCorrect
  <1>. QED
    BY <1>1, <1>2, IndexStep, PTL DEF Spec

(***************************************************************************)
(* Refinement of RunLifecycle, and what is lost                            *)
(***************************************************************************)

\* All steps but three leave every record as it is.
LEMMA RecordsChange ==
  ASSUME [Next]_vars
  PROVE  \/ UNCHANGED records
         \/ \E a \in Actors : SaveQueued(a)
         \/ \E w \in Workers : StartRun(w)
         \/ \E w \in Workers : \E o \in {"success", "failed"} : FinishRun(w, o)
  BY DEF Next, SchedulerStep, Dispatch, Skip, PopDue, TakeDue, ClientStep, ManualRun, FireTrigger,
         WorkerStep, Dequeue, Drop, AbortRun, Retry, SaveStep, IndexRemove, IndexAdd, Enqueue, Crash, vars

LEMMA LifecycleInit == Init => Lifecycle!Init
  BY DEF Init, Lifecycle!Init

LEMMA LifecycleStep == IInv /\ [Next]_vars => [Lifecycle!Next]_(Lifecycle!vars)
  <1> SUFFICES ASSUME IInv, [Next]_vars PROVE [Lifecycle!Next]_(Lifecycle!vars)
    OBVIOUS
  <1>0. TypeOK
    BY DEF IInv
  <1>1. CASE UNCHANGED records
    BY <1>1 DEF records, Lifecycle!vars
  <1>2. ASSUME NEW a \in Actors, SaveQueued(a) PROVE Lifecycle!Next
    <2> DEFINE r == hand[a].run
    <2>1. hand[a] # NoMsg /\ r \in Runs /\ pc[a] = "save_queued"
      BY <1>0, <1>2, HandType DEF SaveQueued
    <2>2. AwaitsTime(hand[a]) \/ (status[r] = "none" /\ hand[a].attempt = 0)
      BY <2>1 DEF IInv, HandStage, InProgress, Unrecorded
    <2>3. /\ status' = [status EXCEPT ![r] = "queued"]
          /\ attempt' = [attempt EXCEPT ![r] = hand[a].attempt] /\ executions' = executions
      BY <1>2 DEF SaveQueued, SavedAttempt
    <2>4. CASE status[r] = "none" /\ hand[a].attempt = 0
      <3>1. attempt[r] = 0
        BY <2>1, <2>4 DEF IInv, AttemptInv
      <3>2. attempt' = attempt
        BY <1>0, <2>1, <2>3, <2>4, <3>1 DEF TypeOK
      <3>3. Lifecycle!Announce(r)
        BY <2>3, <2>4, <3>2 DEF Lifecycle!Announce
      <3>. QED
        BY <2>1, <3>3 DEF Lifecycle!Next
    <2>5. CASE AwaitsTime(hand[a])
      <3>1. /\ attempt' = [attempt EXCEPT ![r] = @ + 1] /\ attempt[r] < MaxRetry[JobOf[r]]
            /\ status[r] \in {"running", "failed"}
        BY <1>0, <2>1, <2>3, <2>5 DEF AwaitsTime, TypeOK
      <3>2. [s \in Runs |-> MaxRetry[JobOf[s]]][r] = MaxRetry[JobOf[r]]
        BY <2>1
      <3>3. Lifecycle!Requeue(r)
        BY <2>3, <3>1, <3>2 DEF Lifecycle!Requeue
      <3>. QED
        BY <2>1, <3>3 DEF Lifecycle!Next
    <2>. QED
      BY <2>2, <2>4, <2>5
  <1>3. ASSUME NEW w \in Workers, StartRun(w) PROVE Lifecycle!Next
    <2> DEFINE r == hand[w].run
    <2>1. hand[w] # NoMsg /\ r \in Runs /\ pc[w] = "got" /\ w \in Actors
      BY <1>0, <1>3, HandType DEF StartRun, Actors
    <2>2. AwaitsWorker(hand[w])
      BY <2>1 DEF IInv, HandStage, InProgress
    <2>3. executions[r] = attempt[r] /\ (status[r] = "none" => hand[w].attempt = attempt[r])
      BY <2>1, <2>2 DEF IInv, OncePerAttempt, AttemptInv, AwaitsWorker
    <2>4. attempt' = attempt
      BY <1>0, <1>3, <2>1, <2>3 DEF StartRun, TypeOK
    <2>5. Lifecycle!Start(r)
      BY <1>3, <2>2, <2>3, <2>4 DEF StartRun, AwaitsWorker, Lifecycle!Start
    <2>. QED
      BY <2>1, <2>5 DEF Lifecycle!Next
  <1>4. ASSUME NEW w \in Workers, NEW o \in {"success", "failed"}, FinishRun(w, o) PROVE Lifecycle!Next
    <2>1. hand[w] # NoMsg /\ hand[w].run \in Runs /\ pc[w] = "exec" /\ w \in Actors
      BY <1>0, <1>4, HandType DEF FinishRun, Actors
    <2>2. status[hand[w].run] = "running"
      BY <2>1 DEF IInv, HandStage, InProgress
    <2>3. Lifecycle!End(hand[w].run)
      BY <1>4, <2>2 DEF FinishRun, Lifecycle!End
    <2>. QED
      BY <2>1, <2>3 DEF Lifecycle!Next
  <1>. QED
    BY <1>1, <1>2, <1>3, <1>4, RecordsChange

\* Every run record follows the life cycle of RunLifecycle.
THEOREM RunsFollowLifecycle == Spec => LifecycleSpec
  BY LifecycleInit, LifecycleStep, InvariantCorrect, PTL DEF Spec, LifecycleSpec, Lifecycle!Spec

LEMMA LostStep ==
  ASSUME IInv, IInv', [Next]_vars, NEW r \in orphaned
  PROVE  r \in orphaned' /\ status'[r] = status[r] /\ ~Carried(r)'
  <1>0. TypeOK /\ r \in Runs /\ ~Carried(r)
    BY DEF IInv, TypeOK, OrphanInv
  <1>1. r \in orphaned'
    BY DEF Next, SchedulerStep, Dispatch, Skip, PopDue, TakeDue, ClientStep, ManualRun, FireTrigger,
           WorkerStep, Dequeue, Drop, StartRun, FinishRun, AbortRun, Retry,
           SaveStep, SaveQueued, IndexRemove, IndexAdd, Enqueue, Crash, vars, ghosts
  <1>2. ~Carried(r)'
    BY <1>1 DEF IInv, OrphanInv
  <1>3. \A a \in Actors : hand[a] # NoMsg => hand[a].run # r
    BY <1>0 DEF Carried, InHands
  <1>4. CASE UNCHANGED records
    BY <1>1, <1>2, <1>4 DEF records
  <1>5. ASSUME NEW a \in Actors, SaveQueued(a) PROVE status'[r] = status[r]
    BY <1>0, <1>3, <1>5, HandType DEF SaveQueued, TypeOK
  <1>6. ASSUME NEW w \in Workers, StartRun(w) PROVE status'[r] = status[r]
    BY <1>0, <1>3, <1>6, HandType DEF StartRun, TypeOK, Actors
  <1>7. ASSUME NEW w \in Workers, NEW o \in {"success", "failed"}, FinishRun(w, o) PROVE status'[r] = status[r]
    BY <1>0, <1>3, <1>7, HandType DEF FinishRun, TypeOK, Actors
  <1>. QED
    BY <1>1, <1>2, <1>4, <1>5, <1>6, <1>7, RecordsChange

\* A run whose message was dropped or lost stays as it is for ever.
THEOREM LostRunsStayLost == Spec => LostForGood
  <1>1. IInv /\ IInv' /\ [Next]_vars => [\A r \in orphaned : r \in orphaned' /\ status'[r] = status[r] /\ ~Carried(r)']_vars
    BY LostStep
  <1>. QED
    BY <1>1, InvariantCorrect, PTL DEF Spec, LostForGood

(***************************************************************************)
(* The overlap guard                                                       *)
(***************************************************************************)

\* A run id keeps its issuer, and only a dispatch makes one the scheduler's.
LEMMA SourceKept ==
  ASSUME TypeOK, [Next]_vars, NEW r \in Runs
  PROVE  /\ source[r] # "none" => source'[r] = source[r]
         /\ source'[r] = "scheduler" => source[r] = "scheduler" \/ \E j \in Jobs : Dispatch(j, r)
  <1>1. ASSUME NEW j \in Jobs, NEW q \in Runs, Dispatch(j, q)
        PROVE  source[q] = "none" /\ source' = [source EXCEPT ![q] = "scheduler"]
    BY <1>1 DEF Dispatch, Fresh
  <1>2. ASSUME NEW c \in Clients, NEW q \in Runs, ManualRun(c, q)
        PROVE  source[q] = "none" /\ source' = [source EXCEPT ![q] = "manual"]
    BY <1>2 DEF ManualRun, Fresh
  <1>3. ASSUME NEW q \in Runs, FireTrigger(q)
        PROVE  source[q] = "none" /\ source' = [source EXCEPT ![q] = "trigger"]
    BY <1>3 DEF FireTrigger, Fresh
  <1>4. \/ source' = source
        \/ \E j \in Jobs, q \in Runs : Dispatch(j, q)
        \/ \E c \in Clients, q \in Runs : ManualRun(c, q)
        \/ \E q \in Runs : FireTrigger(q)
    BY DEF Next, SchedulerStep, Skip, PopDue, TakeDue, ClientStep, WorkerStep, Dequeue, Drop, StartRun,
           FinishRun, AbortRun, Retry, SaveStep, SaveQueued, IndexRemove, IndexAdd, Enqueue, Crash, vars, ghosts
  <1>. QED
    BY <1>1, <1>2, <1>3, <1>4 DEF TypeOK

\* A client only ever works on a run that it issued itself.
ClientSource == \A c \in Clients : hand[c] # NoMsg => source[hand[c].run] = "manual"

LEMMA ClientSourceStep == IInv /\ ClientSource /\ [Next]_vars => ClientSource'
  <1> SUFFICES ASSUME IInv, ClientSource, [Next]_vars, NEW c \in Clients, hand'[c] # NoMsg
               PROVE  source'[hand'[c].run] = "manual"
    BY DEF ClientSource
  <1>0. TypeOK /\ c \in Actors /\ c # Scheduler /\ c \notin Workers
    BY DEF IInv, Actors
  <1>1. CASE hand'[c] = hand[c]
    <2>1. source[hand[c].run] = "manual" /\ hand[c].run \in Runs
      BY <1>0, <1>1 DEF ClientSource, TypeOK, Message
    <2>2. \A r \in Runs : source[r] # "none" => source'[r] = source[r]
      BY <1>0, SourceKept
    <2>. QED
      BY <1>1, <2>1, <2>2
  <1>2. ASSUME NEW r \in Runs, ManualRun(c, r) PROVE source'[hand'[c].run] = "manual"
    BY <1>0, <1>2 DEF ManualRun, TypeOK
  <1>3. hand'[c] = hand[c] \/ \E r \in Runs : ManualRun(c, r)
    BY <1>0, ZenonT(30) DEF Next, SchedulerStep, Dispatch, Skip, PopDue, TakeDue, ClientStep, ManualRun, FireTrigger,
         WorkerStep, Dequeue, Drop, StartRun, FinishRun, AbortRun, Retry, Release, Goto,
         SaveStep, SaveQueued, IndexRemove, IndexAdd, Enqueue, Crash, vars, TypeOK
  <1>. QED
    BY <1>1, <1>2, <1>3

\* Only a dispatch adds an unstarted run.
LEMMA UnstartedStep ==
  ASSUME IInv, ClientSource, [Next]_vars, NEW r \in Runs, Unstarted(r)',
         ~(\E j \in Jobs : Dispatch(j, r))
  PROVE  Unstarted(r)
  <1>0. TypeOK /\ Scheduler \in Actors
    BY DEF IInv, Actors
  <1>1. source[r] = "scheduler"
    BY <1>0, SourceKept DEF Unstarted
  <1>2. CASE UNCHANGED records /\ hand'[Scheduler] \in {hand[Scheduler], NoMsg}
    BY <1>1, <1>2 DEF Unstarted, records
  <1>3. ASSUME NEW a \in Actors, SaveQueued(a) PROVE Unstarted(r)
    <2>0. hand[a] # NoMsg /\ hand[a].run \in Runs /\ pc[a] = "save_queued" /\ hand' = hand /\ a \notin Workers
      BY <1>0, <1>3, HandType DEF SaveQueued, TypeOK
    <2>1. CASE hand[a].run # r
      BY <1>0, <1>1, <1>3, <2>0, <2>1 DEF SaveQueued, SavedAttempt, Unstarted, TypeOK
    <2>2. CASE hand[a].run = r
      <3>1. attempt'[r] = hand[a].attempt /\ status'[r] = "queued"
        BY <1>0, <1>3, <2>2 DEF SaveQueued, SavedAttempt, TypeOK
      <3>2. hand[a].attempt = 0
        BY <3>1 DEF Unstarted
      <3>3. status[r] = "none"
        BY <1>0, <2>0, <2>2, <3>2 DEF IInv, HandStage, InProgress, AwaitsTime, Unrecorded, TypeOK
      <3>4. a = Scheduler
        BY <1>1, <2>0, <2>2 DEF ClientSource, Actors
      <3>. QED
        BY <1>1, <2>0, <2>2, <3>3, <3>4 DEF Unstarted
    <2>. QED
      BY <2>1, <2>2
  <1>4. ASSUME NEW m \in due, TakeDue(m) PROVE Unstarted(r)
    <2>1. /\ status' = status /\ attempt' = attempt /\ hand'[Scheduler] = m
      BY <1>0, <1>4 DEF TakeDue, records, TypeOK
    <2>2. status[m.run] # "none"
      BY DEF IInv, DelayedStage, AwaitsTime
    <2>. QED
      BY <1>1, <2>1, <2>2 DEF Unstarted
  <1>5. ASSUME NEW w \in Workers, StartRun(w) PROVE Unstarted(r)
    <2>1. hand[w] # NoMsg /\ hand[w].run \in Runs /\ hand' = hand /\ pc[w] = "got" /\ w \in Actors
      BY <1>0, <1>5, HandType DEF StartRun, Actors
    <2>2. status'[hand[w].run] = "running"
      BY <1>0, <1>5, <2>1 DEF StartRun, TypeOK
    <2>3. hand[w].run # r
      BY <2>2 DEF Unstarted
    <2>4. status'[r] = status[r] /\ attempt'[r] = attempt[r]
      BY <1>0, <1>5, <2>1, <2>3 DEF StartRun, TypeOK
    <2>. QED
      BY <1>1, <2>1, <2>4 DEF Unstarted
  <1>6. ASSUME NEW w \in Workers, NEW o \in {"success", "failed"}, FinishRun(w, o) PROVE Unstarted(r)
    <2>1. hand[w] # NoMsg /\ hand[w].run \in Runs /\ hand' = hand /\ attempt' = attempt /\ w \in Actors
      BY <1>0, <1>6, HandType DEF FinishRun, Actors
    <2>2. status'[hand[w].run] = o
      BY <1>0, <1>6, <2>1 DEF FinishRun, TypeOK
    <2>3. hand[w].run # r
      BY <2>2 DEF Unstarted
    <2>4. status'[r] = status[r]
      BY <1>0, <1>6, <2>1, <2>3 DEF FinishRun, TypeOK
    <2>. QED
      BY <1>1, <2>1, <2>4 DEF Unstarted
  <1>7. ASSUME NEW j \in Jobs, NEW q \in Runs, Dispatch(j, q) PROVE Unstarted(r)
    <2>1. q # r
      BY <1>7
    <2>2. status' = status /\ attempt' = attempt /\ hand'[Scheduler].run = q
      BY <1>0, <1>7 DEF Dispatch, records, TypeOK
    <2>. QED
      BY <1>1, <2>1, <2>2 DEF Unstarted
  <1>8. ASSUME ~(\E j \in Jobs, q \in Runs : Dispatch(j, q)), ~(\E m \in due : TakeDue(m)), UNCHANGED records
        PROVE  hand'[Scheduler] \in {hand[Scheduler], NoMsg}
    BY <1>0, <1>8 DEF Next, SchedulerStep, Skip, PopDue, ClientStep, ManualRun, FireTrigger,
         WorkerStep, Dequeue, Drop, StartRun, FinishRun, AbortRun, Retry, Release,
         SaveStep, SaveQueued, IndexRemove, IndexAdd, Enqueue, Crash, vars, TypeOK
  <1>. QED
    BY <1>2, <1>3, <1>4, <1>5, <1>6, <1>7, <1>8, RecordsChange

\* When the guard lets a job through, none of its runs is unstarted.
LEMMA GuardSees ==
  ASSUME IInv, IndexAgrees, ClientSource, NEW j \in Jobs, NEW q \in Runs, Dispatch(j, q),
         j \notin AllowOverlap, NEW r \in Runs \ torn, JobOf[r] = j
  PROVE  ~Unstarted(r)
  <1> SUFFICES ASSUME Unstarted(r) PROVE FALSE
    OBVIOUS
  <1>1. TypeOK /\ pc[Scheduler] = "idle" /\ hand[Scheduler] = NoMsg /\ index[j] = {}
    BY DEF IInv, TypeOK, Dispatch, Actors
  <1>2. status[r] = "queued" /\ source[r] = "scheduler"
    BY <1>1 DEF Unstarted
  <1>3. PICK a \in Actors : pc[a] \in Refreshing /\ hand[a].run = r
    BY <1>1, <1>2 DEF IndexAgrees, Active
  <1>4. hand[a] # NoMsg /\ InProgress(hand[a], pc[a])
    BY <1>1, <1>3, HandType DEF IInv, HandStage, Refreshing
  <1>5. pc[a] \in {"queued_srem", "queued_sadd"}
    BY <1>2, <1>3, <1>4 DEF InProgress, Refreshing
  <1>6. a \in Clients
    BY <1>1, <1>5 DEF TypeOK, Actors
  <1>. QED
    BY <1>2, <1>3, <1>4, <1>6 DEF ClientSource

LEMMA NoBacklogStep ==
  IInv /\ IndexAgrees /\ ClientSource /\ NoBacklog /\ [Next]_vars => NoBacklog'
  <1> SUFFICES ASSUME IInv, IndexAgrees, ClientSource, NoBacklog, [Next]_vars,
                      NEW r \in Runs \ torn', NEW s \in Runs \ torn',
                      JobOf[r] = JobOf[s], JobOf[r] \notin AllowOverlap,
                      Unstarted(r)', Unstarted(s)', r # s
               PROVE  FALSE
    BY DEF NoBacklog
  <1>1. r \notin torn /\ s \notin torn
    BY DEF Next, SchedulerStep, Dispatch, Skip, PopDue, TakeDue, ClientStep, ManualRun, FireTrigger,
           WorkerStep, Dequeue, Drop, StartRun, FinishRun, AbortRun, Retry,
           SaveStep, SaveQueued, IndexRemove, IndexAdd, Enqueue, Crash, vars, ghosts
  <1>2. ASSUME NEW j \in Jobs, Dispatch(j, r) PROVE FALSE
    <2>1. JobOf[s] = j /\ ~Unstarted(s)
      BY <1>1, <1>2, GuardSees DEF Dispatch
    <2>2. \A i \in Jobs : ~Dispatch(i, s)
      BY <1>2 DEF Dispatch, IInv, TypeOK, Actors
    <2>. QED
      BY <2>1, <2>2, UnstartedStep
  <1>3. ASSUME NEW j \in Jobs, Dispatch(j, s) PROVE FALSE
    <2>1. JobOf[r] = j /\ ~Unstarted(r)
      BY <1>1, <1>3, GuardSees DEF Dispatch
    <2>2. \A i \in Jobs : ~Dispatch(i, r)
      BY <1>3 DEF Dispatch, IInv, TypeOK, Actors
    <2>. QED
      BY <2>1, <2>2, UnstartedStep
  <1>4. ASSUME \A j \in Jobs : ~Dispatch(j, r) /\ ~Dispatch(j, s) PROVE FALSE
    <2>1. Unstarted(r) /\ Unstarted(s)
      BY <1>4, UnstartedStep
    <2>. QED
      BY <1>1, <2>1 DEF NoBacklog
  <1>. QED
    BY <1>2, <1>3, <1>4

\* The scheduler never has two runs of a job without allow_overlap waiting
\* for their first start, however slow or dead the workers are.
THEOREM SchedulerDoesNotPileUp == Spec => []NoBacklog
  <1>1. Init => ClientSource /\ NoBacklog
    BY DEF Init, ClientSource, NoBacklog, Unstarted, Actors
  <1>. QED
    BY <1>1, InvariantCorrect, IndexIsRight, ClientSourceStep, NoBacklogStep, PTL DEF Spec
================================================================================

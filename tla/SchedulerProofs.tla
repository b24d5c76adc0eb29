--------------------------- MODULE SchedulerProofs ----------------------------
(***************************************************************************)
(* Proofs about the scheduler: its loop (DispatchGuard), and the failure   *)
(* memory that its guard reads (FailureMemory).                            *)
(*                                                                         *)
(* A dispatch has two steps, so most of the loop's invariant says what     *)
(* stays true of the job between them: it still fits the tick              *)
(* (ChoiceStands), its flow still has room for a first attempt             *)
(* (FlowStillHasRoom), and its slot is still another one.  The memory      *)
(* between two reloads is bounded by the round (StaleByRound) and by the   *)
(* slots (SlotsRemembered).  The failure memory's invariant is at the end. *)
(***************************************************************************)
EXTENDS DispatchGuard, FailureMemory, FoldTheorems

(***************************************************************************)
(* The loop                                                                *)
(***************************************************************************)
LoopTypes ==
  /\ phase \in Phases /\ rest \in Seq(Jobs) /\ chosen \in Jobs \cup {None}
  /\ round \in 0..(ReloadEvery - 1) /\ jobs \in SUBSET Jobs /\ count \in 0..MaxDispatch

MemoryTypes ==
  /\ age \in [Jobs -> Nat \cup {None}] /\ \A j \in Jobs : age[j] \in 0..Interval[j] \cup {None}
  /\ slot \in [Jobs -> 0..MaxMinute \cup {None}]

LoadTypes == pressure \in BOOLEAN /\ seen \in Nat

WorkTypes ==
  /\ depth \in Nat
  /\ queued \in [Jobs -> [Kinds -> Nat]] /\ running \in [Jobs -> [Kinds -> Nat]]
  /\ retrying \in [Jobs -> Nat]

OtherTypes == enabled \in SUBSET Jobs /\ minute \in 0..MaxMinute /\ held \in SUBSET Jobs

OffTypes == off \in [Jobs -> 0..ReloadEvery + 1]

SlotTypes ==
  /\ fired \in [CronJobs -> SUBSET (0..MaxMinute)]
  /\ twice \in SUBSET CronJobs /\ forgotten \in SUBSET CronJobs

\* A job that was let through fits the tick, and the phase is the one it is for.
ChoiceStands ==
  chosen # None =>
    /\ count < MaxDispatch
    /\ \/ phase = "interval"
       \/ phase = "cron" /\ chosen \in CronJobs /\ slot[chosen] # minute

\* The list is as long as the runs that wait are many.
DepthIsBacklog == Legacy => depth = Backlog

\* The flow of a job that was let through takes one more first attempt.
FlowStillHasRoom ==
  chosen # None /\ FlowLimit[chosen] > 0 => FirstsInFlow(FlowOf[chosen]) < FlowLimit[chosen]

\* How long a job that is still loaded can have been disabled, by the round.
StaleBound == IF phase = "load" THEN ReloadEvery ELSE IF round = 0 THEN ReloadEvery - 1 ELSE round - 1
StaleByRound == \A j \in jobs \ enabled : off[j] <= StaleBound

\* What the slots say of the minutes, as long as they are not lost.
SlotsRemembered ==
  /\ twice \subseteq forgotten
  /\ \A j \in CronJobs : \A m \in fired[j] : m <= minute
  /\ \A j \in CronJobs \ forgotten : minute \in fired[j] => slot[j] = minute

\* The invariant, by the parts of the system that its conjuncts are kept by.
LoopInv == LoopTypes /\ OtherTypes /\ ChoiceStands
LoadInv == LoadTypes /\ Hysteresis
WorkInv == WorkTypes /\ DepthIsBacklog
FlowsKept == FlowStillHasRoom /\ FirstsWithinFlow
StaleInv == OffTypes /\ StaleByRound
SlotsInv == SlotTypes /\ SlotsRemembered
IInv == LoopInv /\ MemoryTypes /\ LoadInv /\ WorkInv /\ FlowsKept /\ StaleInv /\ SlotsInv

(***************************************************************************)
(* The constants                                                           *)
(***************************************************************************)
LEMMA Numbers ==
  /\ MaxDispatch \in Nat \ {0} /\ ReloadEvery \in Nat \ {0}
  /\ DepthHigh \in Nat /\ DepthLow \in Nat /\ DepthLow < DepthHigh
  /\ MaxMinute \in Nat
  BY GuardAssumption

LEMMA JobsFinite == IsFiniteSet(Jobs)
  <1>1. Len(Order) \in Nat /\ IsFiniteSet(1..Len(Order))
    BY GuardAssumption, FS_Interval
  <1>2. PICK f : f = [i \in 1..Len(Order) |-> Order[i]]
    OBVIOUS
  <1>3. Jobs = {f[i] : i \in 1..Len(Order)}
    BY <1>2 DEF Jobs
  <1>4. f \in [1..Len(Order) -> Jobs]
    BY <1>2 DEF Jobs
  <1>5. f \in Surjection(1..Len(Order), Jobs)
    BY <1>3, <1>4 DEF Surjection
  <1>. QED
    BY <1>1, <1>5, FS_Surjection

\* The walk through the jobs meets jobs.
LEMMA WalkType == ASSUME NEW J \in SUBSET Jobs PROVE Walk(J) \in Seq(Jobs)
  <1>1. Walk(J) = Sifted(Order, J)
    BY DEF Walk, Sifted
  <1>2. Sifted(Order, J) \in Seq(J)
    BY GuardAssumption, SiftedType
  <1>3. \A q \in Seq(J) : q \in Seq(Jobs)
    OBVIOUS
  <1>. QED
    BY <1>1, <1>2, <1>3

(***************************************************************************)
(* The loop                                                                *)
(***************************************************************************)
LEMMA LoopInit == Init => LoopInv
  BY GuardAssumption DEF Init, LoopInv, LoopTypes, OtherTypes, ChoiceStands, Phases

LEMMA LoopStep == LoopInv /\ [Next]_vars => LoopInv'
  <1> SUFFICES ASSUME LoopInv, [Next]_vars PROVE LoopInv'
    OBVIOUS
  <1> USE GuardAssumption DEF LoopInv, LoopTypes, OtherTypes, ChoiceStands, Phases
  <1>0. UNCHANGED vars => LoopInv'
    BY DEF vars, loop, memory
  <1>1. BeginRound => LoopInv'
    <2> SUFFICES ASSUME BeginRound PROVE LoopInv'
      OBVIOUS
    <2>1. Walk(jobs) \in Seq(Jobs) /\ <<>> \in Seq(Jobs)
      BY WalkType
    <2>2. (round + 1) % ReloadEvery \in 0..(ReloadEvery - 1)
      BY SMTT(30)
    <2>3. LoopTypes'
      BY <2>1, <2>2 DEF BeginRound, CountAtStart, NextRound
    <2>4. chosen' = None
      BY DEF BeginRound
    <2>5. OtherTypes'
      BY DEF BeginRound
    <2>. QED
      BY <2>3, <2>4, <2>5
  <1>2. LoadJobs => LoopInv'
    <2>1. Walk(enabled) \in Seq(Jobs)
      BY WalkType
    <2>. QED
      BY <2>1 DEF LoadJobs
  <1>3. Dispatch => LoopInv'
    <2> SUFFICES ASSUME Dispatch PROVE LoopInv'
      OBVIOUS
    <2>1. chosen' = None /\ count' = count + 1 /\ count < MaxDispatch
      BY DEF Dispatch
    <2>2. UNCHANGED <<phase, rest, round, jobs, enabled, minute, held>>
      BY DEF Dispatch
    <2>. QED
      BY <2>1, <2>2, SMTT(30)
  <1>4. EndPhase => LoopInv'
    <2>1. Walk(jobs) \in Seq(Jobs) /\ <<>> \in Seq(Jobs)
      BY WalkType
    <2>. QED
      BY <2>1 DEF EndPhase, memory
  <1>5. ASSUME NEW j \in Jobs PROVE LookInterval(j) => LoopInv'
    <2> SUFFICES ASSUME LookInterval(j) PROVE LoopInv'
      OBVIOUS
    <2>1. Tail(rest) \in Seq(Jobs)
      BY DEF LookInterval, Choose, Pass
    <2>2. rest' = Tail(rest) /\ chosen' \in {None, j} /\ count < MaxDispatch /\ phase = "interval"
      BY DEF LookInterval, Choose, Pass, TickHasRoom
    <2>3. UNCHANGED <<phase, round, jobs, count, enabled, minute, held>>
      BY DEF LookInterval, Choose, Pass
    <2>. QED
      BY <2>1, <2>2, <2>3
  <1>6. ASSUME NEW j \in Jobs, NEW matches \in BOOLEAN PROVE LookCron(j, matches) => LoopInv'
    <2> SUFFICES ASSUME LookCron(j, matches) PROVE LoopInv'
      OBVIOUS
    <2>1. Tail(rest) \in Seq(Jobs)
      BY DEF LookCron, Choose, Pass
    <2>2. rest' = Tail(rest) /\ chosen' \in {None, j} /\ count < MaxDispatch /\ phase = "cron"
      BY DEF LookCron, Choose, Pass, TickHasRoom
    <2>3. UNCHANGED <<phase, round, jobs, count, enabled, minute, held, slot>>
      BY DEF LookCron, Choose, Pass, memory
    <2>4. chosen' # None => j \in CronJobs /\ slot[j] # minute
      BY DEF LookCron, Choose, Pass, SlotDone
    <2>. QED
      BY <2>1, <2>2, <2>3, <2>4
  <1>7. ASSUME NEW j \in Jobs PROVE QueueRetry(j) => LoopInv'
    BY DEF QueueRetry, loop, memory
  <1>8. ASSUME NEW d \in 1..2 PROVE Sleep(d) => LoopInv'
    BY DEF Sleep
  <1>9. ASSUME NEW j \in Jobs, NEW k \in Kinds PROVE WorkerStep(j, k) => LoopInv'
    BY DEF WorkerStep, Deliver, Finish, loop, memory
  <1>10. ASSUME NEW j \in Jobs PROVE ManualRun(j) \/ Toggle(j) \/ Hold(j) => LoopInv'
    BY DEF ManualRun, Toggle, Hold, loop, memory
  <1>11. Restart => LoopInv'
    BY DEF Restart
  <1>. QED
    BY <1>0, <1>1, <1>2, <1>3, <1>4, <1>5, <1>6, <1>7, <1>8, <1>9, <1>10, <1>11
       DEF Next, SchedulerStep, ClientStep

(***************************************************************************)
(* The memory: ages and slots                                              *)
(***************************************************************************)
LEMMA RememberedInit == Init => MemoryTypes
  BY GuardAssumption DEF Init, MemoryTypes

\* An age is a number up to the interval, or None.
LEMMA AgeTypes ==
  ASSUME MemoryTypes, NEW j \in Jobs
  PROVE  /\ Interval[j] \in Nat /\ Offset[j] \in Nat
         /\ age[j] \in 0..Interval[j] \/ age[j] = None
  BY GuardAssumption DEF MemoryTypes

LEMMA CutOff ==
  ASSUME NEW n \in Nat, NEW a \in 0..n, NEW d \in 1..2
  PROVE  (IF a + d > n THEN n ELSE a + d) \in 0..n
  OBVIOUS

LEMMA MemoryStep == LoopInv /\ MemoryTypes /\ [Next]_vars => MemoryTypes'
  <1> SUFFICES ASSUME LoopInv, MemoryTypes, [Next]_vars PROVE MemoryTypes'
    OBVIOUS
  <1> USE GuardAssumption
  <1>0. UNCHANGED memory => MemoryTypes'
    BY DEF memory, MemoryTypes
  <1>1. LoadJobs => MemoryTypes'
    <2> SUFFICES ASSUME LoadJobs PROVE MemoryTypes'
      OBVIOUS
    <2>1. age' = [j \in Jobs |-> IF j \in enabled THEN age[j] ELSE None]
      BY DEF LoadJobs, Kept
    <2>2. slot' = [j \in Jobs |-> IF j \in enabled THEN slot[j] ELSE None]
      BY DEF LoadJobs, Kept
    <2>3. slot' \in [Jobs -> 0..MaxMinute \cup {None}]
      BY <2>2 DEF MemoryTypes
    <2>. QED
      BY <2>1, <2>3 DEF MemoryTypes
  <1>2. Dispatch => MemoryTypes'
    <2> SUFFICES ASSUME Dispatch PROVE MemoryTypes'
      OBVIOUS
    <2>1. chosen \in Jobs /\ minute \in 0..MaxMinute
      BY DEF Dispatch, LoopInv, LoopTypes, OtherTypes
    <2>2. CASE phase = "interval"
      <3>1. age' = [age EXCEPT ![chosen] = 0] /\ slot' = slot
        BY <2>2 DEF Dispatch
      <3>2. 0 \in 0..Interval[chosen]
        BY <2>1
      <3>3. age' \in [Jobs -> Nat \cup {None}]
        BY <2>1, <3>1 DEF MemoryTypes
      <3>4. \A j \in Jobs : age'[j] \in 0..Interval[j] \cup {None}
        BY <2>1, <3>1, <3>2 DEF MemoryTypes
      <3>. QED
        BY <3>1, <3>3, <3>4 DEF MemoryTypes
    <2>3. CASE phase # "interval"
      <3>1. slot' = [slot EXCEPT ![chosen] = minute] /\ age' = age
        BY <2>3 DEF Dispatch
      <3>. QED
        BY <2>1, <3>1 DEF MemoryTypes
    <2>. QED
      BY <2>2, <2>3
  <1>3. ASSUME NEW j \in Jobs PROVE LookInterval(j) => MemoryTypes'
    <2> SUFFICES ASSUME LookInterval(j) PROVE MemoryTypes'
      OBVIOUS
    <2>1. CASE Interval[j] > 0 /\ Offset[j] > 0
      <3>1. PICK a \in 0..Interval[j] : a = Interval[j] - Offset[j]
        <4>1. Offset[j] < Interval[j] /\ Interval[j] \in Nat /\ Offset[j] \in Nat
          BY <2>1 DEF IntervalJobs
        <4>. QED
          BY <4>1
      <3>2. slot' = slot /\ (age' = age \/ age' = [age EXCEPT ![j] = a])
        BY <3>1 DEF LookInterval
      <3>3. CASE age' = age
        BY <1>0, <3>2, <3>3 DEF memory
      <3>4. CASE age' = [age EXCEPT ![j] = a]
        <4>1. age' \in [Jobs -> Nat \cup {None}]
          BY <3>4 DEF MemoryTypes
        <4>2. \A i \in Jobs : age'[i] \in 0..Interval[i] \cup {None}
          BY <3>1, <3>4 DEF MemoryTypes
        <4>. QED
          BY <3>2, <4>1, <4>2 DEF MemoryTypes
      <3>. QED
        BY <3>2, <3>3, <3>4
    <2>2. CASE ~(Interval[j] > 0 /\ Offset[j] > 0)
      BY <1>0, <2>2 DEF LookInterval, memory
    <2>. QED
      BY <2>1, <2>2
  <1>4. ASSUME NEW d \in 1..2 PROVE Sleep(d) => MemoryTypes'
    <2> SUFFICES ASSUME Sleep(d) PROVE MemoryTypes'
      OBVIOUS
    <2>1. age' = [j \in Jobs |-> IF age[j] = None THEN None
                                 ELSE IF age[j] + d > Interval[j] THEN Interval[j] ELSE age[j] + d]
      BY DEF Sleep, Aged
    <2>2. ASSUME NEW j \in Jobs PROVE age'[j] \in 0..Interval[j] \cup {None}
      <3>1. PICK n \in Nat : n = Interval[j]
        BY AgeTypes
      <3>2. CASE age[j] = None
        BY <2>1, <3>2
      <3>3. CASE age[j] # None
        <4>1. PICK a \in 0..n : a = age[j]
          BY <3>1, <3>3, AgeTypes
        <4>2. age'[j] = IF a + d > n THEN n ELSE a + d
          BY <2>1, <3>1, <3>3, <4>1
        <4>3. (IF a + d > n THEN n ELSE a + d) \in 0..n
          BY CutOff
        <4>. QED
          BY <3>1, <4>2, <4>3
      <3>. QED
        BY <3>2, <3>3
    <2>3. \A j \in Jobs : age'[j] \in Nat \cup {None}
      BY <2>2
    <2>4. slot' = slot
      BY DEF Sleep
    <2>. QED
      BY <2>1, <2>2, <2>3, <2>4 DEF MemoryTypes
  <1>5. Restart => MemoryTypes'
    <2>1. Restart => age' = [j \in Jobs |-> None] /\ slot' = [j \in Jobs |-> None]
      BY DEF Restart
    <2>. QED
      BY <2>1 DEF MemoryTypes
  <1>6. \/ LoadJobs \/ Dispatch \/ Restart \/ UNCHANGED memory
        \/ \E j \in Jobs : LookInterval(j)
        \/ \E d \in 1..2 : Sleep(d)
    BY DEF Next, SchedulerStep, ClientStep, WorkerStep, BeginRound, EndPhase, LookCron, QueueRetry,
           Deliver, Finish, ManualRun, Toggle, Hold, vars
  <1>. QED
    BY <1>0, <1>1, <1>2, <1>3, <1>4, <1>5, <1>6

(***************************************************************************)
(* Pressure                                                                *)
(***************************************************************************)
LEMMA LoadInit == Init => LoadInv
  <1>1. 0 \in Nat /\ 0 < DepthHigh
    BY Numbers
  <1>. QED
    BY <1>1 DEF Init, LoadInv, LoadTypes, Hysteresis

LEMMA LoadStep == LoadInv /\ depth \in Nat /\ [Next]_vars => LoadInv'
  <1> SUFFICES ASSUME LoadInv, depth \in Nat, [Next]_vars PROVE LoadInv'
    OBVIOUS
  <1> USE DEF LoadInv, LoadTypes, Hysteresis
  <1>1. UNCHANGED load => LoadInv'
    BY DEF load
  <1>2. BeginRound => LoadInv'
    <2> SUFFICES ASSUME BeginRound PROVE LoadInv'
      OBVIOUS
    <2>1. seen' = depth
      BY DEF BeginRound
    <2>2. /\ ~(depth > DepthLow) => depth < DepthHigh
          /\ depth >= DepthHigh => depth > DepthLow
          /\ ~(depth >= DepthHigh) => depth < DepthHigh
      BY Numbers
    <2>3. CASE pressure
      <3>1. pressure' = (depth > DepthLow)
        BY <2>3 DEF BeginRound, PressureAfter
      <3>2. pressure' \in BOOLEAN /\ seen' \in Nat
        BY <2>1, <3>1
      <3>3. CASE (depth > DepthLow)
        <4>1. pressure' /\ seen' > DepthLow
          BY <2>1, <2>2, <3>1, <3>3
        <4>. QED
          BY <3>2, <4>1
      <3>4. CASE ~(depth > DepthLow)
        <4>1. ~pressure' /\ seen' < DepthHigh
          BY <2>1, <2>2, <3>1, <3>4
        <4>. QED
          BY <3>2, <4>1
      <3>. QED
        BY <3>3, <3>4
    <2>4. CASE ~pressure
      <3>1. pressure' = (depth >= DepthHigh)
        BY <2>4 DEF BeginRound, PressureAfter
      <3>2. pressure' \in BOOLEAN /\ seen' \in Nat
        BY <2>1, <3>1
      <3>3. CASE (depth >= DepthHigh)
        <4>1. pressure' /\ seen' > DepthLow
          BY <2>1, <2>2, <3>1, <3>3
        <4>. QED
          BY <3>2, <4>1
      <3>4. CASE ~(depth >= DepthHigh)
        <4>1. ~pressure' /\ seen' < DepthHigh
          BY <2>1, <2>2, <3>1, <3>4
        <4>. QED
          BY <3>2, <4>1
      <3>. QED
        BY <3>3, <3>4
    <2>. QED
      BY <2>3, <2>4
  <1>3. Restart => LoadInv'
    <2>1. 0 \in Nat /\ 0 < DepthHigh
      BY Numbers
    <2>. QED
      BY <2>1 DEF Restart
  <1>4. BeginRound \/ Restart \/ UNCHANGED load
    BY DEF Next, SchedulerStep, ClientStep, WorkerStep, LoadJobs, Dispatch, EndPhase, LookInterval, LookCron,
           Choose, Pass, QueueRetry, Sleep, Deliver, Finish, ManualRun, Toggle, Hold, vars
  <1>. QED
    BY <1>1, <1>2, <1>3, <1>4

(***************************************************************************)
(* The runs and the queue                                                  *)
(***************************************************************************)
CountTypes == [Jobs -> [Kinds -> Nat]]

More(q, j, k) == [q EXCEPT ![j][k] = @ + 1]
Less(q, j, k) == [q EXCEPT ![j][k] = @ - 1]

LEMMA OneMore ==
  ASSUME NEW q \in CountTypes, NEW j \in Jobs, NEW k \in Kinds
  PROVE  /\ More(q, j, k) \in CountTypes /\ More(q, j, k)[j][k] = q[j][k] + 1
         /\ \A i \in Jobs, l \in Kinds : i # j \/ l # k => More(q, j, k)[i][l] = q[i][l]
  <1>1. q[j][k] \in Nat
    BY DEF CountTypes
  <1>2. PICK n \in Nat : n = q[j][k] + 1
    BY <1>1
  <1>3. More(q, j, k) = [q EXCEPT ![j] = [q[j] EXCEPT ![k] = n]]
    BY <1>2 DEF More
  <1>4. [q[j] EXCEPT ![k] = n] \in [Kinds -> Nat]
    BY DEF CountTypes
  <1>. QED
    BY <1>2, <1>3, <1>4 DEF CountTypes

LEMMA OneLess ==
  ASSUME NEW q \in CountTypes, NEW j \in Jobs, NEW k \in Kinds, q[j][k] > 0
  PROVE  /\ Less(q, j, k) \in CountTypes /\ Less(q, j, k)[j][k] = q[j][k] - 1
         /\ \A i \in Jobs, l \in Kinds : i # j \/ l # k => Less(q, j, k)[i][l] = q[i][l]
  <1>1. q[j][k] \in Nat
    BY DEF CountTypes
  <1>2. PICK n \in Nat : n = q[j][k] - 1
    BY <1>1
  <1>3. Less(q, j, k) = [q EXCEPT ![j] = [q[j] EXCEPT ![k] = n]]
    BY <1>2 DEF Less
  <1>4. [q[j] EXCEPT ![k] = n] \in [Kinds -> Nat]
    BY DEF CountTypes
  <1>. QED
    BY <1>2, <1>3, <1>4 DEF CountTypes

\* The backlog of the counts q.
Waiting(q) == [j \in Jobs |-> q[j]["first"] + q[j]["other"]]
BacklogOf(q) == SumFunctionOnSet(Waiting(q), Jobs)

LEMMA BacklogMoves ==
  ASSUME NEW q \in CountTypes, NEW p \in CountTypes, NEW j \in Jobs, NEW k \in Kinds,
         \A i \in Jobs, l \in Kinds : i # j \/ l # k => p[i][l] = q[i][l]
  PROVE  /\ BacklogOf(q) \in Nat /\ BacklogOf(p) \in Nat
         /\ BacklogOf(p) + q[j][k] = BacklogOf(q) + p[j][k]
  <1>1. PICK f : f = Waiting(q)
    OBVIOUS
  <1>2. PICK g : g = Waiting(p)
    OBVIOUS
  <1>3. \A i \in Jobs : f[i] = q[i]["first"] + q[i]["other"] /\ g[i] = p[i]["first"] + p[i]["other"]
    BY <1>1, <1>2 DEF Waiting
  <1>4. \A i \in Jobs : f[i] \in Nat /\ g[i] \in Nat
    BY <1>3 DEF CountTypes, Kinds
  <1>5. \A i \in Jobs \ {j} : f[i] = g[i]
    BY <1>3 DEF Kinds
  <1>6. f[j] + p[j][k] = g[j] + q[j][k]
    <2>1. PICK l \in Kinds : l # k /\ ((l = "first" /\ k = "other") \/ (l = "other" /\ k = "first"))
      <3>1. k = "first" \/ k = "other"
        BY DEF Kinds
      <3>2. "first" \in Kinds /\ "other" \in Kinds /\ "first" # "other"
        BY DEF Kinds
      <3>. QED
        BY <3>1, <3>2
    <2>4. p[j][l] = q[j][l]
      BY <2>1
    <2>2. p[j][k] \in Nat /\ q[j][k] \in Nat /\ p[j][l] \in Nat
      BY DEF CountTypes
    <2>3. f[j] = q[j][k] + q[j][l] /\ g[j] = p[j][k] + p[j][l]
      BY <1>3, <2>1, <2>2
    <2>. QED
      BY <2>2, <2>3, <2>4
  <1>7. PICK m \in Nat : m = SumFunctionOnSet(f, Jobs)
    BY <1>4, JobsFinite, SumType
  <1>8. PICK n \in Nat : n = SumFunctionOnSet(g, Jobs)
    BY <1>4, JobsFinite, SumType
  <1>9. n + f[j] = m + g[j]
    BY <1>4, <1>5, <1>7, <1>8, JobsFinite, SumChanges
  <1>10. m = BacklogOf(q) /\ n = BacklogOf(p)
    BY <1>1, <1>2, <1>7, <1>8 DEF BacklogOf
  <1>11. n + q[j][k] = m + p[j][k]
    <2>1. p[j][k] \in Nat /\ q[j][k] \in Nat /\ f[j] \in Nat /\ g[j] \in Nat
      BY <1>4 DEF CountTypes
    <2>. QED
      BY <1>6, <1>9, <2>1
  <1>. QED
    BY <1>10, <1>11

LEMMA BacklogIs == Backlog = BacklogOf(queued) /\ Backlog' = BacklogOf(queued')
  BY DEF Backlog, BacklogOf, Waiting

\* A run is queued and the queue gets deeper.
LEMMA Enqueued ==
  ASSUME WorkInv, NEW j \in Jobs, NEW k \in Kinds,
         queued' = More(queued, j, k), depth' = Deeper
  PROVE  queued' \in CountTypes /\ depth' \in Nat /\ DepthIsBacklog'
  <1>1. queued \in CountTypes /\ depth \in Nat
    BY DEF WorkInv, WorkTypes, CountTypes
  <1>2. PICK q : q = queued' /\ q = More(queued, j, k)
    OBVIOUS
  <1>3. /\ q \in CountTypes /\ q[j][k] = queued[j][k] + 1
        /\ \A i \in Jobs, l \in Kinds : i # j \/ l # k => q[i][l] = queued[i][l]
    BY <1>1, <1>2, OneMore
  <1>4. BacklogOf(q) + queued[j][k] = BacklogOf(queued) + q[j][k] /\ BacklogOf(q) \in Nat /\ BacklogOf(queued) \in Nat
    BY <1>1, <1>3, BacklogMoves
  <1>5. BacklogOf(q) = BacklogOf(queued) + 1
    <2>1. queued[j][k] \in Nat
      BY <1>1 DEF CountTypes
    <2>. QED
      BY <1>3, <1>4, <2>1
  <1>6. depth' \in Nat
    BY <1>1 DEF Deeper
  <1>7. Legacy => depth' = depth + 1
    BY DEF Deeper
  <1>8. Legacy => depth = BacklogOf(queued)
    BY BacklogIs DEF WorkInv, DepthIsBacklog
  <1>9. Legacy => depth' = BacklogOf(q)
    BY <1>5, <1>7, <1>8
  <1>. QED
    BY <1>2, <1>3, <1>6, <1>9, BacklogIs DEF DepthIsBacklog

\* A worker takes a run and the list gets shorter.
LEMMA Delivered ==
  ASSUME WorkInv, NEW j \in Jobs, NEW k \in Kinds, Deliver(j, k)
  PROVE  queued' \in CountTypes /\ running' \in CountTypes /\ depth' \in Nat /\ DepthIsBacklog'
  <1>1. queued \in CountTypes /\ running \in CountTypes /\ depth \in Nat
    BY DEF WorkInv, WorkTypes, CountTypes
  <1>2. PICK q : q = queued' /\ q = Less(queued, j, k)
    BY DEF Deliver, Less
  <1>3. /\ q \in CountTypes /\ q[j][k] = queued[j][k] - 1 /\ queued[j][k] > 0
        /\ \A i \in Jobs, l \in Kinds : i # j \/ l # k => q[i][l] = queued[i][l]
    <2>1. queued[j][k] > 0
      BY DEF Deliver
    <2>. QED
      BY <1>1, <1>2, <2>1, OneLess
  <1>4. BacklogOf(q) + queued[j][k] = BacklogOf(queued) + q[j][k] /\ BacklogOf(q) \in Nat /\ BacklogOf(queued) \in Nat
    BY <1>1, <1>3, BacklogMoves
  <1>5. BacklogOf(q) + 1 = BacklogOf(queued)
    <2>1. queued[j][k] \in Nat
      BY <1>1 DEF CountTypes
    <2>. QED
      BY <1>3, <1>4, <2>1
  <1>6. depth' = IF Legacy THEN depth - 1 ELSE depth
    BY DEF Deliver, Shallower
  <1>7. Legacy => depth = BacklogOf(queued)
    BY BacklogIs DEF WorkInv, DepthIsBacklog
  <1>8. Legacy => depth' = BacklogOf(q)
    BY <1>1, <1>4, <1>5, <1>6, <1>7
  <1>9. depth' \in Nat
    BY <1>1, <1>4, <1>6, <1>8
  <1>10. running' \in CountTypes
    <2>1. PICK r : r = running' /\ r = More(running, j, k)
      BY DEF Deliver, More
    <2>. QED
      BY <1>1, <2>1, OneMore
  <1>. QED
    BY <1>2, <1>3, <1>8, <1>9, <1>10, BacklogIs DEF DepthIsBacklog

LEMMA RetryingStays ==
  ASSUME retrying \in [Jobs -> Nat], NEW j \in Jobs,
         \/ UNCHANGED retrying
         \/ retrying' = [retrying EXCEPT ![j] = @ + 1]
         \/ retrying[j] > 0 /\ retrying' = [retrying EXCEPT ![j] = @ - 1]
  PROVE  retrying' \in [Jobs -> Nat]
  <1>1. PICK n \in Nat : n = retrying[j]
    OBVIOUS
  <1>2. CASE retrying' = [retrying EXCEPT ![j] = @ + 1]
    <2>1. retrying' = [retrying EXCEPT ![j] = n + 1] /\ n + 1 \in Nat
      BY <1>1, <1>2
    <2>. QED
      BY <2>1
  <1>3. CASE retrying[j] > 0 /\ retrying' = [retrying EXCEPT ![j] = @ - 1]
    <2>1. retrying' = [retrying EXCEPT ![j] = n - 1] /\ n - 1 \in Nat
      BY <1>1, <1>3
    <2>. QED
      BY <2>1
  <1>. QED
    BY <1>2, <1>3

LEMMA WorkInit == Init => WorkInv
  <1> SUFFICES ASSUME Init PROVE WorkInv
    OBVIOUS
  <1>1. WorkTypes
    BY DEF Init, WorkTypes
  <1>2. PICK f : f = Waiting(queued)
    OBVIOUS
  <1>3. \A j \in Jobs : f[j] = 0
    BY <1>2 DEF Init, Waiting, Kinds
  <1>4. BacklogOf(queued) = 0
    <2>1. SumFunctionOnSet(f, Jobs) = 0
      BY <1>3, JobsFinite, SumOfZeros
    <2>. QED
      BY <1>2, <2>1 DEF BacklogOf
  <1>. QED
    BY <1>1, <1>4, BacklogIs DEF Init, WorkInv, DepthIsBacklog

LEMMA WorkStep == LoopInv /\ WorkInv /\ [Next]_vars => WorkInv'
  <1> SUFFICES ASSUME LoopInv, WorkInv, [Next]_vars PROVE WorkInv'
    OBVIOUS
  <1>0. UNCHANGED work => WorkInv'
    BY DEF work, WorkInv, WorkTypes, DepthIsBacklog, Backlog
  <1>a. /\ depth \in Nat /\ retrying \in [Jobs -> Nat]
        /\ queued \in CountTypes /\ running \in CountTypes
    BY DEF WorkInv, WorkTypes, CountTypes
  <1>1. Dispatch => WorkInv'
    <2> SUFFICES ASSUME Dispatch PROVE WorkInv'
      OBVIOUS
    <2>1. chosen \in Jobs /\ "first" \in Kinds
      BY DEF Dispatch, LoopInv, LoopTypes, Kinds
    <2>2. queued' = More(queued, chosen, "first") /\ depth' = Deeper
      BY DEF Dispatch, More
    <2>3. UNCHANGED <<running, retrying>>
      BY DEF Dispatch
    <2>4. queued' \in CountTypes /\ depth' \in Nat /\ DepthIsBacklog'
      BY <2>1, <2>2, Enqueued
    <2>. QED
      BY <1>a, <2>3, <2>4 DEF WorkInv, WorkTypes, CountTypes
  <1>2. ASSUME NEW j \in Jobs PROVE QueueRetry(j) \/ ManualRun(j) => WorkInv'
    <2> SUFFICES ASSUME QueueRetry(j) \/ ManualRun(j) PROVE WorkInv'
      OBVIOUS
    <2>1. queued' = More(queued, j, "other") /\ depth' = Deeper /\ running' = running
      BY DEF QueueRetry, ManualRun, More
    <2>2. queued' \in CountTypes /\ depth' \in Nat /\ DepthIsBacklog'
      BY <2>1, Enqueued DEF Kinds
    <2>3. retrying' \in [Jobs -> Nat]
      BY <1>a, RetryingStays DEF QueueRetry, ManualRun
    <2>. QED
      BY <1>a, <2>1, <2>2, <2>3 DEF WorkInv, WorkTypes, CountTypes
  <1>3. ASSUME NEW j \in Jobs, NEW k \in Kinds PROVE Deliver(j, k) => WorkInv'
    <2> SUFFICES ASSUME Deliver(j, k) PROVE WorkInv'
      OBVIOUS
    <2>1. queued' \in CountTypes /\ running' \in CountTypes /\ depth' \in Nat /\ DepthIsBacklog'
      BY Delivered
    <2>2. retrying' = retrying
      BY DEF Deliver
    <2>. QED
      BY <1>a, <2>1, <2>2 DEF WorkInv, WorkTypes, CountTypes
  <1>4. ASSUME NEW j \in Jobs, NEW k \in Kinds PROVE Finish(j, k) => WorkInv'
    <2> SUFFICES ASSUME Finish(j, k) PROVE WorkInv'
      OBVIOUS
    <2>1. PICK r : r = running' /\ r = Less(running, j, k)
      BY DEF Finish, Less
    <2>2. r \in CountTypes
      <3>1. running[j][k] > 0
        BY DEF Finish
      <3>. QED
        BY <1>a, <2>1, <3>1, OneLess
    <2>3. retrying' \in [Jobs -> Nat]
      BY <1>a, RetryingStays DEF Finish
    <2>4. depth' = depth /\ queued' = queued
      BY DEF Finish
    <2>5. DepthIsBacklog'
      BY <2>4 DEF WorkInv, DepthIsBacklog, Backlog
    <2>. QED
      BY <1>a, <2>1, <2>2, <2>3, <2>4, <2>5 DEF WorkInv, WorkTypes, CountTypes
  <1>5. \/ Dispatch \/ UNCHANGED work
        \/ \E j \in Jobs : QueueRetry(j) \/ ManualRun(j)
        \/ \E j \in Jobs, k \in Kinds : Deliver(j, k) \/ Finish(j, k)
    BY DEF Next, SchedulerStep, ClientStep, WorkerStep, BeginRound, LoadJobs, EndPhase, LookInterval, LookCron,
           Choose, Pass, Sleep, Toggle, Hold, Restart, vars
  <1>. QED
    BY <1>0, <1>1, <1>2, <1>3, <1>4, <1>5

(***************************************************************************)
(* The flows                                                               *)
(***************************************************************************)
LEMMA FlowFinite == \A g : InFlow(g) \in SUBSET Jobs /\ IsFiniteSet(InFlow(g))
  BY JobsFinite, FS_Subset DEF InFlow

\* The limit of a flow is a number, and none of its jobs has a larger one.
LEMMA LimitIsGreatest ==
  ASSUME NEW g, NEW j \in InFlow(g)
  PROVE  LimitOf(g) \in Nat /\ FlowLimit[j] <= LimitOf(g)
  <1> DEFINE L == {FlowLimit[i] : i \in InFlow(g)}
  <1>1. FlowLimit \in [Jobs -> Nat] /\ InFlow(g) \subseteq Jobs
    BY GuardAssumption, FlowFinite
  <1>2. L \in SUBSET Nat /\ FlowLimit[j] \in L
    BY <1>1
  <1>3. IsFiniteSet(L)
    <2>1. PICK f : f = [i \in InFlow(g) |-> FlowLimit[i]]
      OBVIOUS
    <2>2. f \in [InFlow(g) -> L] /\ \A y \in L : \E i \in InFlow(g) : f[i] = y
      BY <2>1
    <2>3. f \in Surjection(InFlow(g), L)
      BY <2>2 DEF Surjection
    <2>. QED
      BY <2>3, FlowFinite, FS_Surjection
  <1>4. Max(L) \in L /\ \A y \in L : y <= Max(L)
    <2> HIDE DEF L
    <2>. QED
      BY <1>2, <1>3, GreatestIsIn
  <1>5. LimitOf(g) = Max(L)
    BY DEF LimitOf
  <1>. QED
    BY <1>2, <1>4, <1>5

\* The first attempts of job j, and of a flow, in the counts q and r.
Firsts(q, r) == [j \in Jobs |-> q[j]["first"] + r[j]["first"]]
FirstsIn(q, r, g) == SumFunctionOnSet(Firsts(q, r), InFlow(g))

LEMMA FirstsAre == \A g : FirstsInFlow(g) = FirstsIn(queued, running, g)
  BY DEF FirstsInFlow, FirstsIn, Firsts

LEMMA FirstsType ==
  ASSUME NEW q \in CountTypes, NEW r \in CountTypes
  PROVE  /\ \A j \in Jobs : Firsts(q, r)[j] = q[j]["first"] + r[j]["first"] /\ Firsts(q, r)[j] \in Nat
         /\ \A g : FirstsIn(q, r, g) \in Nat
  <1>1. \A j \in Jobs : q[j]["first"] \in Nat /\ r[j]["first"] \in Nat
    BY DEF CountTypes, Kinds
  <1>2. \A j \in Jobs : Firsts(q, r)[j] = q[j]["first"] + r[j]["first"] /\ Firsts(q, r)[j] \in Nat
    BY <1>1 DEF Firsts
  <1>3. ASSUME NEW g PROVE FirstsIn(q, r, g) \in Nat
    <2>1. \A j \in InFlow(g) : Firsts(q, r)[j] \in Nat
      BY <1>2, FlowFinite
    <2>. QED
      BY <2>1, FlowFinite, SumType DEF FirstsIn
  <1>. QED
    BY <1>2, <1>3

\* Where no job gets a first attempt, no flow does.
LEMMA FirstsShrink ==
  ASSUME NEW q \in CountTypes, NEW r \in CountTypes, NEW p \in CountTypes, NEW s \in CountTypes,
         \A j \in Jobs : p[j]["first"] + s[j]["first"] <= q[j]["first"] + r[j]["first"]
  PROVE  \A g : FirstsIn(p, s, g) <= FirstsIn(q, r, g)
  <1> SUFFICES ASSUME NEW g PROVE FirstsIn(p, s, g) <= FirstsIn(q, r, g)
    OBVIOUS
  <1>1. PICK f : f = Firsts(p, s)
    OBVIOUS
  <1>2. PICK h : h = Firsts(q, r)
    OBVIOUS
  <1>3. \A j \in InFlow(g) : f[j] \in Nat /\ h[j] \in Nat /\ f[j] <= h[j]
    BY <1>1, <1>2, FirstsType, FlowFinite
  <1>4. SumFunctionOnSet(f, InFlow(g)) <= SumFunctionOnSet(h, InFlow(g))
    BY <1>3, FlowFinite, SumGrows
  <1>. QED
    BY <1>1, <1>2, <1>4 DEF FirstsIn

\* One first attempt more makes one more in the job's flow, and none elsewhere.
LEMMA FirstsGrow ==
  ASSUME NEW q \in CountTypes, NEW r \in CountTypes, NEW p \in CountTypes, NEW j \in Jobs,
         p[j]["first"] = q[j]["first"] + 1, \A i \in Jobs : i # j => p[i]["first"] = q[i]["first"]
  PROVE  /\ FirstsIn(p, r, FlowOf[j]) = FirstsIn(q, r, FlowOf[j]) + 1
         /\ \A g : g # FlowOf[j] => FirstsIn(p, r, g) <= FirstsIn(q, r, g)
  <1>1. PICK f : f = Firsts(p, r)
    OBVIOUS
  <1>2. PICK h : h = Firsts(q, r)
    OBVIOUS
  <1>3. \A i \in Jobs : f[i] \in Nat /\ h[i] \in Nat /\ f[i] = p[i]["first"] + r[i]["first"] /\ h[i] = q[i]["first"] + r[i]["first"]
    BY <1>1, <1>2, FirstsType
  <1>4. f[j] = h[j] + 1 /\ \A i \in Jobs : i # j => f[i] = h[i]
    <2>1. q[j]["first"] \in Nat /\ r[j]["first"] \in Nat
      BY DEF CountTypes, Kinds
    <2>. QED
      BY <1>3, <2>1
  <1>5. FirstsIn(p, r, FlowOf[j]) = FirstsIn(q, r, FlowOf[j]) + 1
    <2>1. PICK S : S = InFlow(FlowOf[j])
      OBVIOUS
    <2>2. IsFiniteSet(S) /\ S \subseteq Jobs /\ j \in S
      BY <2>1, FlowFinite DEF InFlow
    <2>3. PICK m \in Nat : m = SumFunctionOnSet(f, S)
      BY <1>3, <2>2, SumType
    <2>4. PICK n \in Nat : n = SumFunctionOnSet(h, S)
      BY <1>3, <2>2, SumType
    <2>5. m + h[j] = n + f[j]
      <3>1. \A i \in S : h[i] \in Nat /\ f[i] \in Nat
        BY <1>3, <2>2
      <3>2. \A i \in S \ {j} : h[i] = f[i]
        BY <1>4, <2>2
      <3>3. SumFunctionOnSet(f, S) + h[j] = SumFunctionOnSet(h, S) + f[j]
        BY <2>2, <3>1, <3>2, SumChanges, SMTT(60)
      <3>. QED
        BY <2>3, <2>4, <3>3
    <2>6. m = n + 1
      BY <1>3, <1>4, <2>5
    <2>. QED
      BY <1>1, <1>2, <2>1, <2>3, <2>4, <2>6 DEF FirstsIn
  <1>6. ASSUME NEW g, g # FlowOf[j] PROVE FirstsIn(p, r, g) <= FirstsIn(q, r, g)
    <2>1. \A i \in InFlow(g) : i \in Jobs /\ i # j
      BY <1>6 DEF InFlow
    <2>2. \A i \in InFlow(g) : f[i] \in Nat /\ h[i] \in Nat /\ f[i] <= h[i]
      BY <1>3, <1>4, <2>1
    <2>3. SumFunctionOnSet(f, InFlow(g)) <= SumFunctionOnSet(h, InFlow(g))
      BY <2>2, FlowFinite, SumGrows
    <2>. QED
      BY <1>1, <1>2, <2>3 DEF FirstsIn
  <1>. QED
    BY <1>5, <1>6

\* A flow with room for an active run has room for a first attempt.
LEMMA ActiveRoom ==
  ASSUME WorkTypes, NEW j \in Jobs, FlowLimit[j] > 0, FlowHasRoom(j)
  PROVE  FirstsInFlow(FlowOf[j]) < FlowLimit[j]
  <1>1. PICK S : S = InFlow(FlowOf[j])
    OBVIOUS
  <1>2. IsFiniteSet(S) /\ S \subseteq Jobs
    BY <1>1, FlowFinite
  <1>3. PICK f : f = [i \in Jobs |-> ActiveRuns(i)]
    OBVIOUS
  <1>4. PICK h : h = Firsts(queued, running)
    OBVIOUS
  <1>5. ASSUME NEW i \in Jobs PROVE h[i] \in Nat /\ f[i] \in Nat /\ h[i] <= f[i]
    <2>1. /\ queued[i]["first"] \in Nat /\ queued[i]["other"] \in Nat
          /\ running[i]["first"] \in Nat /\ running[i]["other"] \in Nat
      BY DEF WorkTypes, Kinds
    <2>2. f[i] = queued[i]["first"] + queued[i]["other"] + running[i]["first"] + running[i]["other"]
      BY <1>3 DEF ActiveRuns
    <2>3. h[i] = queued[i]["first"] + running[i]["first"]
      BY <1>4 DEF Firsts
    <2>. QED
      BY <2>1, <2>2, <2>3
  <1>6. PICK m \in Nat : m = SumFunctionOnSet(h, S)
    BY <1>2, <1>5, SumType
  <1>7. PICK n \in Nat : n = SumFunctionOnSet(f, S)
    BY <1>2, <1>5, SumType
  <1>8. m <= n
    BY <1>2, <1>5, <1>6, <1>7, SumGrows
  <1>9. ActiveInFlow(FlowOf[j]) = n
    BY <1>1, <1>3, <1>7 DEF ActiveInFlow
  <1>10. FirstsInFlow(FlowOf[j]) = m
    BY <1>1, <1>4, <1>6, FirstsAre DEF FirstsIn
  <1>11. FlowLimit[j] \in Nat
    BY GuardAssumption
  <1>12. n < FlowLimit[j]
    BY <1>9, <1>11 DEF FlowHasRoom
  <1>. QED
    BY <1>8, <1>10, <1>11, <1>12

\* Where no job gets a first attempt and none is let through, the flows are kept.
LEMMA FlowsStayKept ==
  ASSUME LoopInv, FlowsKept, WorkTypes, WorkTypes', chosen' \in {chosen, None},
         \A j \in Jobs : queued'[j]["first"] + running'[j]["first"] <= queued[j]["first"] + running[j]["first"]
  PROVE  FlowsKept'
  <1>1. queued \in CountTypes /\ running \in CountTypes /\ queued' \in CountTypes /\ running' \in CountTypes
    BY DEF WorkTypes, CountTypes
  <1>2. \A g : FirstsIn(queued', running', g) <= FirstsIn(queued, running, g)
    BY <1>1, FirstsShrink
  <1>3. \A g : FirstsIn(queued', running', g) \in Nat /\ FirstsIn(queued, running, g) \in Nat
    BY <1>1, FirstsType
  <1>4. \A g : FirstsInFlow(g)' = FirstsIn(queued', running', g)
    BY DEF FirstsInFlow, FirstsIn, Firsts
  <1>5. FirstsWithinFlow'
    <2> SUFFICES ASSUME NEW g \in Limited PROVE FirstsInFlow(g)' <= LimitOf(g)
      BY DEF FirstsWithinFlow
    <2>1. PICK j \in InFlow(g) : TRUE
      BY DEF Limited
    <2>2. LimitOf(g) \in Nat
      BY LimitIsGreatest
    <2>3. FirstsIn(queued, running, g) <= LimitOf(g)
      BY FirstsAre DEF FlowsKept, FirstsWithinFlow
    <2>. QED
      BY <1>2, <1>3, <1>4, <2>2, <2>3
  <1>6. FlowStillHasRoom'
    <2> SUFFICES ASSUME chosen' # None, FlowLimit[chosen'] > 0
                 PROVE  FirstsInFlow(FlowOf[chosen])' < FlowLimit[chosen]
      BY DEF FlowStillHasRoom
    <2>1. chosen \in Jobs /\ FlowLimit[chosen] \in Nat /\ chosen' = chosen
      BY GuardAssumption DEF LoopInv, LoopTypes
    <2>2. FirstsIn(queued, running, FlowOf[chosen]) < FlowLimit[chosen]
      BY <2>1, FirstsAre DEF FlowsKept, FlowStillHasRoom
    <2>3. FirstsInFlow(FlowOf[chosen])' = FirstsIn(queued', running', FlowOf[chosen])
      BY <2>1 DEF FirstsInFlow, FirstsIn, Firsts
    <2>. QED
      BY <1>2, <1>3, <2>1, <2>2, <2>3
  <1>. QED
    BY <1>5, <1>6 DEF FlowsKept

LEMMA FlowInit == Init => FlowsKept
  <1> SUFFICES ASSUME Init PROVE FlowsKept
    OBVIOUS
  <1>1. \A j \in Jobs : Firsts(queued, running)[j] = 0
    BY DEF Init, Firsts, Kinds
  <1>2. ASSUME NEW g \in Limited PROVE FirstsInFlow(g) <= LimitOf(g)
    <2>1. PICK j \in InFlow(g) : TRUE
      BY DEF Limited
    <2>2. LimitOf(g) \in Nat
      BY LimitIsGreatest
    <2>3. \A i \in InFlow(g) : Firsts(queued, running)[i] = 0
      BY <1>1, FlowFinite
    <2>4. FirstsIn(queued, running, g) = 0
      BY <2>3, FlowFinite, SumOfZeros DEF FirstsIn
    <2>. QED
      BY <2>2, <2>4, FirstsAre
  <1>. QED
    BY <1>2 DEF Init, FlowsKept, FlowStillHasRoom, FirstsWithinFlow

LEMMA FlowStep == LoopInv /\ WorkTypes /\ WorkTypes' /\ FlowsKept /\ [Next]_vars => FlowsKept'
  <1> SUFFICES ASSUME LoopInv, WorkTypes, WorkTypes', FlowsKept, [Next]_vars PROVE FlowsKept'
    OBVIOUS
  <1>a. queued \in CountTypes /\ running \in CountTypes /\ queued' \in CountTypes /\ running' \in CountTypes
    BY DEF WorkTypes, CountTypes
  <1>b. \A j \in Jobs : queued[j]["first"] \in Nat /\ running[j]["first"] \in Nat
    BY <1>a DEF CountTypes, Kinds
  <1>1. chosen' \in {chosen, None} /\ UNCHANGED <<queued, running>> => FlowsKept'
    BY <1>b, FlowsStayKept
  <1>2. Dispatch => FlowsKept'
    <2> SUFFICES ASSUME Dispatch PROVE FlowsKept'
      OBVIOUS
    <2>1. PICK j \in Jobs : j = chosen
      BY DEF Dispatch, LoopInv, LoopTypes
    <2>2. chosen' = None /\ running' = running /\ queued' = More(queued, j, "first")
      BY <2>1 DEF Dispatch, More
    <2>3. queued'[j]["first"] = queued[j]["first"] + 1 /\ \A i \in Jobs : i # j => queued'[i]["first"] = queued[i]["first"]
      <3>1. PICK p : p = queued' /\ p = More(queued, j, "first")
        BY <2>2
      <3>2. "first" \in Kinds
        BY DEF Kinds
      <3>. QED
        BY <1>a, <3>1, <3>2, OneMore
    <2>4. /\ FirstsIn(queued', running, FlowOf[j]) = FirstsIn(queued, running, FlowOf[j]) + 1
          /\ \A g : g # FlowOf[j] => FirstsIn(queued', running, g) <= FirstsIn(queued, running, g)
      BY <1>a, <2>3, FirstsGrow
    <2>5. \A g : FirstsIn(queued', running, g) \in Nat /\ FirstsIn(queued, running, g) \in Nat
      BY <1>a, FirstsType
    <2>6. \A g : FirstsInFlow(g)' = FirstsIn(queued', running, g)
      BY <2>2 DEF FirstsInFlow, FirstsIn, Firsts
    <2>7. ASSUME NEW g \in Limited PROVE FirstsInFlow(g)' <= LimitOf(g)
      <3>1. PICK i \in InFlow(g) : TRUE
        BY DEF Limited
      <3>2. LimitOf(g) \in Nat
        BY LimitIsGreatest
      <3>3. CASE g = FlowOf[j]
        <4>1. j \in InFlow(g) /\ FlowLimit[j] > 0 /\ FlowLimit[j] \in Nat
          BY <3>3, GuardAssumption DEF Limited, InFlow
        <4>2. FlowLimit[j] <= LimitOf(g)
          BY <4>1, LimitIsGreatest
        <4>3. FirstsIn(queued, running, g) < FlowLimit[j]
          BY <2>1, <3>3, <4>1, FirstsAre DEF FlowsKept, FlowStillHasRoom, Dispatch
        <4>. QED
          BY <2>4, <2>5, <2>6, <3>2, <3>3, <4>1, <4>2, <4>3
      <3>4. CASE g # FlowOf[j]
        <4>1. FirstsIn(queued, running, g) <= LimitOf(g)
          BY FirstsAre DEF FlowsKept, FirstsWithinFlow
        <4>. QED
          BY <2>4, <2>5, <2>6, <3>2, <3>4, <4>1
      <3>. QED
        BY <3>3, <3>4
    <2>. QED
      BY <2>2, <2>7 DEF FlowsKept, FlowStillHasRoom, FirstsWithinFlow
  <1>3. ASSUME NEW j \in Jobs, chosen' = j, FlowHasRoom(j), UNCHANGED <<queued, running>> PROVE FlowsKept'
    <2>1. FlowLimit[j] > 0 => FirstsInFlow(FlowOf[j]) < FlowLimit[j]
      BY <1>3, ActiveRoom
    <2>2. \A g : FirstsInFlow(g)' = FirstsInFlow(g)
      BY <1>3 DEF FirstsInFlow
    <2>3. FlowStillHasRoom'
      <3> SUFFICES ASSUME FlowLimit[j] > 0 PROVE FirstsInFlow(FlowOf[chosen])' < FlowLimit[j]
        BY <1>3 DEF FlowStillHasRoom
      <3>1. FirstsInFlow(FlowOf[chosen])' = FirstsInFlow(FlowOf[j])
        BY <1>3 DEF FirstsInFlow
      <3>. QED
        BY <2>1, <3>1
    <2>. QED
      BY <2>2, <2>3 DEF FlowsKept, FirstsWithinFlow
  <1>4. ASSUME NEW j \in Jobs PROVE QueueRetry(j) \/ ManualRun(j) => FlowsKept'
    <2> SUFFICES ASSUME QueueRetry(j) \/ ManualRun(j) PROVE FlowsKept'
      OBVIOUS
    <2>1. chosen' = chosen /\ running' = running /\ queued' = More(queued, j, "other")
      BY DEF QueueRetry, ManualRun, More, loop
    <2>2. \A i \in Jobs : queued'[i]["first"] = queued[i]["first"]
      <3>1. PICK k \in Kinds : k = "other"
        BY DEF Kinds
      <3>2. PICK p : p = queued' /\ p = More(queued, j, k)
        BY <2>1, <3>1
      <3>3. \A i \in Jobs, l \in Kinds : i # j \/ l # k => p[i][l] = queued[i][l]
        BY <1>a, <3>2, OneMore
      <3>4. "first" \in Kinds /\ "first" # k
        BY <3>1 DEF Kinds
      <3>. QED
        BY <3>2, <3>3, <3>4
    <2>. QED
      <3>1. \A i \in Jobs : queued'[i]["first"] + running'[i]["first"] <= queued[i]["first"] + running[i]["first"]
        BY <1>b, <2>1, <2>2
      <3>. QED
        BY <2>1, <3>1, FlowsStayKept
  <1>5. ASSUME NEW j \in Jobs, NEW k \in Kinds PROVE Deliver(j, k) => FlowsKept'
    <2> SUFFICES ASSUME Deliver(j, k) PROVE FlowsKept'
      OBVIOUS
    <2>1. chosen' = chosen /\ running' = More(running, j, k) /\ queued' = Less(queued, j, k) /\ queued[j][k] > 0
      BY DEF Deliver, More, Less, loop
    <2>2. /\ queued'[j][k] = queued[j][k] - 1
          /\ \A i \in Jobs, l \in Kinds : i # j \/ l # k => queued'[i][l] = queued[i][l]
      BY <1>a, <2>1, OneLess
    <2>3. /\ running'[j][k] = running[j][k] + 1
          /\ \A i \in Jobs, l \in Kinds : i # j \/ l # k => running'[i][l] = running[i][l]
      <3>1. PICK s : s = running' /\ s = More(running, j, k)
        BY <2>1
      <3>2. s[j][k] = running[j][k] + 1 /\ \A i \in Jobs, l \in Kinds : i # j \/ l # k => s[i][l] = running[i][l]
        BY <1>a, <3>1, OneMore, SMTT(30)
      <3>. QED
        BY <3>1, <3>2
    <2>4. ASSUME NEW i \in Jobs
          PROVE  queued'[i]["first"] + running'[i]["first"] <= queued[i]["first"] + running[i]["first"]
      <3>1. CASE i = j /\ k = "first"
        BY <1>b, <2>2, <2>3, <3>1
      <3>2. CASE ~(i = j /\ k = "first")
        <4>1. queued'[i]["first"] = queued[i]["first"] /\ running'[i]["first"] = running[i]["first"]
          BY <2>2, <2>3, <3>2 DEF Kinds
        <4>. QED
          BY <1>b, <4>1
      <3>. QED
        BY <3>1, <3>2
    <2>. QED
      BY <2>1, <2>4, FlowsStayKept
  <1>6. ASSUME NEW j \in Jobs, NEW k \in Kinds PROVE Finish(j, k) => FlowsKept'
    <2> SUFFICES ASSUME Finish(j, k) PROVE FlowsKept'
      OBVIOUS
    <2>1. chosen' = chosen /\ running' = Less(running, j, k) /\ queued' = queued /\ running[j][k] > 0
      BY DEF Finish, Less, loop
    <2>2. /\ running'[j][k] = running[j][k] - 1
          /\ \A i \in Jobs, l \in Kinds : i # j \/ l # k => running'[i][l] = running[i][l]
      <3>1. PICK s : s = running' /\ s = Less(running, j, k)
        BY <2>1
      <3>. QED
        BY <1>a, <2>1, <3>1, OneLess
    <2>3. ASSUME NEW i \in Jobs
          PROVE  queued'[i]["first"] + running'[i]["first"] <= queued[i]["first"] + running[i]["first"]
      <3>1. CASE i = j /\ k = "first"
        BY <1>b, <2>1, <2>2, <3>1
      <3>2. CASE ~(i = j /\ k = "first")
        <4>1. running'[i]["first"] = running[i]["first"]
          BY <2>2, <3>2 DEF Kinds
        <4>. QED
          BY <1>b, <2>1, <4>1
      <3>. QED
        BY <3>1, <3>2
    <2>. QED
      BY <2>1, <2>3, FlowsStayKept
  <1>7. \/ Dispatch
        \/ chosen' \in {chosen, None} /\ UNCHANGED <<queued, running>>
        \/ \E j \in Jobs : chosen' = j /\ FlowHasRoom(j) /\ UNCHANGED <<queued, running>>
        \/ \E j \in Jobs : QueueRetry(j) \/ ManualRun(j)
        \/ \E j \in Jobs, k \in Kinds : Deliver(j, k) \/ Finish(j, k)
    BY DEF Next, SchedulerStep, ClientStep, WorkerStep, BeginRound, LoadJobs, EndPhase, LookInterval, LookCron,
           Choose, Pass, MayDispatch, Sleep, Toggle, Hold, Restart, vars, loop, work
  <1>. QED
    BY <1>1, <1>2, <1>3, <1>4, <1>5, <1>6, <1>7

(***************************************************************************)
(* What lasts until the next reload                                        *)
(***************************************************************************)
LEMMA StaleInit == Init => StaleInv
  BY GuardAssumption DEF Init, StaleInv, OffTypes, StaleByRound

\* The round after the last one before a reload is round 0.
LEMMA RoundsTurn ==
  ASSUME NEW r \in 0..(ReloadEvery - 1)
  PROVE  (r + 1) % ReloadEvery = IF r + 1 = ReloadEvery THEN 0 ELSE r + 1
  <1>1. PICK n \in Nat \ {0} : n = ReloadEvery
    BY Numbers
  <1>2. CASE r + 1 = n
    <2>1. n % n = 0
      BY <1>1
    <2>. QED
      BY <1>1, <1>2, <2>1
  <1>3. CASE r + 1 < n
    <2>1. (r + 1) % n = r + 1
      BY <1>1, <1>3
    <2>. QED
      BY <1>1, <1>3, <2>1
  <1>. QED
    BY <1>1, <1>2, <1>3

LEMMA StaleStep == LoopInv /\ StaleInv /\ [Next]_vars => StaleInv'
  <1> SUFFICES ASSUME LoopInv, StaleInv, [Next]_vars PROVE StaleInv'
    OBVIOUS
  <1>a. /\ ReloadEvery \in Nat \ {0} /\ round \in 0..(ReloadEvery - 1)
        /\ jobs \subseteq Jobs /\ enabled \subseteq Jobs
    BY Numbers DEF LoopInv, LoopTypes, OtherTypes
  <1>b. \A j \in Jobs : off[j] \in 0..ReloadEvery + 1
    BY DEF StaleInv, OffTypes
  <1>c. \A j \in jobs \ enabled : off[j] <= StaleBound
    BY DEF StaleInv, StaleByRound
  <1>d. StaleBound \in 0..ReloadEvery
    BY <1>a DEF StaleBound
  <1>1. ASSUME UNCHANGED <<round, jobs, enabled, off>>, phase = "load" <=> phase' = "load" PROVE StaleInv'
    <2>1. StaleBound' = StaleBound
      BY <1>1 DEF StaleBound
    <2>. QED
      BY <1>1, <2>1 DEF StaleInv, OffTypes, StaleByRound
  <1>2. BeginRound => StaleInv'
    <2> SUFFICES ASSUME BeginRound PROVE StaleInv'
      OBVIOUS
    <2>1. off' = [j \in Jobs |-> IF j \in enabled THEN 0 ELSE IF off[j] <= ReloadEvery THEN off[j] + 1 ELSE off[j]]
      BY DEF BeginRound
    <2>2. ASSUME NEW j \in Jobs PROVE off'[j] \in 0..ReloadEvery + 1
      <3>1. off'[j] = IF j \in enabled THEN 0 ELSE IF off[j] <= ReloadEvery THEN off[j] + 1 ELSE off[j]
        BY <2>1
      <3>. QED
        BY <1>a, <1>b, <3>1
    <2>3. StaleBound' >= StaleBound + 1
      <3>1. round' = IF round + 1 = ReloadEvery THEN 0 ELSE round + 1
        BY <1>a, RoundsTurn DEF BeginRound, NextRound
      <3>2. phase = "refresh" /\ phase' = IF round = 0 THEN "load" ELSE "interval"
        BY DEF BeginRound
      <3>. QED
        BY <1>a, <3>1, <3>2 DEF StaleBound
    <2>4. ASSUME NEW j \in jobs \ enabled PROVE off'[j] <= StaleBound'
      <3>1. off[j] <= StaleBound /\ off[j] \in Nat
        BY <1>a, <1>b, <1>c
      <3>2. off'[j] = IF off[j] <= ReloadEvery THEN off[j] + 1 ELSE off[j]
        BY <1>a, <2>1
      <3>3. StaleBound' \in Nat
        BY <1>a, LoopStep DEF StaleBound, LoopInv, LoopTypes
      <3>. QED
        BY <1>a, <1>d, <2>3, <3>1, <3>2, <3>3
    <2>5. UNCHANGED <<jobs, enabled>>
      BY DEF BeginRound
    <2>. QED
      BY <2>1, <2>2, <2>4, <2>5 DEF StaleInv, OffTypes, StaleByRound
  <1>3. LoadJobs \/ Restart => StaleInv'
    <2> SUFFICES ASSUME LoadJobs \/ Restart PROVE StaleInv'
      OBVIOUS
    <2>1. jobs' = enabled /\ enabled' = enabled /\ off' = off
      BY DEF LoadJobs, Restart
    <2>. QED
      BY <2>1 DEF StaleInv, OffTypes, StaleByRound
  <1>4. ASSUME NEW j \in Jobs PROVE Toggle(j) => StaleInv'
    <2> SUFFICES ASSUME Toggle(j) PROVE StaleInv'
      OBVIOUS
    <2>1. off' = [off EXCEPT ![j] = 0] /\ jobs' = jobs /\ enabled' = IF j \in enabled THEN enabled \ {j} ELSE enabled \cup {j}
      BY DEF Toggle, loop
    <2>2. OffTypes'
      BY <1>a, <2>1 DEF StaleInv, OffTypes
    <2>3. StaleBound' = StaleBound
      BY DEF Toggle, loop, StaleBound
    <2>4. ASSUME NEW i \in jobs \ enabled' PROVE off'[i] <= StaleBound
      <3>1. CASE i = j
        BY <1>a, <1>d, <2>1, <3>1 DEF StaleInv, OffTypes
      <3>2. CASE i # j
        <4>1. i \in jobs \ enabled /\ off'[i] = off[i]
          BY <1>a, <2>1, <3>2 DEF StaleInv, OffTypes
        <4>. QED
          BY <1>c, <4>1
      <3>. QED
        BY <3>1, <3>2
    <2>. QED
      BY <2>1, <2>2, <2>3, <2>4 DEF StaleInv, StaleByRound
  <1>5. \/ BeginRound \/ LoadJobs \/ Restart \/ \E j \in Jobs : Toggle(j)
        \/ UNCHANGED <<round, jobs, enabled, off>> /\ (phase = "load" <=> phase' = "load")
    BY DEF Next, SchedulerStep, ClientStep, WorkerStep, Dispatch, EndPhase, LookInterval, LookCron,
           Choose, Pass, QueueRetry, Sleep, Deliver, Finish, ManualRun, Hold, vars, loop, ghosts
  <1>. QED
    BY <1>1, <1>2, <1>3, <1>4, <1>5

LEMMA SlotsInit == Init => SlotsInv
  BY DEF Init, SlotsInv, SlotTypes, SlotsRemembered

LEMMA SlotsStep == LoopInv /\ MemoryTypes /\ SlotsInv /\ [Next]_vars => SlotsInv'
  <1> SUFFICES ASSUME LoopInv, MemoryTypes, SlotsInv, [Next]_vars PROVE SlotsInv'
    OBVIOUS
  <1>a. minute \in Nat /\ minute \in 0..MaxMinute /\ MaxMinute \in Nat
    BY Numbers DEF LoopInv, OtherTypes
  <1>1. UNCHANGED <<slot, minute, fired, twice, forgotten>> => SlotsInv'
    BY DEF SlotsInv, SlotTypes, SlotsRemembered
  <1>2. LoadJobs => SlotsInv'
    <2> SUFFICES ASSUME LoadJobs PROVE SlotsInv'
      OBVIOUS
    <2>1. slot' = [j \in Jobs |-> IF j \in enabled THEN slot[j] ELSE None]
      BY DEF LoadJobs, Kept
    <2>2. forgotten' = forgotten \cup (CronJobs \ enabled) /\ UNCHANGED <<minute, fired, twice>>
      BY DEF LoadJobs
    <2>3. \A j \in CronJobs \ forgotten' : j \in CronJobs \ forgotten /\ slot'[j] = slot[j]
      BY <2>1, <2>2 DEF CronJobs
    <2>. QED
      BY <2>2, <2>3 DEF SlotsInv, SlotTypes, SlotsRemembered
  <1>3. Dispatch => SlotsInv'
    <2> SUFFICES ASSUME Dispatch PROVE SlotsInv'
      OBVIOUS
    <2>1. chosen # None /\ UNCHANGED <<minute, forgotten>>
      BY DEF Dispatch
    <2>2. CASE phase = "interval"
      BY <1>1, <2>1, <2>2 DEF Dispatch
    <2>3. CASE phase # "interval"
      <3>1. chosen \in CronJobs /\ slot[chosen] # minute
        BY <2>1, <2>3 DEF LoopInv, ChoiceStands
      <3>2. /\ slot' = [slot EXCEPT ![chosen] = minute]
            /\ fired' = [fired EXCEPT ![chosen] = fired[chosen] \cup {minute}]
            /\ twice' = IF minute \in fired[chosen] THEN twice \cup {chosen} ELSE twice
        BY <2>3 DEF Dispatch
      <3>3. fired' \in [CronJobs -> SUBSET (0..MaxMinute)] /\ twice' \in SUBSET CronJobs
        BY <1>a, <3>1, <3>2 DEF SlotsInv, SlotTypes
      <3>4. minute \in fired[chosen] => chosen \in forgotten
        BY <3>1 DEF SlotsInv, SlotTypes, SlotsRemembered
      <3>5. twice' \subseteq forgotten
        BY <3>2, <3>4 DEF SlotsInv, SlotTypes, SlotsRemembered
      <3>6. ASSUME NEW j \in CronJobs, NEW m \in fired'[j] PROVE m <= minute
        <4>1. m \in fired[j] \/ m = minute
          BY <3>1, <3>2 DEF SlotsInv, SlotTypes
        <4>. QED
          BY <1>a, <4>1 DEF SlotsInv, SlotTypes, SlotsRemembered
      <3>7. ASSUME NEW j \in CronJobs \ forgotten, minute \in fired'[j] PROVE slot'[j] = minute
        <4>1. CronJobs \subseteq Jobs
          BY DEF CronJobs
        <4>2. CASE j = chosen
          BY <3>2, <4>1, <4>2 DEF MemoryTypes
        <4>3. CASE j # chosen
          BY <3>2, <3>7, <4>1, <4>3 DEF MemoryTypes, SlotsInv, SlotTypes, SlotsRemembered
        <4>. QED
          BY <4>2, <4>3
      <3>. QED
        BY <2>1, <3>3, <3>5, <3>6, <3>7 DEF SlotsInv, SlotTypes, SlotsRemembered
    <2>. QED
      BY <2>2, <2>3
  <1>4. ASSUME NEW d \in 1..2 PROVE Sleep(d) => SlotsInv'
    <2> SUFFICES ASSUME Sleep(d) PROVE SlotsInv'
      OBVIOUS
    <2>1. minute' \in {minute, minute + 1} /\ UNCHANGED <<slot, fired, twice, forgotten>>
      BY DEF Sleep, ghosts
    <2>2. CASE minute' = minute
      BY <1>1, <2>1, <2>2
    <2>3. CASE minute' = minute + 1
      <3>1. ASSUME NEW j \in CronJobs PROVE minute' \notin fired[j] /\ \A m \in fired[j] : m <= minute'
        <4>1. \A m \in fired[j] : m \in Nat /\ m <= minute
          BY DEF SlotsInv, SlotTypes, SlotsRemembered
        <4>. QED
          BY <1>a, <2>3, <4>1
      <3>. QED
        BY <2>1, <3>1 DEF SlotsInv, SlotTypes, SlotsRemembered
    <2>. QED
      BY <2>1, <2>2, <2>3
  <1>5. Restart => SlotsInv'
    BY DEF Restart, SlotsInv, SlotTypes, SlotsRemembered
  <1>6. \/ LoadJobs \/ Dispatch \/ Restart \/ \E d \in 1..2 : Sleep(d)
        \/ UNCHANGED <<slot, minute, fired, twice, forgotten>>
    BY DEF Next, SchedulerStep, ClientStep, WorkerStep, BeginRound, EndPhase, LookInterval, LookCron,
           Choose, Pass, QueueRetry, Deliver, Finish, ManualRun, Toggle, Hold, vars, loop, memory, ghosts
  <1>. QED
    BY <1>1, <1>2, <1>3, <1>4, <1>5, <1>6

(***************************************************************************)
(* The theorems                                                            *)
(***************************************************************************)
LEMMA InvInit == Init => IInv
  BY LoopInit, RememberedInit, LoadInit, WorkInit, FlowInit, StaleInit, SlotsInit DEF IInv

LEMMA InvStep == IInv /\ [Next]_vars => IInv'
  <1> SUFFICES ASSUME IInv, [Next]_vars PROVE IInv'
    OBVIOUS
  <1>1. LoopInv /\ MemoryTypes /\ LoadInv /\ WorkInv /\ FlowsKept /\ StaleInv /\ SlotsInv
    BY DEF IInv
  <1>2. LoopInv' /\ MemoryTypes'
    BY <1>1, LoopStep, MemoryStep
  <1>3. LoadInv'
    BY <1>1, LoadStep DEF WorkInv, WorkTypes
  <1>4. WorkInv'
    BY <1>1, WorkStep
  <1>5. FlowsKept'
    BY <1>1, <1>4, FlowStep DEF WorkInv
  <1>6. StaleInv' /\ SlotsInv'
    BY <1>1, StaleStep, SlotsStep
  <1>. QED
    BY <1>2, <1>3, <1>4, <1>5, <1>6 DEF IInv

LEMMA InvTypes == IInv => TypeOK
  <1> SUFFICES ASSUME IInv PROVE TypeOK
    OBVIOUS
  <1>1. /\ phase \in Phases /\ chosen \in Jobs \cup {None}
        /\ jobs \subseteq Jobs /\ count \in 0..MaxDispatch
        /\ enabled \subseteq Jobs /\ minute \in 0..MaxMinute /\ held \subseteq Jobs
    BY DEF IInv, LoopInv, LoopTypes, OtherTypes
  <1>2. Range(rest) \subseteq Jobs
    <2>1. rest \in Seq(Jobs)
      BY DEF IInv, LoopInv, LoopTypes
    <2>2. \A i \in DOMAIN rest : rest[i] \in Jobs
      BY <2>1
    <2>. QED
      BY <2>2 DEF Range
  <1>3. round \in 0..ReloadEvery
    BY Numbers DEF IInv, LoopInv, LoopTypes
  <1>4. /\ depth \in Nat
        /\ queued \in [Jobs -> [Kinds -> Nat]] /\ running \in [Jobs -> [Kinds -> Nat]]
        /\ retrying \in [Jobs -> Nat]
    BY DEF IInv, WorkInv, WorkTypes
  <1>5. \A j \in Jobs : age[j] \in 0..Interval[j] \cup {None} /\ slot[j] \in 0..MaxMinute \cup {None}
    BY DEF IInv, MemoryTypes
  <1>6. pressure \in BOOLEAN /\ seen \in Nat
    BY DEF IInv, LoadInv, LoadTypes
  <1>7. off \in [Jobs -> 0..ReloadEvery + 1] /\ twice \subseteq CronJobs /\ forgotten \subseteq CronJobs
    BY DEF IInv, StaleInv, OffTypes, SlotsInv, SlotTypes
  <1>. QED
    BY <1>1, <1>2, <1>3, <1>4, <1>5, <1>6, <1>7 DEF TypeOK

LEMMA InvMemory == IInv => MemoryBounded
  <1> SUFFICES ASSUME IInv PROVE MemoryBounded
    OBVIOUS
  <1>1. ReloadEvery \in Nat \ {0} /\ round \in 0..(ReloadEvery - 1)
    BY Numbers DEF IInv, LoopInv, LoopTypes
  <1>2. StaleBound \in Nat /\ StaleBound <= ReloadEvery
    BY <1>1 DEF StaleBound
  <1>3. \A j \in jobs \ enabled : off[j] <= StaleBound /\ off[j] \in Nat
    BY <1>1 DEF IInv, LoopInv, LoopTypes, StaleInv, OffTypes, StaleByRound
  <1>4. StaleJobsBounded
    BY <1>1, <1>2, <1>3 DEF StaleJobsBounded
  <1>5. OncePerRememberedSlot
    BY DEF IInv, SlotsInv, SlotsRemembered, OncePerRememberedSlot
  <1>. QED
    BY <1>4, <1>5 DEF MemoryBounded

\* The invariant of the loop: what the round, the ages and slots and the counts of
\* runs are between any two steps of the scheduler, the workers and the clients.
THEOREM GuardInvariant == Spec => []IInv
  <1>. QED
    BY InvInit, InvStep, PTL DEF Spec

\* Whatever runs join a flow between the guard's look and the dispatch, the first
\* attempts stay within the flow's limit; the pressure mode is what the thresholds
\* say of the last depth read; and a round dispatches no more than its cap.
THEOREM DispatchIsLimited == Spec => []LimitsRespected
  <1>1. IInv => LimitsRespected
    BY InvTypes DEF LimitsRespected, IInv, LoadInv, FlowsKept
  <1>. QED
    BY <1>1, GuardInvariant, PTL

\* A disabled job is dispatched no later than ReloadEvery rounds after it was
\* disabled, and a cron job once per minute unless its slot was lost.
THEOREM StaleIsBounded == Spec => []MemoryBounded
  <1>. QED
    BY InvMemory, GuardInvariant, PTL

(***************************************************************************)
(* The failure memory, for every number of worker slots, every threshold,  *)
(* cooldown, cap and number of retries                                     *)
(***************************************************************************)
LEMMA MinOfTwo ==
  ASSUME NEW a \in Nat, NEW b \in Nat
  PROVE  Min({a, b}) \in {a, b} /\ Min({a, b}) <= a /\ Min({a, b}) <= b
  BY DEF Min

LEMMA MaxOfTwo ==
  ASSUME NEW a \in Nat, NEW b \in Nat
  PROVE  Max({a, b}) \in {a, b} /\ Max({a, b}) >= a /\ Max({a, b}) >= b
  BY DEF Max

LEMMA CapType == Cap \in Nat /\ Cap >= Base /\ Base \in Nat \ {0}
  <1>1. Base \in Nat \ {0} /\ CapSetting \in Nat /\ Unit \in Nat \ {0}
    BY MemoryAssumption
  <1>2. 600 \div Unit \in Nat /\ 4 * Base \in Nat /\ 4 * Base >= Base
    BY <1>1
  <1>. QED
    BY <1>1, <1>2, MaxOfTwo DEF Cap

\* The cooldown after n failures is a number of units that the cap limits.
LEMMA CooldownType ==
  ASSUME NEW n \in Threshold..MaxFails
  PROVE  CooldownAfter(n) \in 0..Cap
  <1>1. n - Threshold \in 0..MaxFails
    BY MemoryAssumption
  <1>2. 2^(n - Threshold) \in Nat
    BY <1>1, MemoryAssumption
  <1>3. Base * 2^(n - Threshold) \in Nat
    BY <1>2, CapType
  <1>. QED
    BY <1>3, CapType, MinOfTwo DEF CooldownAfter

(***************************************************************************)
(* The inductive invariant                                                 *)
(***************************************************************************)
Types == MemoryTypeOK /\ read \in [Workers -> Rows]

\* A cooldown, in the row or in a copy of it, is one that its counter justifies.
Justified(r) == r.left > 0 => r.fails >= Threshold /\ r.left <= CooldownAfter(r.fails)
AllJustified == Justified(row) /\ \A w \in Workers : Justified(read[w])

\* While a cooldown is in force, the schedule has at most one dispatch: one
\* it has made since, or one it is about to make.
DispatchesCounted ==
  IF row.left > 0 THEN late + (IF looking # "no" THEN 1 ELSE 0) <= 1 ELSE late = 0

\* No copy of the row counts more failures than there were.
NoneInvented == row.fails <= failures /\ \A w \in Workers : read[w].fails <= failures

\* Unless two slots crossed, the slot that is about to write has read the
\* count that is still there.
CopiesExact ==
  ~crossed => row.fails = streak /\ \A w \in Workers : pc[w] = "write" => read[w].fails = row.fails

MemoryInv == Types /\ AllJustified /\ DispatchesCounted /\ NoneInvented /\ CopiesExact

(***************************************************************************)
(* What an outcome and the time make of a row                              *)
(***************************************************************************)
LEMMA OneMoreType ==
  ASSUME NEW n \in 0..MaxFails
  PROVE  Counted(n) \in 0..MaxFails /\ Counted(n) >= n /\ (n >= Threshold => Counted(n) >= Threshold)
  <1>1. n + 1 \in Nat /\ MaxFails \in Nat /\ Threshold \in Nat
    BY MemoryAssumption
  <1>. QED
    BY <1>1, MinOfTwo DEF Counted

LEMMA OneMoreGrows ==
  ASSUME NEW m \in 0..MaxFails, NEW n \in 0..MaxFails, m <= n
  PROVE  Counted(m) <= Counted(n)
  <1>1. m + 1 \in Nat /\ n + 1 \in Nat /\ MaxFails \in Nat
    BY MemoryAssumption
  <1>. QED
    BY <1>1, MinOfTwo DEF Counted

LEMMA NoFailureRow == NoFailure \in Rows /\ NoFailure.fails = 0 /\ NoFailure.left = 0 /\ Justified(NoFailure)
  <1>1. 0 \in 0..MaxFails /\ 0 \in 0..Cap
    BY MemoryAssumption, CapType
  <1>. QED
    BY <1>1 DEF NoFailure, Rows, Justified

LEMMA FailureRow ==
  ASSUME NEW old \in Rows, Justified(old)
  PROVE  /\ AfterFailure(old) \in Rows /\ AfterFailure(old).fails = Counted(old.fails)
         /\ Justified(AfterFailure(old))
  <1>1. old.fails \in 0..MaxFails /\ old.left \in 0..Cap
    BY DEF Rows
  <1>2. PICK n \in 0..MaxFails : n = Counted(old.fails) /\ n >= old.fails
    BY <1>1, OneMoreType
  <1>3. Threshold \in Nat
    BY MemoryAssumption
  <1>4. CASE n >= Threshold
    <2>1. AfterFailure(old) = [fails |-> n, left |-> CooldownAfter(n)]
      BY <1>2, <1>4 DEF AfterFailure
    <2>2. CooldownAfter(n) \in 0..Cap
      BY <1>3, <1>4, CooldownType
    <2>3. CooldownAfter(n) <= CooldownAfter(n)
      BY <2>2, CapType
    <2>. QED
      BY <1>2, <1>4, <2>1, <2>2, <2>3 DEF Rows, Justified
  <1>5. CASE ~(n >= Threshold)
    <2>1. AfterFailure(old) = [fails |-> n, left |-> old.left]
      BY <1>2, <1>5 DEF AfterFailure
    <2>2. ~(old.left > 0)
      BY <1>1, <1>2, <1>3, <1>5 DEF Justified
    <2>. QED
      BY <1>1, <1>2, <2>1, <2>2 DEF Rows, Justified
  <1>. QED
    BY <1>4, <1>5

LEMMA ElapsedRow ==
  ASSUME NEW old \in Rows
  PROVE  /\ Elapsed(old) \in Rows /\ Elapsed(old).fails = old.fails
         /\ Elapsed(old).left <= old.left /\ (Justified(old) => Justified(Elapsed(old)))
  <1>1. old.fails \in 0..MaxFails /\ old.left \in 0..Cap /\ Cap \in Nat
    BY CapType DEF Rows
  <1>2. PICK l \in 0..Cap : l = (IF old.left > 0 THEN old.left - 1 ELSE 0) /\ l <= old.left
    BY <1>1
  <1>3. Elapsed(old) = [fails |-> old.fails, left |-> l]
    BY <1>1, <1>2 DEF Elapsed, Rows
  <1>4. Elapsed(old) \in Rows /\ Elapsed(old).fails = old.fails /\ Elapsed(old).left = l
    BY <1>1, <1>2, <1>3 DEF Rows
  <1>5. ASSUME Justified(old) PROVE Justified(Elapsed(old))
    <2>1. CASE l > 0
      <3>1. old.left > 0 /\ old.fails \in Threshold..MaxFails
        BY <1>1, <1>2, <1>5, <2>1, MemoryAssumption DEF Justified
      <3>2. CooldownAfter(old.fails) \in 0..Cap
        BY <3>1, CooldownType
      <3>. QED
        BY <1>1, <1>2, <1>4, <1>5, <3>1, <3>2 DEF Justified
    <2>2. CASE ~(l > 0)
      BY <1>4, <2>2 DEF Justified
    <2>. QED
      BY <2>1, <2>2
  <1>. QED
    BY <1>2, <1>4, <1>5

(***************************************************************************)
(* The steps                                                               *)
(***************************************************************************)
LEMMA RowFields ==
  ASSUME NEW r \in Rows
  PROVE  r.fails \in 0..MaxFails /\ r.fails \in Nat /\ r.left \in 0..Cap /\ r.left \in Nat
  <1>1. MaxFails \in Nat /\ Cap \in Nat
    BY MemoryAssumption, CapType
  <1>2. r.fails \in 0..MaxFails /\ r.left \in 0..Cap
    BY DEF Rows
  <1>. QED
    BY <1>1, <1>2

\* What the types say, variable by variable.
LEMMA HasTypes ==
  ASSUME MemoryInv
  PROVE  /\ row \in Rows /\ row.left \in Nat /\ row.fails \in Nat
         /\ read \in [Workers -> Rows]
         /\ inQueue \in [Attempts -> Nat] /\ delayed \in [Attempts -> Nat]
         /\ looking \in {"no", "cooldown passed", "passed"}
         /\ pc \in [Workers -> {"idle", "exec", "record", "write", "retry"}]
         /\ hand \in [Workers -> Attempts] /\ failed \in [Workers -> BOOLEAN]
         /\ streak \in 0..MaxFails /\ failures \in 0..MaxFails /\ failures \in Nat /\ MaxFails \in Nat
         /\ late \in Nat /\ crossed \in BOOLEAN
         /\ MaxRetry \in Nat /\ 0 \in Attempts
  <1>1. MaxFails \in Nat /\ MaxRetry \in Nat
    BY MemoryAssumption
  <1>2. MemoryTypeOK /\ read \in [Workers -> Rows]
    BY DEF MemoryInv, Types
  <1>3. streak \in 0..MaxFails /\ failures \in 0..MaxFails
    BY <1>2 DEF MemoryTypeOK
  <1>4. row \in Rows
    BY <1>2 DEF MemoryTypeOK
  <1>5. row.left \in Nat /\ row.fails \in Nat
    BY <1>4, RowFields
  <1>6. failures \in Nat /\ 0 \in Attempts
    BY <1>1, <1>3 DEF Attempts
  <1>. QED
    BY <1>1, <1>2, <1>3, <1>4, <1>5, <1>6 DEF MemoryTypeOK

\* A message more or less is a number of messages.
LEMMA Recounted ==
  ASSUME NEW f \in [Attempts -> Nat], NEW k \in Attempts
  PROVE  /\ [f EXCEPT ![k] = @ + 1] \in [Attempts -> Nat]
         /\ f[k] > 0 => [f EXCEPT ![k] = @ - 1] \in [Attempts -> Nat]
  <1>1. ASSUME NEW n \in Nat PROVE [f EXCEPT ![k] = n] \in [Attempts -> Nat]
    OBVIOUS
  <1>2. f[k] \in Nat
    OBVIOUS
  <1>3. f[k] + 1 \in Nat /\ (f[k] > 0 => f[k] - 1 \in Nat)
    BY <1>2
  <1>. QED
    BY <1>1, <1>3

LEMMA MemoryInvInit == MemoryInit => MemoryInv
  <1> SUFFICES ASSUME MemoryInit PROVE MemoryInv
    OBVIOUS
  <1>1. Types
    <2>1. 0 \in 0..MaxFails /\ 0 \in Attempts
      BY MemoryAssumption DEF Attempts
    <2>. QED
      BY <2>1, NoFailureRow DEF MemoryInit, Types, MemoryTypeOK
  <1>2. AllJustified /\ DispatchesCounted /\ NoneInvented /\ CopiesExact
    BY NoFailureRow DEF MemoryInit, AllJustified, DispatchesCounted, NoneInvented, CopiesExact
  <1>. QED
    BY <1>1, <1>2 DEF MemoryInv

\* The slot is done with its message.
LEMMA Released ==
  ASSUME Types, NEW w \in Workers, Release(w)
  PROVE  /\ pc' \in [Workers -> {"idle", "exec", "record", "write", "retry"}]
         /\ hand' \in [Workers -> Attempts] /\ failed' \in [Workers -> BOOLEAN]
         /\ pc'[w] = "idle" /\ \A v \in Workers \ {w} : pc'[v] = pc[v]
  <1>1. 0 \in Attempts
    BY MemoryAssumption DEF Attempts
  <1>. QED
    BY <1>1 DEF Release, Goto, Types, MemoryTypeOK

\* The scheduler's steps and the clients' write no row.
LEMMA JobsStep ==
  ASSUME MemoryInv,
         LookAtCooldown \/ LookAtRuns \/ DispatchRun \/ StartByHand \/ \E k \in Attempts : RetryDue(k)
  PROVE  MemoryInv'
  <1>1. UNCHANGED <<row, slots, streak, failures, crossed>>
    BY DEF LookAtCooldown, LookAtRuns, DispatchRun, StartByHand, RetryDue, outcomes
  <1>2. inQueue' \in [Attempts -> Nat] /\ delayed' \in [Attempts -> Nat]
    <2>1. CASE LookAtCooldown \/ LookAtRuns
      BY <2>1, HasTypes DEF LookAtCooldown, LookAtRuns
    <2>2. CASE DispatchRun \/ StartByHand
      <3>1. inQueue' = [inQueue EXCEPT ![0] = @ + 1] /\ delayed' = delayed
        BY <2>2 DEF DispatchRun, StartByHand
      <3>2. [inQueue EXCEPT ![0] = @ + 1] \in [Attempts -> Nat]
        BY HasTypes, Recounted
      <3>. QED
        BY <3>1, <3>2, HasTypes
    <2>3. ASSUME NEW k \in Attempts, RetryDue(k) PROVE inQueue' \in [Attempts -> Nat] /\ delayed' \in [Attempts -> Nat]
      BY <2>3, HasTypes, Recounted DEF RetryDue
    <2>. QED
      BY <2>1, <2>2, <2>3
  <1>3. late' \in Nat /\ looking' \in {"no", "cooldown passed", "passed"} /\ DispatchesCounted'
    <2>1. row.left \in Nat /\ late \in Nat
      BY HasTypes
    <2>2. CASE LookAtCooldown
      BY <2>1, <2>2 DEF LookAtCooldown, InCooldown, outcomes, MemoryInv, DispatchesCounted
    <2>3. CASE LookAtRuns
      <3>1. looking # "no" /\ looking' \in {"passed", "no"} /\ UNCHANGED <<row, late>>
        BY <2>3 DEF LookAtRuns, outcomes
      <3>. QED
        <4>1. IF row.left > 0 THEN late + 1 <= 1 ELSE late = 0
          BY <3>1 DEF MemoryInv, DispatchesCounted
        <4>2. IF row'.left > 0 THEN late' + 1 <= 1 /\ late' + 0 <= 1 ELSE late' = 0
          BY <2>1, <3>1, <4>1
        <4>. QED
          BY <2>1, <3>1, <4>2 DEF DispatchesCounted
    <2>4. CASE DispatchRun
      BY <2>1, <2>4 DEF DispatchRun, MemoryInv, DispatchesCounted
    <2>5. CASE StartByHand \/ \E k \in Attempts : RetryDue(k)
      BY <2>1, <2>5, HasTypes DEF StartByHand, RetryDue, outcomes, MemoryInv, DispatchesCounted
    <2>. QED
      BY <2>2, <2>3, <2>4, <2>5
  <1>4. Types'
    BY <1>1, <1>2, <1>3 DEF MemoryInv, Types, MemoryTypeOK, slots
  <1>5. AllJustified' /\ NoneInvented' /\ CopiesExact'
    BY <1>1 DEF MemoryInv, AllJustified, Justified, NoneInvented, CopiesExact, slots
  <1>. QED
    BY <1>3, <1>4, <1>5 DEF MemoryInv

\* A slot's steps that write no row.
LEMMA SlotStep ==
  ASSUME MemoryInv, NEW w \in Workers,
         \/ (\E k \in Attempts : Start(w, k)) \/ (\E failure \in BOOLEAN : HandlerEnds(w, failure))
         \/ Abort(w) \/ ReadRow(w) \/ Retry(w) \/ Crash(w)
  PROVE  MemoryInv'
  <1>1. UNCHANGED <<row, looking, outcomes>>
    BY DEF Start, HandlerEnds, Abort, ReadRow, Retry, Crash, messages
  <1>2. inQueue' \in [Attempts -> Nat] /\ delayed' \in [Attempts -> Nat]
    <2>1. ASSUME NEW k \in Attempts, Start(w, k) PROVE inQueue' \in [Attempts -> Nat] /\ delayed' \in [Attempts -> Nat]
      BY <2>1, HasTypes, Recounted DEF Start
    <2>2. CASE Retry(w)
      <3>1. PICK h \in Attempts : h = hand[w]
        BY HasTypes
      <3>2. h < MaxRetry => h + 1 \in Attempts
        <4>1. MaxRetry \in Nat
          BY HasTypes
        <4>. QED
          BY <4>1 DEF Attempts
      <3>3. inQueue' = inQueue /\ delayed' = IF h < MaxRetry THEN [delayed EXCEPT ![h + 1] = @ + 1] ELSE delayed
        BY <2>2, <3>1 DEF Retry
      <3>. QED
        BY <3>2, <3>3, HasTypes, Recounted
    <2>3. CASE (\E failure \in BOOLEAN : HandlerEnds(w, failure)) \/ Abort(w) \/ ReadRow(w) \/ Crash(w)
      BY <2>3, HasTypes DEF HandlerEnds, Abort, ReadRow, Crash, messages
    <2>. QED
      BY <2>1, <2>2, <2>3
  <1>3. /\ pc' \in [Workers -> {"idle", "exec", "record", "write", "retry"}]
        /\ hand' \in [Workers -> Attempts] /\ failed' \in [Workers -> BOOLEAN]
        /\ pc'[w] = "write" => ReadRow(w)
        /\ \A v \in Workers \ {w} : pc'[v] = pc[v]
    <2>1. CASE Retry(w) \/ Crash(w)
      BY <2>1, Released DEF MemoryInv, Retry, Crash
    <2>2. CASE (\E k \in Attempts : Start(w, k)) \/ (\E failure \in BOOLEAN : HandlerEnds(w, failure)) \/ Abort(w) \/ ReadRow(w)
      <3>1. \A k \in Attempts : Start(w, k) => hand' \in [Workers -> Attempts] /\ pc'[w] = "exec" /\ failed' = failed
        BY HasTypes DEF Start, Goto
      <3>2. \A failure \in BOOLEAN : HandlerEnds(w, failure) => hand' = hand /\ pc'[w] = "record" /\ failed' \in [Workers -> BOOLEAN]
        BY HasTypes DEF HandlerEnds, Goto
      <3>3. /\ Abort(w) => hand' = hand /\ pc'[w] = "retry" /\ failed' \in [Workers -> BOOLEAN]
            /\ ReadRow(w) => hand' = hand /\ failed' = failed
        BY HasTypes DEF Abort, ReadRow, Goto
      <3>4. PICK l \in {"exec", "record", "retry", "write"} : pc' = [pc EXCEPT ![w] = l]
        BY <2>2 DEF Start, HandlerEnds, Abort, ReadRow, Goto
      <3>. QED
        BY <2>2, <3>1, <3>2, <3>3, <3>4, HasTypes
    <2>. QED
      BY <2>1, <2>2
  <1>4. /\ read' \in [Workers -> Rows] /\ read'[w] \in {read[w], row, NoFailure}
        /\ \A v \in Workers \ {w} : read'[v] = read[v]
        /\ ReadRow(w) => read'[w] = row
    BY NoFailureRow DEF Start, HandlerEnds, Abort, ReadRow, Retry, Crash, MemoryInv, Types, MemoryTypeOK
  <1>5. Types'
    BY <1>1, <1>2, <1>3, <1>4 DEF MemoryInv, Types, MemoryTypeOK, outcomes
  <1>6. AllJustified' /\ NoneInvented'
    <2>1. failures \in Nat
      BY HasTypes
    <2>. QED
      BY <1>1, <1>4, <2>1, NoFailureRow DEF MemoryInv, AllJustified, NoneInvented, Justified, outcomes
  <1>7. CopiesExact' /\ DispatchesCounted'
    BY <1>1, <1>3, <1>4 DEF MemoryInv, CopiesExact, DispatchesCounted, outcomes
  <1>. QED
    BY <1>5, <1>6, <1>7 DEF MemoryInv

LEMMA WriteStep ==
  ASSUME MemoryInv, NEW w \in Workers, WriteRow(w)
  PROVE  MemoryInv'
  <1>1. /\ pc' \in [Workers -> {"idle", "exec", "record", "write", "retry"}]
        /\ hand' \in [Workers -> Attempts] /\ failed' \in [Workers -> BOOLEAN]
        /\ pc'[w] # "write" /\ \A v \in Workers \ {w} : pc'[v] = pc[v]
    <2>1. CASE failed[w]
      BY <2>1 DEF WriteRow, Goto, MemoryInv, Types, MemoryTypeOK
    <2>2. CASE ~failed[w]
      BY <2>2, Released DEF WriteRow, MemoryInv
    <2>. QED
      BY <2>1, <2>2
  <1>2. /\ read' \in [Workers -> Rows] /\ read'[w] = NoFailure
        /\ \A v \in Workers \ {w} : read'[v] = read[v]
    BY NoFailureRow DEF WriteRow, MemoryInv, Types
  <1>3. PICK old \in Rows : old = read[w] /\ Justified(old) /\ old.fails <= failures /\ (~crossed => old.fails = streak)
    BY DEF WriteRow, MemoryInv, Types, AllJustified, NoneInvented, CopiesExact
  <1>4. /\ {streak, failures} \subseteq 0..MaxFails /\ late \in Nat /\ crossed \in BOOLEAN
        /\ old.fails \in 0..MaxFails /\ MaxFails \in Nat /\ row.left \in Nat
    BY <1>3, HasTypes, RowFields
  <1>5. row' \in Rows /\ Justified(row')
    BY <1>3, NoFailureRow, FailureRow DEF WriteRow, AfterSuccess
  <1>6. row'.fails <= failures' /\ failures <= failures' /\ failures' \in 0..MaxFails
    <2>1. CASE failed[w]
      BY <1>3, <1>4, <2>1, FailureRow, OneMoreGrows, OneMoreType DEF WriteRow
    <2>2. CASE ~failed[w]
      BY <1>4, <2>2, NoFailureRow DEF WriteRow, AfterSuccess
    <2>. QED
      BY <2>1, <2>2
  <1>7. streak' \in 0..MaxFails /\ (~crossed' => row'.fails = streak' /\ \A v \in Workers : pc'[v] # "write")
    <2>1. CASE failed[w]
      <3>1. row'.fails = Counted(old.fails) /\ streak' = Counted(streak)
        BY <1>3, <2>1, FailureRow DEF WriteRow
      <3>2. ~crossed' => ~crossed /\ \A v \in Workers \ {w} : pc[v] # "write"
        BY <1>4, <2>1 DEF WriteRow
      <3>. QED
        BY <1>1, <1>3, <1>4, <3>1, <3>2, OneMoreType
    <2>2. CASE ~failed[w]
      <3>1. row'.fails = 0 /\ streak' = 0
        BY <2>2, NoFailureRow DEF WriteRow, AfterSuccess
      <3>2. ~crossed' => \A v \in Workers \ {w} : pc[v] # "write"
        BY DEF WriteRow
      <3>. QED
        BY <1>1, <1>4, <3>1, <3>2
    <2>. QED
      BY <2>1, <2>2
  <1>8. UNCHANGED messages /\ crossed' \in BOOLEAN
    BY DEF WriteRow
  <1>9. late' \in Nat /\ DispatchesCounted'
    <2>1. late' = IF row.left > 0 /\ row'.left > 0 THEN late ELSE 0
      BY DEF WriteRow
    <2>2. looking' = looking
      BY <1>8 DEF messages
    <2>. QED
      BY <1>4, <2>1, <2>2 DEF MemoryInv, DispatchesCounted
  <1>10. Types'
    BY <1>1, <1>2, <1>5, <1>6, <1>7, <1>8, <1>9 DEF MemoryInv, Types, MemoryTypeOK, messages
  <1>11. AllJustified'
    BY <1>2, <1>5, NoFailureRow DEF MemoryInv, AllJustified, Justified
  <1>12. NoneInvented'
    <2>1. \A v \in Workers : read[v].fails \in Nat /\ read[v].fails <= failures
      BY HasTypes, RowFields DEF MemoryInv, NoneInvented
    <2>2. \A v \in Workers : read'[v].fails <= failures'
      BY <1>2, <1>4, <1>6, <2>1, NoFailureRow
    <2>. QED
      BY <1>6, <2>2 DEF NoneInvented
  <1>13. CopiesExact'
    BY <1>7 DEF CopiesExact
  <1>. QED
    BY <1>9, <1>10, <1>11, <1>12, <1>13 DEF MemoryInv

LEMMA TickStep == ASSUME MemoryInv, Tick PROVE MemoryInv'
  <1>1. row' = Elapsed(row) /\ UNCHANGED <<messages, pc, hand, failed, streak, failures, crossed>>
    BY DEF Tick
  <1>2. read' \in [Workers -> Rows] /\ \A w \in Workers : read'[w] = Elapsed(read[w])
    BY ElapsedRow DEF Tick, MemoryInv, Types
  <1>3. row \in Rows /\ row.left \in Nat /\ row'.left \in Nat /\ late \in Nat
    BY <1>1, ElapsedRow, HasTypes, RowFields
  <1>4. late' \in Nat /\ DispatchesCounted'
    <2>1. row'.left <= row.left
      BY <1>1, <1>3, ElapsedRow
    <2>2. late' = (IF row'.left > 0 THEN late ELSE 0) /\ looking' = looking
      BY DEF Tick, messages
    <2>. QED
      BY <1>3, <2>1, <2>2 DEF MemoryInv, DispatchesCounted
  <1>5. Types'
    BY <1>1, <1>2, <1>3, <1>4, ElapsedRow DEF MemoryInv, Types, MemoryTypeOK, messages
  <1>6. AllJustified'
    <2>1. Justified(row)'
      BY <1>1, <1>3, ElapsedRow DEF MemoryInv, AllJustified, Justified
    <2>2. ASSUME NEW w \in Workers PROVE Justified(read[w])'
      <3>1. PICK old \in Rows : old = read[w] /\ Justified(old)
        BY DEF MemoryInv, Types, AllJustified
      <3>2. Justified(Elapsed(old))
        BY <3>1, ElapsedRow
      <3>. QED
        BY <1>2, <3>1, <3>2 DEF Justified
    <2>. QED
      BY <2>1, <2>2 DEF AllJustified
  <1>7. NoneInvented' /\ CopiesExact'
    <2>1. row'.fails = row.fails /\ \A w \in Workers : read'[w].fails = read[w].fails
      BY <1>1, <1>2, <1>3, ElapsedRow DEF MemoryInv, Types
    <2>. QED
      BY <1>1, <2>1 DEF MemoryInv, NoneInvented, CopiesExact
  <1>. QED
    BY <1>4, <1>5, <1>6, <1>7 DEF MemoryInv

LEMMA MemoryInvStep == ASSUME MemoryInv, [MemoryNext]_memoryVars PROVE MemoryInv'
  <1>1. CASE UNCHANGED memoryVars
    BY <1>1 DEF memoryVars, messages, slots, outcomes, MemoryInv, Types, MemoryTypeOK, AllJustified, Justified, DispatchesCounted,
                NoneInvented, CopiesExact
  <1>2. CASE MemoryNext
    BY <1>2, JobsStep, SlotStep, WriteStep, TickStep DEF MemoryNext, GuardStep, WorkerActs
  <1>. QED
    BY <1>1, <1>2

(***************************************************************************)
(* The theorems                                                            *)
(***************************************************************************)

\* However slots overwrite each other's rows, crash or are overtaken by the
\* clock, every reachable state keeps the inductive invariant.
THEOREM MemoryInvariant == MemorySpec => []MemoryInv
  BY MemoryInvInit, MemoryInvStep, PTL DEF MemorySpec

\* A job is in cooldown only with a counter that justifies it and no longer
\* than that counter's backoff allows, and the cooldown lets at most one
\* dispatch through, the one the guard had answered before.
THEOREM CooldownIsRespected == MemorySpec => []CooldownsRespected
  <1>1. MemoryInv => CooldownsRespected
    <2> SUFFICES ASSUME MemoryInv PROVE CooldownsRespected
      OBVIOUS
    <2>1. MemoryTypeOK /\ CooldownFits
      BY DEF MemoryInv, Types, AllJustified, Justified, CooldownFits
    <2>2. LateDispatchBounded
      <3>1. late \in Nat
        BY <2>1 DEF MemoryTypeOK
      <3>. QED
        BY <3>1 DEF MemoryInv, DispatchesCounted, LateDispatchBounded
    <2>. QED
      BY <2>1, <2>2 DEF CooldownsRespected
  <1>. QED
    BY <1>1, MemoryInvariant, PTL

\* The counter never says more failures than there were, and is exact unless
\* two slots changed the row at the same time.
THEOREM CounterIsFaithful == MemorySpec => []CounterFaithful
  <1>1. MemoryInv => CounterFaithful
    BY DEF MemoryInv, NoneInvented, CopiesExact, CounterFaithful, NoFailureInvented, ExactCount
  <1>. QED
    BY <1>1, MemoryInvariant, PTL
================================================================================

-------------------------- MODULE ApprovalQueueProofs --------------------------
(***************************************************************************)
(* Proofs about ApprovalQueue, for every set of jobs and runs, every number *)
(* of slots and of API requests, every length of the list and every number  *)
(* of requests, refused commands and crashes.                              *)
(***************************************************************************)
EXTENDS ApprovalQueue, FiniteSetTheorems, SequenceTheorems, TLAPS

(***************************************************************************)
(* The inductive invariant                                                 *)
(***************************************************************************)
Written == {"point", "push", "trim", "hold"}
Asking == {"find", "load", "set"} \cup Written
HasCopy == {"write", "repoint", "release"}

\* What an actor holds at each step.
Works(a) ==
  /\ pc[a] \in Asking => on[a] \in Runs
  /\ pc[a] \in {"exec", "retry"} => a \in Slots /\ on[a] \in Runs
  /\ pc[a] \notin Asking \cup {"exec", "retry"} => on[a] = None
  /\ pc[a] \in {"set"} \cup Written => id[a] \in 1..used
  /\ pc[a] = "load" => id[a] \in Ids
  /\ pc[a] \in {"fetch"} \cup HasCopy => a \in Clients /\ id[a] \in shown
  /\ pc[a] \in HasCopy => copy[a].status # "none"
  /\ pc[a] = "release" => copy[a].status = "pending"
Working == \A a \in Actors : Works(a)

\* A row has a run unless it is missing.
RowsFormed ==
  /\ \A x \in Ids : redis.row[x].run = None <=> redis.row[x].status = "none"
  /\ \A p \in Processes, x \in Ids : mem[p].row[x].run = None <=> mem[p].row[x].status = "none"
  /\ \A a \in Actors : copy[a].run = None <=> copy[a].status = "none"

\* Every request under way will get an id within the bound.
Seekers == {a \in Actors : pc[a] \in {"find", "load"}}
RoomKept == used + Cardinality(Seekers) <= MaxIds

Base == TypeOK /\ Working /\ RowsFormed /\ RoomKept

(***************************************************************************)
(* Whose a request is.  An id is claimed for a run by the rows and indexes, *)
(* by whoever loads or creates the request and by whoever decides a copy of *)
(* it; all the claims of one id are for one run.                           *)
(***************************************************************************)
Claim(x, r) ==
  \/ redis.row[x].run = r \/ redis.index[r] = x
  \/ \E p \in Processes : mem[p].row[x].run = r \/ mem[p].index[r] = x
  \/ \E a \in Actors : pc[a] \in {"load", "set"} \cup Written /\ id[a] = x /\ on[a] = r
  \/ \E c \in Actors : pc[c] \in HasCopy /\ id[c] = x /\ copy[c].run = r

OneOwner == \A x \in Ids : \A r, q \in Runs : Claim(x, r) /\ Claim(x, q) => r = q
NotGivenOut == \A x \in Ids, r \in Runs : x > used => ~Claim(x, r)
OneCreator == \A a, b \in Actors : Creating(a) /\ Creating(b) /\ id[a] = id[b] => a = b

\* Until its row is written, a request is unknown to everybody.
Fresh == \A a \in Actors : pc[a] = "set" => redis.row[id[a]].status = "none" /\ id[a] \notin shown
WrittenRow == \A a \in Actors : pc[a] \in Written => redis.row[id[a]].run = on[a]

\* A row in a memory is there because an operation was cut short.
MemoryIsCut == \A p \in Processes, x \in Ids : mem[p].row[x].status # "none" => x \in cut

\* A decision stays, and the copy it was made from is not outdated in what counts.
CopyDecided == \A c \in Actors :
  pc[c] \in HasCopy /\ copy[c].status = "decided" => redis.row[id[c]].status = "decided" \/ id[c] \in cut
DecisionWritten == \A c \in Actors : pc[c] \in {"repoint", "release"} => redis.row[id[c]].status = "decided"

\* A job is held by requests of its own runs.
PendingRow == \A j \in Jobs : \A x \in redis.pending[j] : redis.row[x].run \in Runs /\ j = JobOf[redis.row[x].run]

BeingCreated(x) == \E b \in Actors : Creating(b) /\ id[b] = x
BeingReleased(x) == \E c \in Actors : pc[c] \in {"repoint", "release"} /\ id[c] = x /\ copy[c].status = "pending"

\* What has been decided is released, is about to be, or has been cut short or
\* decided too early.
DecisionReleases == \A x \in Ids :
  redis.row[x].status = "decided" =>
    \/ x \in cut \cup early \/ BeingReleased(x)
    \/ ~BeingCreated(x) /\ \A j \in Jobs : x \notin redis.pending[j]
PendingHolds == \A x \in Ids :
  redis.row[x].status = "pending" =>
    x \in redis.pending[JobOf[redis.row[x].run]] \/ BeingCreated(x) \/ x \in cut

Holding ==
  /\ OneOwner /\ NotGivenOut /\ OneCreator /\ Fresh /\ WrittenRow /\ MemoryIsCut
  /\ CopyDecided /\ DecisionWritten /\ PendingRow /\ DecisionReleases /\ PendingHolds

(***************************************************************************)
(* How often the schedule starts a held job                                *)
(***************************************************************************)
SlipsCounted == \A j \in Jobs :
  IF redis.pending[j] = {} THEN slipped[j] = 0
  ELSE slipped[j] + (IF looking = j THEN 1 ELSE 0) <= 1 + errors

(***************************************************************************)
(* How many requests a run has                                             *)
(***************************************************************************)
OneActor ==
  /\ \A a, b \in Actors : on[a] \in Runs /\ on[a] = on[b] => a = b
  /\ \A a \in Actors : /\ pc[a] = "exec" => run[on[a]] = "active"
                       /\ pc[a] \in Asking \cup {"retry"} => run[on[a]] = "ended"
IndexedRow ==
  /\ \A r \in Runs : redis.index[r] # 0 => redis.row[redis.index[r]].run = r
  /\ \A p \in Processes, r \in Runs : mem[p].index[r] # 0 => mem[p].row[mem[p].index[r]].run = r
LoadFinds == \A a \in Actors : pc[a] = "load" => {redis.row[id[a]].run, mem[Proc(a)].row[id[a]].run} \cap Runs # {}
CopyStands == \A c \in Actors :
  pc[c] \in HasCopy => copy[c].run \in {redis.row[id[c]].run, mem["api"].row[id[c]].run}

Requests(r) == {x \in Ids : r \in {redis.row[x].run} \cup {mem[p].row[x].run : p \in Processes}}
Count(r) == Cardinality(Requests(r))

\* A run that may ask once more and that Redis knows no request of: each of
\* its requests has cost an error.
MayAsk(r) == run[r] # "ended" \/ \E a \in Actors : on[a] = r /\ pc[a] \in {"retry", "find", "load"}
RequestsPaid == \A r \in Runs :
  /\ Count(r) <= 1 + errors
  /\ \A a \in Actors : pc[a] = "set" /\ on[a] = r => Count(r) <= errors
  /\ MayAsk(r) /\ redis.index[r] = 0 => Count(r) <= errors

OnList(x) == x \in ToSet(redis.order) \/ Len(redis.order) >= ApprovalMax \/ x \in cut
RowsListed ==
  /\ \A a \in Actors : pc[a] \in {"trim", "hold"} => OnList(id[a])
  /\ \A a \in Actors : pc[a] \in {"push", "trim", "hold"} => redis.index[on[a]] # 0
  /\ \A x \in Ids : redis.row[x].status # "none" =>
       OnList(x) \/ \E b \in Actors : pc[b] \in Written /\ id[b] = x

Asked == OneActor /\ IndexedRow /\ LoadFinds /\ CopyStands /\ RequestsPaid /\ RowsListed /\ AskIsAnswered

(***************************************************************************)
(* Types                                                                   *)
(***************************************************************************)

\* A store is the record of its four fields.
LEMMA StoreFields ==
  ASSUME NEW s \in Store
  PROVE  /\ s.row \in [Ids -> Rows] /\ s.index \in [Runs -> 0..MaxIds]
         /\ s.order \in Seq(Ids) /\ s.pending \in [Jobs -> SUBSET Ids]
  BY DEF Store

\* What each command changes in a store, and what it leaves.
LEMMA RowWritten ==
  ASSUME NEW s \in Store, NEW x \in Ids, NEW st \in {"pending", "decided"}, NEW r \in Runs
  PROVE  /\ WithRow(s, x, st, r) \in Store /\ WithRow(s, x, st, r).row = [s.row EXCEPT ![x] = [status |-> st, run |-> r]]
         /\ WithRow(s, x, st, r).index = s.index /\ WithRow(s, x, st, r).order = s.order /\ WithRow(s, x, st, r).pending = s.pending
  BY DEF WithRow, Store, Rows

LEMMA IndexWritten ==
  ASSUME NEW s \in Store, NEW x \in Ids, NEW r \in Runs
  PROVE  /\ WithIndex(s, x, r) \in Store /\ WithIndex(s, x, r).index = [s.index EXCEPT ![r] = x]
         /\ WithIndex(s, x, r).row = s.row /\ WithIndex(s, x, r).order = s.order /\ WithIndex(s, x, r).pending = s.pending
  <1>1. x \in 0..MaxIds
    BY ApprovalAssumption DEF Ids
  <1>. QED
    BY <1>1 DEF WithIndex, Store

LEMMA OrderPushed ==
  ASSUME NEW s \in Store, NEW x \in Ids
  PROVE  /\ Pushed(s, x) \in Store /\ Pushed(s, x).order = <<x>> \o s.order
         /\ Pushed(s, x).row = s.row /\ Pushed(s, x).index = s.index /\ Pushed(s, x).pending = s.pending
  <1>1. <<x>> \o s.order \in Seq(Ids)
    BY DEF Store
  <1>. QED
    BY <1>1 DEF Pushed, Store

LEMMA OrderTrimmed ==
  ASSUME NEW s \in Store
  PROVE  /\ Trimmed(s) \in Store
         /\ Trimmed(s).order = IF Len(s.order) <= ApprovalMax THEN s.order ELSE SubSeq(s.order, 1, ApprovalMax)
         /\ Trimmed(s).row = s.row /\ Trimmed(s).index = s.index /\ Trimmed(s).pending = s.pending
  <1> DEFINE n == Min({Len(s.order), ApprovalMax})
  <1>1. Len(s.order) \in Nat /\ ApprovalMax \in Nat /\ s.order \in Seq(Ids)
    BY ApprovalAssumption DEF Store
  <1>2. n = IF Len(s.order) <= ApprovalMax THEN Len(s.order) ELSE ApprovalMax
    BY <1>1 DEF Min
  <1>3. SubSeq(s.order, 1, Len(s.order)) = s.order
    BY <1>1, SubSeqFull
  <1>4. SubSeq(s.order, 1, n) \in Seq(Ids)
    <2>1. n \in Nat /\ n <= Len(s.order)
      BY <1>1, <1>2
    <2>2. \A i \in 1..n : s.order[i] \in Ids
      BY <1>1, <2>1, ElementOfSeq
    <2> HIDE DEF n
    <2>3. 1 \in Int /\ n \in Int
      BY <2>1
    <2>. QED
      BY <2>2, <2>3, SubSeqProperties
  <1>. QED
    BY <1>2, <1>3, <1>4 DEF Trimmed, Store

LEMMA JobHeld ==
  ASSUME NEW s \in Store, NEW x \in Ids, NEW r \in Runs
  PROVE  /\ Held(s, x, r) \in Store /\ Held(s, x, r).pending = [s.pending EXCEPT ![JobOf[r]] = @ \cup {x}]
         /\ Held(s, x, r).row = s.row /\ Held(s, x, r).index = s.index /\ Held(s, x, r).order = s.order
  BY ApprovalAssumption DEF Held, Store

LEMMA JobReleased ==
  ASSUME NEW s \in Store, NEW x \in Ids, NEW r \in Runs
  PROVE  /\ Released(s, x, r) \in Store /\ Released(s, x, r).pending = [s.pending EXCEPT ![JobOf[r]] = @ \ {x}]
         /\ Released(s, x, r).row = s.row /\ Released(s, x, r).index = s.index /\ Released(s, x, r).order = s.order
  BY ApprovalAssumption DEF Released, Store

\* What a request and a decision write to memory at once.
CreatedIn(s, x, r) == Held(Trimmed(Pushed(WithIndex(WithRow(s, x, "pending", r), x, r), x)), x, r)
LEMMA MemoryCreates ==
  ASSUME NEW s \in Store, NEW x \in Ids, NEW r \in Runs
  PROVE  /\ CreatedIn(s, x, r) \in Store
         /\ CreatedIn(s, x, r).row[x].status = "pending" /\ CreatedIn(s, x, r).row[x].run = r
         /\ \A y \in Ids \ {x} : CreatedIn(s, x, r).row[y] = s.row[y]
         /\ CreatedIn(s, x, r).index[r] = x
         /\ \A q \in Runs \ {r} : CreatedIn(s, x, r).index[q] = s.index[q]
  <1> DEFINE s1 == WithRow(s, x, "pending", r)
  <1>1. /\ s1 \in Store /\ s1.row = [s.row EXCEPT ![x] = [status |-> "pending", run |-> r]]
        /\ s1.index = s.index
    BY RowWritten
  <1> DEFINE s2 == WithIndex(s1, x, r)
  <1> HIDE DEF s1
  <1>2. s2 \in Store /\ s2.row = s1.row /\ s2.index = [s1.index EXCEPT ![r] = x]
    BY <1>1, IndexWritten
  <1> DEFINE s3 == Pushed(s2, x)
  <1> HIDE DEF s2
  <1>3. s3 \in Store /\ s3.row = s2.row /\ s3.index = s2.index
    BY <1>2, OrderPushed
  <1> DEFINE s4 == Trimmed(s3)
  <1> HIDE DEF s3
  <1>4. s4 \in Store /\ s4.row = s3.row /\ s4.index = s3.index
    BY <1>3, OrderTrimmed
  <1> DEFINE s5 == Held(s4, x, r)
  <1> HIDE DEF s4
  <1>5. s5 \in Store /\ s5.row = s4.row /\ s5.index = s4.index
    BY <1>4, JobHeld
  <1>6. s5 = CreatedIn(s, x, r)
    BY DEF s1, s2, s3, s4, CreatedIn
  <1> DEFINE c == CreatedIn(s, x, r)
  <1>7. c \in Store /\ c.row = [s.row EXCEPT ![x] = [status |-> "pending", run |-> r]] /\ c.index = [s.index EXCEPT ![r] = x]
    BY <1>1, <1>2, <1>3, <1>4, <1>5, <1>6
  <1> HIDE DEF c
  <1>8. /\ c.row[x] = [status |-> "pending", run |-> r] /\ \A y \in Ids \ {x} : c.row[y] = s.row[y]
        /\ c.index[r] = x /\ \A q \in Runs \ {r} : c.index[q] = s.index[q]
    BY <1>7, StoreFields
  <1>. QED
    BY <1>7, <1>8 DEF c

DecidedIn(s, x, r, first) ==
  LET t == WithIndex(WithRow(s, x, "decided", r), x, r) IN IF first THEN Released(t, x, r) ELSE t
LEMMA MemoryDecides ==
  ASSUME NEW s \in Store, NEW x \in Ids, NEW r \in Runs, NEW first \in BOOLEAN
  PROVE  /\ DecidedIn(s, x, r, first) \in Store
         /\ DecidedIn(s, x, r, first).row[x].status = "decided" /\ DecidedIn(s, x, r, first).row[x].run = r
         /\ \A y \in Ids \ {x} : DecidedIn(s, x, r, first).row[y] = s.row[y]
         /\ DecidedIn(s, x, r, first).index[r] = x
         /\ \A q \in Runs \ {r} : DecidedIn(s, x, r, first).index[q] = s.index[q]
  <1> DEFINE s1 == WithRow(s, x, "decided", r)
  <1>1. /\ s1 \in Store /\ s1.row = [s.row EXCEPT ![x] = [status |-> "decided", run |-> r]]
        /\ s1.index = s.index
    BY RowWritten
  <1> DEFINE s2 == WithIndex(s1, x, r)
  <1> HIDE DEF s1
  <1>2. s2 \in Store /\ s2.row = s1.row /\ s2.index = [s1.index EXCEPT ![r] = x]
    BY <1>1, IndexWritten
  <1> DEFINE s3 == Released(s2, x, r)
  <1> HIDE DEF s2
  <1>3. s3 \in Store /\ s3.row = s2.row /\ s3.index = s2.index
    BY <1>2, JobReleased
  <1>4. DecidedIn(s, x, r, first) = IF first THEN s3 ELSE s2
    BY DEF s1, s2, DecidedIn
  <1> DEFINE c == DecidedIn(s, x, r, first)
  <1>5. c \in Store /\ c.row = [s.row EXCEPT ![x] = [status |-> "decided", run |-> r]] /\ c.index = [s.index EXCEPT ![r] = x]
    BY <1>1, <1>2, <1>3, <1>4
  <1> HIDE DEF c
  <1>6. /\ c.row[x] = [status |-> "decided", run |-> r] /\ \A y \in Ids \ {x} : c.row[y] = s.row[y]
        /\ c.index[r] = x /\ \A q \in Runs \ {r} : c.index[q] = s.index[q]
    BY <1>5, StoreFields
  <1>. QED
    BY <1>5, <1>6 DEF c

LEMMA EmptyStore ==
  /\ Empty \in Store /\ NoRow \in Rows
  /\ \A x \in Ids : Empty.row[x] = NoRow
  <1>1. 0 \in 0..MaxIds /\ <<>> \in Seq(Ids)
    BY ApprovalAssumption
  <1>. QED
    BY <1>1 DEF Empty, Store, NoRow, Rows

(***************************************************************************)
(* The steps there are                                                     *)
(***************************************************************************)

\* The actions one by one, each with its parameters.
LEMMA NextCases ==
  ASSUME [Next]_vars
  PROVE
    \/ \E a \in Actors : FindByRun(a) \/ LoadExisting(a)
    \/ \E a \in Actors : SetRow(a) \/ SetRunIndex(a) \/ PushOrder(a) \/ TrimOrder(a) \/ HoldJob(a)
    \/ \E a \in Actors : CreateInMemory(a)
    \/ \E c \in Clients, x \in Ids : Decide(c, x)
    \/ \E c \in Clients : FetchRow(c) \/ WriteDecision(c) \/ RewriteRunIndex(c) \/ ReleaseJob(c) \/ DecideInMemory(c)
    \/ \E c \in Clients, r \in Runs : TriggerAsks(c, r)
    \/ \E j \in Jobs : LookAtApprovals(j)
    \/ Skip
    \/ \E r \in Runs : Dispatch(r) \/ QueueRetry(r) \/ ManualRun(r)
    \/ \E w \in Slots, r \in Runs : Start(w, r)
    \/ \E w \in Slots : Succeed(w) \/ Retry(w)
    \/ \E w \in Slots, asks \in BOOLEAN : Fail(w, asks)
    \/ \E p \in Processes : Crash(p)
    \/ UNCHANGED vars
  BY DEF Next, Create, Deciding

(***************************************************************************)
(* Room for the ids of those who ask                                       *)
(***************************************************************************)
LEMMA SeekersFinite == IsFiniteSet(Seekers) /\ Cardinality(Seekers) \in Nat
  <1>1. Seekers \subseteq Slots \cup Clients /\ IsFiniteSet(Slots \cup Clients)
    BY ApprovalAssumption DEF Seekers, Actors
  <1>. QED
    BY <1>1, FS_Subset, FS_CardinalityType

LEMMA NoNewSeeker ==
  ASSUME used \in Nat, RoomKept, used' = used, Seekers' \subseteq Seekers
  PROVE  RoomKept'
  <1>1. Cardinality(Seekers') <= Cardinality(Seekers) /\ Cardinality(Seekers') \in Nat
    BY SeekersFinite, FS_Subset, FS_CardinalityType
  <1>. QED
    BY <1>1, SeekersFinite, ApprovalAssumption DEF RoomKept

LEMMA SeekerGetsId ==
  ASSUME used \in Nat, RoomKept, NEW a \in Seekers, used' = used + 1, Seekers' = Seekers \ {a}
  PROVE  RoomKept' /\ used' \in 1..MaxIds
  <1>1. Cardinality(Seekers') = Cardinality(Seekers) - 1 /\ Cardinality(Seekers) > 0
    BY SeekersFinite, FS_RemoveElement, FS_EmptySet
  <1>. QED
    BY <1>1, SeekersFinite, ApprovalAssumption DEF RoomKept

LEMMA SeekerEnters ==
  ASSUME used \in Nat, RoomForId, NEW a, Seekers' = Seekers \cup {a}, used' = used
  PROVE  RoomKept'
  <1>1. Cardinality(Seekers \cup {a}) <= Cardinality(Seekers) + 1 /\ Cardinality(Seekers \cup {a}) \in Nat
    BY SeekersFinite, FS_AddElement
  <1>2. used + Cardinality(Seekers) < MaxIds
    BY DEF RoomForId, Seekers
  <1>. QED
    BY <1>1, <1>2, SeekersFinite, ApprovalAssumption DEF RoomKept

(***************************************************************************)
(* Types, and what an actor holds                                          *)
(***************************************************************************)
Pcs == {"idle", "exec", "retry", "find", "load", "set", "point", "push", "trim", "hold",
        "fetch", "write", "repoint", "release"}
ActorType ==
  /\ pc \in [Actors -> Pcs] /\ on \in [Actors -> Runs \cup {None}]
  /\ id \in [Actors -> 0..MaxIds] /\ copy \in [Actors -> Rows]

\* What the other actors hold is as it was.
Alone(a) ==
  \A b \in Actors \ {a} : pc'[b] = pc[b] /\ on'[b] = on[b] /\ id'[b] = id[b] /\ copy'[b] = copy[b]

LEMMA ActorsApart == Actors = Slots \cup Clients /\ Slots \cap Clients = {}
  BY ApprovalAssumption DEF Actors

LEMMA OthersWork ==
  ASSUME TypeOK, Working, NEW a \in Actors, Alone(a), Works(a)', used' \in Nat, used <= used', shown \subseteq shown'
  PROVE  Working'
  <1>1. 1..used \subseteq 1..used'
    BY DEF TypeOK
  <1>2. ASSUME NEW b \in Actors \ {a} PROVE Works(b)'
    BY <1>1 DEF Working, Works, Alone
  <1>. QED
    BY <1>2 DEF Working

\* Whoever leaves an operation has nothing of it any more.
LEMMA Leaving ==
  ASSUME TypeOK, Working, NEW a \in Actors, Leave(a)
  PROVE  /\ ActorType' /\ Alone(a) /\ Works(a)'
         /\ pc'[a] \in {"idle", "retry"} /\ id'[a] = 0 /\ copy'[a] = NoRow
         /\ on'[a] \in {on[a], None} /\ (a \in Slots => on'[a] = on[a])
         /\ (pc'[a] = "retry" <=> a \in Slots /\ on[a] # None)
  <1>1. ActorType'
    BY EmptyStore, ApprovalAssumption DEF TypeOK, ActorType, Pcs, Leave, Goto
  <1>2. Alone(a)
    BY DEF TypeOK, Leave, Goto, Alone
  <1>3. /\ pc'[a] = IF a \in Slots /\ on[a] # None THEN "retry" ELSE "idle"
        /\ id'[a] = 0 /\ copy'[a] = NoRow /\ on'[a] = IF a \in Slots THEN on[a] ELSE None
    BY DEF TypeOK, Leave, Goto
  <1>4. Works(a)'
    BY <1>3 DEF Works, TypeOK, Asking, Written, HasCopy
  <1>. QED
    BY <1>1, <1>2, <1>3, <1>4

LEMMA RefusedType == ASSUME TypeOK, Refused, UNCHANGED crashes PROVE errors' \in Nat /\ crashes' \in Nat /\ errors' + crashes' <= MaxFaults
  BY ApprovalAssumption DEF TypeOK, Refused

LEMMA BaseInit == Init => Base
  <1> SUFFICES ASSUME Init PROVE Base
    OBVIOUS
  <1>1. redis \in Store /\ mem \in [Processes -> Store]
    BY EmptyStore DEF Init
  <1>2. TypeOK
    BY <1>1, EmptyStore, ApprovalAssumption DEF Init, TypeOK
  <1>3. Working
    BY DEF Init, Working, Works, Asking, Written, HasCopy
  <1>4. RowsFormed
    BY EmptyStore DEF Init, RowsFormed, NoRow
  <1>5. Seekers = {}
    BY DEF Init, Seekers
  <1>6. RoomKept
    BY <1>5, FS_EmptySet, ApprovalAssumption DEF Init, RoomKept
  <1>. QED
    BY <1>2, <1>3, <1>4, <1>6 DEF Base

LEMMA BaseStep == ASSUME Base, [Next]_vars PROVE Base'
  <1> DEFINE
    StoresOK == redis' \in Store /\ mem' \in [Processes -> Store]
    RunsOK == /\ run' \in [Runs -> {"new", "queued", "active", "delayed", "ended"}]
              /\ attempt' \in [Runs -> 0..MaxRetry] /\ looking' \in Jobs \cup {None}
    RestOK == /\ used' \in Nat /\ shown' \subseteq 1..used' /\ (cut \cup early)' \subseteq 1..used'
              /\ errors' \in Nat /\ crashes' \in Nat /\ errors' + crashes' <= MaxFaults
              /\ answered' \subseteq Runs /\ slipped' \in [Jobs -> Nat]
    Goal == Base'
  <1>1. TypeOK /\ Working /\ RowsFormed /\ RoomKept /\ used \in Nat
    BY DEF Base, TypeOK
  <1>2. ASSUME ActorType', StoresOK, RunsOK, RestOK, Working', RowsFormed', RoomKept' PROVE Goal
    <2>1. used' <= MaxIds
      <3>1. Cardinality(Seekers') \in Nat
        <4>1. Seekers' \subseteq Slots \cup Clients
          BY DEF Seekers, Actors
        <4>. QED
          BY <4>1, ApprovalAssumption, FS_Subset, FS_CardinalityType
      <3>. QED
        BY <1>2, <3>1, ApprovalAssumption DEF RoomKept
    <2>2. used' \in 0..MaxIds
      BY <1>2, <2>1, ApprovalAssumption
    <2>. QED
      BY <1>2, <2>2 DEF Base, TypeOK, ActorType, Pcs
  <1> HIDE DEF Goal
  <1>3. ASSUME UNCHANGED <<redis, mem, actor>>, RunsOK, RestOK, used' = used, shown \subseteq shown' PROVE Goal
    <2>1. ActorType' /\ StoresOK
      BY <1>1, <1>3 DEF TypeOK, ActorType, Pcs, actor
    <2>2. Working' /\ RowsFormed'
      BY <1>1, <1>3 DEF Working, Works, RowsFormed, actor
    <2>3. RoomKept'
      BY <1>1, <1>3 DEF RoomKept, Seekers, actor
    <2>. QED
      BY <1>2, <1>3, <2>1, <2>2, <2>3
  <1>4. ASSUME \/ \E j \in Jobs : LookAtApprovals(j)
               \/ Skip
               \/ \E r \in Runs : Dispatch(r) \/ QueueRetry(r) \/ ManualRun(r)
               \/ UNCHANGED vars
        PROVE  Goal
    <2>1. RunsOK /\ UNCHANGED <<redis, mem, actor, used, shown, cut, early, answered, crashes>>
      BY <1>1, <1>4 DEF LookAtApprovals, Skip, Dispatch, QueueRetry, ManualRun, vars, runs, ghosts, TypeOK, actor
    <2>2. errors' \in Nat /\ errors' + crashes' <= MaxFaults
      BY <1>1, <1>4, RefusedType DEF LookAtApprovals, Skip, Dispatch, QueueRetry, ManualRun, vars, runs, ghosts, TypeOK
    <2>3. slipped' \in [Jobs -> Nat]
      BY <1>1, <1>4 DEF LookAtApprovals, Skip, Dispatch, QueueRetry, ManualRun, vars, runs, ghosts, TypeOK
    <2>4. RestOK
      BY <1>1, <2>1, <2>2, <2>3 DEF TypeOK
    <2>. QED
      BY <1>3, <2>1, <2>4
  <1>5. ASSUME NEW a \in Actors, ActorType', Alone(a), Works(a)', StoresOK, RunsOK, RestOK,
               used <= used', shown \subseteq shown', RowsFormed', RoomKept'
        PROVE  Goal
    BY <1>1, <1>2, <1>5, OthersWork
  <1>6. ASSUME NEW a \in Actors, Alone(a), pc'[a] \notin {"find", "load"} \/ pc[a] \in {"find", "load"}, UNCHANGED used
        PROVE  RoomKept'
    <2>1. Seekers' \subseteq Seekers
      BY <1>6 DEF Seekers, Alone
    <2>. QED
      BY <1>1, <1>6, <2>1, NoNewSeeker
  <1>7. ASSUME NEW a \in Actors, Alone(a), UNCHANGED <<redis, mem>>,
               copy'[a] \in {copy[a], NoRow, mem["api"].row[id[a]], RowSeen("api", id[a])}, id[a] \in Ids \/ copy'[a] \in {copy[a], NoRow}
        PROVE  RowsFormed'
    <2>1. copy'[a].run = None <=> copy'[a].status = "none"
      BY <1>1, <1>7 DEF RowsFormed, NoRow, RowSeen, Processes
    <2>. QED
      BY <1>1, <1>7, <2>1 DEF RowsFormed, Alone
  <1>8. ASSUME NEW a \in Actors, pc[a] \in {"find", "load"}, NewId(a), UNCHANGED <<on, copy>>
        PROVE  /\ ActorType' /\ Alone(a) /\ Works(a)' /\ RoomKept' /\ used' \in Nat /\ used' = used + 1
    <2>1. Seekers' = Seekers \ {a} /\ a \in Seekers
      BY <1>1, <1>8 DEF Seekers, NewId, Goto, TypeOK
    <2>2. RoomKept' /\ used' \in 1..MaxIds
      BY <1>1, <1>8, <2>1, SeekerGetsId DEF NewId
    <2>3. ActorType' /\ Alone(a)
      BY <1>1, <1>8, <2>2 DEF NewId, Goto, TypeOK, ActorType, Pcs, Alone
    <2>4. pc'[a] = "set" /\ id'[a] = used' /\ on'[a] = on[a]
      BY <1>1, <1>8 DEF NewId, Goto, TypeOK
    <2>5. Works(a)'
      BY <1>1, <1>8, <2>2, <2>4 DEF Working, Works, Asking, Written, HasCopy
    <2>. QED
      BY <1>8, <2>2, <2>3, <2>5 DEF NewId
  <1>9. ASSUME NEW a \in Actors, FindByRun(a) PROVE Goal
    <2>1. on[a] \in Runs
      BY <1>1, <1>9 DEF FindByRun, Working, Works, Asking
    <2>2. PICK existing \in 0..MaxIds : Found(a, existing)
      BY <1>1, <1>9, <2>1, StoreFields DEF FindByRun, TypeOK, Proc, Processes
    <2>3. StoresOK /\ RunsOK /\ UNCHANGED <<on, copy, shown, cut, early, answered, slipped, crashes>>
      BY <1>1, <1>9 DEF FindByRun, TypeOK, runs, ghosts
    <2>4. errors' \in Nat /\ errors' + crashes' <= MaxFaults
      BY <1>1, <1>9, RefusedType DEF FindByRun, TypeOK
    <2>5. CASE existing # 0 /\ id' = [id EXCEPT ![a] = existing] /\ Goto(a, "load") /\ UNCHANGED used
      <3>1. ActorType' /\ Alone(a)
        BY <1>1, <2>3, <2>5 DEF TypeOK, ActorType, Pcs, Alone, Goto
      <3>2. Works(a)'
        BY <1>1, <2>1, <2>3, <2>5 DEF TypeOK, Works, Goto, Asking, Written, HasCopy, Ids
      <3>3. RoomKept'
        BY <1>6, <1>9, <2>5, <3>1 DEF FindByRun
      <3>4. RowsFormed'
        BY <1>7, <1>9, <2>3, <3>1 DEF FindByRun
      <3>. QED
        BY <1>1, <1>5, <2>3, <2>4, <2>5, <3>1, <3>2, <3>3, <3>4 DEF TypeOK
    <2>6. CASE NewId(a)
      <3>1. ActorType' /\ Alone(a) /\ Works(a)' /\ RoomKept' /\ used' \in Nat /\ used' = used + 1
        BY <1>8, <1>9, <2>3, <2>6 DEF FindByRun
      <3>2. RowsFormed'
        BY <1>7, <1>9, <2>3, <3>1 DEF FindByRun
      <3>3. RestOK
        BY <1>1, <2>3, <2>4, <3>1 DEF TypeOK
      <3>. QED
        BY <1>1, <1>5, <2>3, <3>1, <3>2, <3>3
    <2>. QED
      BY <2>2, <2>5, <2>6 DEF Found
  <1>10. ASSUME NEW a \in Actors, LoadExisting(a) PROVE Goal
    <2>1. on[a] \in Runs /\ id[a] \in Ids
      BY <1>1, <1>10 DEF LoadExisting, Working, Works, Asking
    <2>2. StoresOK /\ RunsOK /\ UNCHANGED <<shown, cut, early, slipped, crashes>> /\ UNCHANGED <<redis, mem>>
      BY <1>1, <1>10 DEF LoadExisting, TypeOK, runs
    <2>3. errors' \in Nat /\ errors' + crashes' <= MaxFaults
      BY <1>1, <1>10, RefusedType DEF LoadExisting, TypeOK
    <2>4. answered' \subseteq Runs
      BY <1>1, <1>10, <2>1 DEF LoadExisting, TypeOK
    <2>5. CASE Leave(a) /\ UNCHANGED used
      <3>1. ActorType' /\ Alone(a) /\ Works(a)' /\ pc'[a] \in {"idle", "retry"} /\ copy'[a] = NoRow
        BY <1>1, <2>5, Leaving
      <3>2. RoomKept'
        BY <1>6, <2>5, <3>1
      <3>3. RowsFormed'
        BY <1>7, <2>2, <3>1
      <3>. QED
        BY <1>1, <1>5, <2>2, <2>3, <2>4, <2>5, <3>1, <3>2, <3>3 DEF TypeOK
    <2>6. CASE NewId(a) /\ UNCHANGED <<on, copy>>
      <3>1. ActorType' /\ Alone(a) /\ Works(a)' /\ RoomKept' /\ used' \in Nat /\ used' = used + 1
        BY <1>8, <1>10, <2>6 DEF LoadExisting
      <3>2. RowsFormed'
        BY <1>7, <2>2, <2>6, <3>1
      <3>3. RestOK
        BY <1>1, <2>2, <2>3, <2>4, <3>1 DEF TypeOK
      <3>. QED
        BY <1>1, <1>5, <2>2, <3>1, <3>2, <3>3
    <2>. QED
      BY <1>10, <2>5, <2>6 DEF LoadExisting
  <1>11. ASSUME NEW a \in Actors, SetRow(a) \/ SetRunIndex(a) \/ PushOrder(a) \/ TrimOrder(a) PROVE Goal
    <2>1. on[a] \in Runs /\ id[a] \in 1..used /\ id[a] \in Ids /\ pc[a] \in {"set"} \cup Written
      BY <1>1, <1>11 DEF SetRow, SetRunIndex, PushOrder, TrimOrder, Working, Works, Asking, Written, TypeOK, Ids
    <2>2. redis \in Store /\ redis.row \in [Ids -> Rows]
      BY <1>1, StoreFields DEF TypeOK
    <2>3. /\ redis' \in Store
          /\ \/ redis'.row = redis.row
             \/ redis'.row = [redis.row EXCEPT ![id[a]] = [status |-> "pending", run |-> on[a]]]
      <3>1. CASE redis' = WithRow(redis, id[a], "pending", on[a])
        BY <2>1, <2>2, <3>1, RowWritten
      <3>2. CASE redis' = WithIndex(redis, id[a], on[a])
        BY <2>1, <2>2, <3>2, IndexWritten
      <3>3. CASE redis' = Pushed(redis, id[a])
        BY <2>1, <2>2, <3>3, OrderPushed
      <3>4. CASE redis' = Trimmed(redis)
        BY <2>1, <2>2, <3>4, OrderTrimmed
      <3>. QED
        BY <1>11, <3>1, <3>2, <3>3, <3>4 DEF SetRow, SetRunIndex, PushOrder, TrimOrder
    <2>4. /\ UNCHANGED <<mem, runs, on, id, copy, used, errors, crashes, ghosts>>
          /\ pc' = [pc EXCEPT ![a] = pc'[a]] /\ pc'[a] \in Written
          /\ shown' \in {shown, shown \cup {id[a]}}
      BY <1>1, <1>11 DEF SetRow, SetRunIndex, PushOrder, TrimOrder, Goto, Written, TypeOK
    <2>5. RowsFormed'
      <3>1. on[a] # None
        BY <2>1, ApprovalAssumption
      <3>2. \A x \in Ids : redis'.row[x].run = None <=> redis'.row[x].status = "none"
        BY <1>1, <2>1, <2>2, <2>3, <3>1 DEF RowsFormed
      <3>. QED
        BY <1>1, <2>4, <3>2 DEF RowsFormed
    <2>6. ActorType' /\ Alone(a)
      BY <1>1, <2>4 DEF TypeOK, ActorType, Pcs, Alone, Written
    <2>7. Works(a)'
      BY <2>1, <2>4 DEF Works, Asking, Written, HasCopy
    <2>8. RoomKept'
      BY <1>6, <2>4, <2>6 DEF Written
    <2>9. StoresOK /\ RunsOK /\ RestOK
      BY <1>1, <2>1, <2>3, <2>4 DEF TypeOK, runs, ghosts
    <2>10. used <= used' /\ shown \subseteq shown'
      BY <1>1, <2>4
    <2>. QED
      BY <1>5, <2>5, <2>6, <2>7, <2>8, <2>9, <2>10
  <1>12. ASSUME NEW a \in Actors, HoldJob(a) PROVE Goal
    <2>1. on[a] \in Runs /\ id[a] \in Ids
      BY <1>1, <1>12 DEF HoldJob, Working, Works, Asking, Written, TypeOK, Ids
    <2>2. redis' \in Store /\ redis'.row = redis.row
      BY <1>1, <1>12, <2>1, JobHeld DEF HoldJob, TypeOK
    <2>3. ActorType' /\ Alone(a) /\ Works(a)' /\ pc'[a] \in {"idle", "retry"} /\ copy'[a] = NoRow
      BY <1>1, <1>12, Leaving DEF HoldJob
    <2>4. /\ UNCHANGED <<mem, runs, used, shown, errors, crashes, cut, early, slipped>>
          /\ answered' = answered \cup {on[a]}
      BY <1>12 DEF HoldJob
    <2>5. RowsFormed'
      BY <1>1, <2>2, <2>3, <2>4 DEF RowsFormed, Alone, NoRow
    <2>6. RoomKept'
      BY <1>6, <2>3, <2>4
    <2>7. StoresOK /\ RunsOK /\ RestOK
      BY <1>1, <2>1, <2>2, <2>4 DEF TypeOK, runs
    <2>. QED
      BY <1>1, <1>5, <2>3, <2>4, <2>5, <2>6, <2>7
  <1>13. ASSUME NEW p \in Processes, NEW s \in Store, mem'[p] = s, \A q \in Processes \ {p} : mem'[q] = mem[q],
                mem' \in [Processes -> Store], UNCHANGED redis,
                NEW x \in Ids, s.row[x].run # None, s.row[x].status # "none", \A y \in Ids \ {x} : s.row[y] = mem[p].row[y],
                NEW a \in Actors, Alone(a), copy'[a] = NoRow
         PROVE  RowsFormed' /\ StoresOK
    <2>3. \A y \in Ids : s.row[y].run = None <=> s.row[y].status = "none"
      BY <1>1, <1>13 DEF RowsFormed
    <2>4. \A q \in Processes, y \in Ids : mem'[q].row[y].run = None <=> mem'[q].row[y].status = "none"
      BY <1>1, <1>13, <2>3 DEF RowsFormed
    <2>5. \A b \in Actors : copy'[b].run = None <=> copy'[b].status = "none"
      BY <1>1, <1>13 DEF RowsFormed, Alone, NoRow
    <2>6. redis' \in Store
      BY <1>1, <1>13 DEF TypeOK
    <2>. QED
      BY <1>1, <1>13, <2>4, <2>5, <2>6 DEF RowsFormed
  <1>14. ASSUME NEW a \in Actors, CreateInMemory(a) PROVE Goal
    <2>1. on[a] \in Runs /\ id[a] \in Ids /\ id[a] \in 1..used /\ Proc(a) \in Processes
      BY <1>1, <1>14 DEF CreateInMemory, Creating, Working, Works, Asking, Written, TypeOK, Ids, Proc, Processes
    <2>2. PICK s \in Store : s = mem[Proc(a)]
      BY <1>1, <2>1 DEF TypeOK
    <2>3. PICK x \in Ids, r \in Runs : x = id[a] /\ r = on[a]
      BY <2>1
    <2>4. PICK t \in Store :
            /\ t = CreatedIn(s, x, r) /\ t.row[x].status = "pending" /\ t.row[x].run = r
            /\ \A y \in Ids \ {x} : t.row[y] = s.row[y]
      BY MemoryCreates
    <2>5. mem' = [mem EXCEPT ![Proc(a)] = t]
      <3>1. mem' = [mem EXCEPT ![Proc(a)] = CreatedIn(mem[Proc(a)], id[a], on[a])]
        BY <1>14, Zenon DEF CreateInMemory, CreatedIn
      <3>. QED
        BY <2>2, <2>3, <2>4, <3>1
    <2>8. ActorType' /\ Alone(a) /\ Works(a)' /\ pc'[a] \in {"idle", "retry"} /\ copy'[a] = NoRow
      BY <1>1, <1>14, Leaving DEF CreateInMemory
    <2>9. UNCHANGED <<redis, runs, used, crashes, early, answered, slipped>> /\ Refused
          /\ shown' = shown \cup {id[a]} /\ cut' = cut \cup {id[a]}
      BY <1>14 DEF CreateInMemory
    <2>10. RowsFormed' /\ StoresOK
      <3>2. t.row[x].run # None /\ t.row[x].status # "none"
        BY <2>4, ApprovalAssumption
      <3>3. PICK p \in Processes : p = Proc(a)
        BY <2>1
      <3>4. redis' = redis
        BY <2>9
      <3>5. mem'[p] = t /\ \A q \in Processes \ {p} : mem'[q] = mem[q]
        BY <1>1, <2>5, <3>3 DEF TypeOK
      <3>6. mem' \in [Processes -> Store]
        BY <1>1, <2>5, <3>3 DEF TypeOK
      <3> HIDE DEF StoresOK
      <3>. QED
        BY <1>13, <2>2, <2>4, <2>8, <3>2, <3>3, <3>4, <3>5, <3>6
    <2>11. RoomKept'
      BY <1>6, <2>8, <2>9
    <2>12. RunsOK /\ RestOK
      BY <1>1, <2>1, <2>9, RefusedType DEF TypeOK, runs
    <2>. QED
      BY <1>1, <1>5, <2>8, <2>9, <2>10, <2>11, <2>12
  <1>15. ASSUME NEW c \in Clients, NEW x \in Ids, Decide(c, x) PROVE Goal
    <2>1. c \in Actors /\ on[c] = None /\ c \notin Slots
      BY <1>1, <1>15, ActorsApart DEF Decide, Working, Works, Asking, Written
    <2>2. /\ UNCHANGED <<redis, mem, runs, on, copy, used, shown, errors, crashes, ghosts>>
          /\ id' = [id EXCEPT ![c] = x] /\ pc' = [pc EXCEPT ![c] = "fetch"] /\ x \in shown
      BY <1>15 DEF Decide, Goto
    <2>3. x \in 0..MaxIds
      BY ApprovalAssumption DEF Ids
    <2>4. ActorType' /\ Alone(c)
      BY <1>1, <2>2, <2>3 DEF TypeOK, ActorType, Pcs, Alone
    <2>5. pc'[c] = "fetch" /\ id'[c] = x /\ on'[c] = None /\ copy'[c] = copy[c]
      BY <1>1, <2>1, <2>2 DEF TypeOK
    <2>6. Works(c)'
      BY <1>15, <2>2, <2>5 DEF Works, Asking, Written, HasCopy
    <2>7. RowsFormed' /\ RoomKept'
      BY <1>6, <1>7, <2>1, <2>2, <2>4, <2>5
    <2>8. StoresOK /\ RunsOK /\ RestOK
      BY <1>1, <2>2 DEF TypeOK, runs, ghosts
    <2>. QED
      BY <1>1, <1>5, <2>1, <2>2, <2>4, <2>6, <2>7, <2>8
  <1>16. ASSUME NEW c \in Clients, FetchRow(c) PROVE Goal
    <2>1. c \in Actors /\ on[c] = None /\ id[c] \in shown /\ id[c] \in Ids /\ "api" \in Processes
      BY <1>1, <1>16, ActorsApart DEF FetchRow, Working, Works, Asking, Written, TypeOK, Ids, Processes
    <2>2. UNCHANGED <<redis, mem, runs, used, shown, crashes, ghosts>>
      BY <1>16 DEF FetchRow
    <2>3. errors' \in Nat /\ errors' + crashes' <= MaxFaults
      BY <1>1, <1>16, RefusedType DEF FetchRow, TypeOK
    <2>4. StoresOK /\ RunsOK /\ RestOK
      BY <1>1, <2>2, <2>3 DEF TypeOK, runs, ghosts
    <2>5. PICK row \in {RowSeen("api", id[c]), mem["api"].row[id[c]]} :
            \/ row = NoRow /\ Leave(c)
            \/ row # NoRow /\ copy' = [copy EXCEPT ![c] = row] /\ Goto(c, "write") /\ UNCHANGED <<on, id>>
      BY <1>16 DEF FetchRow
    <2>6. CASE Leave(c)
      <3>1. ActorType' /\ Alone(c) /\ Works(c)' /\ pc'[c] \in {"idle", "retry"} /\ copy'[c] = NoRow
        BY <1>1, <2>1, <2>6, Leaving
      <3>2. RoomKept' /\ RowsFormed'
        BY <1>6, <1>7, <2>1, <2>2, <3>1
      <3>. QED
        BY <1>1, <1>5, <2>1, <2>2, <2>4, <3>1, <3>2
    <2>7. CASE row # NoRow /\ copy' = [copy EXCEPT ![c] = row] /\ Goto(c, "write") /\ UNCHANGED <<on, id>>
      <3>1. redis.row[id[c]] \in Rows /\ mem["api"].row[id[c]] \in Rows
        BY <1>1, <2>1, StoreFields DEF TypeOK
      <3>2. row \in Rows /\ row.status # "none"
        <4>1. row \in {redis.row[id[c]], mem["api"].row[id[c]]}
          BY <2>5 DEF RowSeen
        <4>2. row \in Rows /\ (row.run = None <=> row.status = "none")
          BY <1>1, <2>1, <3>1, <4>1 DEF RowsFormed
        <4>3. row = [status |-> row.status, run |-> row.run]
          BY <4>2 DEF Rows
        <4>. QED
          BY <2>7, <4>2, <4>3 DEF NoRow
      <3>3. ActorType' /\ Alone(c)
        BY <1>1, <2>7, <3>2 DEF TypeOK, ActorType, Pcs, Alone, Goto
      <3>4. pc'[c] = "write" /\ id'[c] = id[c] /\ on'[c] = None /\ copy'[c] = row
        BY <1>1, <2>1, <2>7 DEF TypeOK, Goto
      <3>5. Works(c)'
        BY <1>16, <2>1, <2>2, <3>2, <3>4 DEF Works, Asking, Written, HasCopy
      <3>6. RoomKept' /\ RowsFormed'
        BY <1>6, <1>7, <2>1, <2>2, <3>3, <3>4
      <3>. QED
        BY <1>1, <1>5, <2>1, <2>2, <2>4, <3>3, <3>5, <3>6
    <2>. QED
      BY <2>5, <2>6, <2>7
  <1>17. ASSUME NEW c \in Clients, WriteDecision(c) \/ RewriteRunIndex(c) \/ ReleaseJob(c) PROVE Goal
    <2>1. /\ c \in Actors /\ c \notin Slots /\ on[c] = None /\ id[c] \in shown /\ id[c] \in Ids
          /\ copy[c].status # "none" /\ copy[c].run \in Runs
      <3>1. c \in Actors /\ c \notin Slots /\ pc[c] \in HasCopy
        BY <1>17, ActorsApart DEF WriteDecision, RewriteRunIndex, ReleaseJob, HasCopy
      <3>2. on[c] = None /\ id[c] \in shown /\ copy[c].status # "none"
        BY <1>1, <3>1 DEF Working, Works, HasCopy, Asking, Written
      <3>3. copy[c].run # None /\ copy[c] \in Rows
        BY <1>1, <3>1, <3>2 DEF RowsFormed, TypeOK
      <3>. QED
        BY <1>1, <3>1, <3>2, <3>3 DEF TypeOK, Ids, Rows
    <2>2. redis \in Store /\ redis.row \in [Ids -> Rows]
      BY <1>1, StoreFields DEF TypeOK
    <2>3. PICK x \in Ids, r \in Runs : x = id[c] /\ r = copy[c].run
      BY <2>1
    <2>4. /\ redis' \in Store
          /\ \/ redis'.row = redis.row
             \/ redis'.row = [redis.row EXCEPT ![x] = [status |-> "decided", run |-> r]]
      <3>1. CASE redis' = WithRow(redis, x, "decided", r)
        BY <2>2, <3>1, RowWritten
      <3>2. CASE redis' = WithIndex(redis, x, r)
        BY <2>2, <3>2, IndexWritten
      <3>3. CASE redis' = Released(redis, x, r)
        BY <2>2, <3>3, JobReleased
      <3>. QED
        BY <1>17, <2>3, <3>1, <3>2, <3>3 DEF WriteDecision, RewriteRunIndex, ReleaseJob
    <2>5. \A y \in Ids : redis'.row[y].run = None <=> redis'.row[y].status = "none"
      <3>1. r # None
        BY ApprovalAssumption
      <3>. QED
        BY <1>1, <2>2, <2>4, <3>1 DEF RowsFormed
    <2>6. /\ UNCHANGED <<mem, runs, used, shown, errors, crashes, cut, answered>>
          /\ early' \in {early, early \cup {x}}
      BY <1>17, <2>3 DEF WriteDecision, RewriteRunIndex, ReleaseJob, ghosts
    <2>7. slipped' \in [Jobs -> Nat]
      BY <1>1, <1>17 DEF WriteDecision, RewriteRunIndex, ReleaseJob, ghosts, TypeOK
    <2>8. StoresOK /\ RunsOK /\ RestOK
      BY <1>1, <2>1, <2>3, <2>4, <2>6, <2>7 DEF TypeOK, runs
    <2>9. /\ ActorType' /\ Alone(c) /\ Works(c)' /\ pc'[c] \notin {"find", "load"}
          /\ copy'[c] \in {copy[c], NoRow}
      <3>1. CASE Leave(c)
        BY <1>1, <2>1, <3>1, Leaving
      <3>2. CASE /\ UNCHANGED <<on, id, copy, shown>>
                 /\ \/ Goto(c, "repoint")
                    \/ Goto(c, "release") /\ copy[c].status = "pending"
        <4>1. pc' = [pc EXCEPT ![c] = pc'[c]] /\ pc'[c] \in {"repoint", "release"} /\ (pc'[c] = "release" => copy[c].status = "pending")
          BY <1>1, <2>1, <3>2 DEF Goto, TypeOK
        <4>2. ActorType' /\ Alone(c)
          BY <1>1, <3>2, <4>1 DEF TypeOK, ActorType, Pcs, Alone
        <4>3. Works(c)'
          BY <1>17, <2>1, <3>2, <4>1 DEF Works, Asking, Written, HasCopy
        <4>. QED
          BY <3>2, <4>1, <4>2, <4>3
      <3>. QED
        BY <1>17, <2>6, <3>1, <3>2 DEF WriteDecision, RewriteRunIndex, ReleaseJob, AfterIndex
    <2>10. RoomKept'
      BY <1>6, <2>1, <2>6, <2>9
    <2>11. RowsFormed'
      BY <1>1, <2>1, <2>5, <2>6, <2>9 DEF RowsFormed, Alone, NoRow
    <2>. QED
      BY <1>1, <1>5, <2>1, <2>6, <2>8, <2>9, <2>10, <2>11
  <1>18. ASSUME NEW c \in Clients, DecideInMemory(c) PROVE Goal
    <2>1. /\ c \in Actors /\ id[c] \in shown /\ id[c] \in Ids /\ copy[c].run \in Runs /\ "api" \in Processes
      <3>1. c \in Actors /\ pc[c] \in HasCopy
        BY <1>18, ActorsApart DEF DecideInMemory, HasCopy
      <3>2. id[c] \in shown /\ copy[c].status # "none"
        BY <1>1, <3>1 DEF Working, Works, HasCopy
      <3>3. copy[c].run # None /\ copy[c] \in Rows
        BY <1>1, <3>1, <3>2 DEF RowsFormed, TypeOK
      <3>. QED
        BY <1>1, <3>1, <3>2, <3>3 DEF TypeOK, Ids, Rows, Processes
    <2>2. PICK s \in Store : s = mem["api"]
      BY <1>1, <2>1 DEF TypeOK
    <2>3. PICK x \in Ids, r \in Runs, first \in BOOLEAN : x = id[c] /\ r = copy[c].run /\ first = (copy[c].status = "pending")
      BY <2>1
    <2>4. PICK t \in Store :
            /\ t = DecidedIn(s, x, r, first) /\ t.row[x].status = "decided" /\ t.row[x].run = r
            /\ \A y \in Ids \ {x} : t.row[y] = s.row[y]
      BY MemoryDecides
    <2>5. mem' = [mem EXCEPT !["api"] = t]
      <3>1. mem' = [mem EXCEPT !["api"] = DecidedIn(mem["api"], id[c], copy[c].run, copy[c].status = "pending")]
        BY <1>18, Zenon DEF DecideInMemory, DecidedIn
      <3>. QED
        BY <2>2, <2>3, <2>4, <3>1
    <2>6. ActorType' /\ Alone(c) /\ Works(c)' /\ pc'[c] \in {"idle", "retry"} /\ copy'[c] = NoRow
      BY <1>1, <1>18, <2>1, Leaving DEF DecideInMemory
    <2>7. UNCHANGED <<redis, runs, used, shown, crashes, early, answered, slipped>> /\ Refused /\ cut' = cut \cup {x}
      BY <1>18, <2>3 DEF DecideInMemory
    <2>8. RowsFormed' /\ StoresOK
      <3>1. t.row[x].run # None /\ t.row[x].status # "none"
        BY <2>4, ApprovalAssumption
      <3>2. PICK p \in Processes : p = "api"
        BY <2>1
      <3>3. mem'[p] = t /\ \A q \in Processes \ {p} : mem'[q] = mem[q]
        BY <1>1, <2>5, <3>2 DEF TypeOK
      <3>4. mem' \in [Processes -> Store]
        BY <1>1, <2>5, <3>2 DEF TypeOK
      <3>5. redis' = redis
        BY <2>7
      <3> HIDE DEF StoresOK
      <3>. QED
        BY <1>13, <2>1, <2>2, <2>4, <2>6, <3>1, <3>2, <3>3, <3>4, <3>5
    <2>9. RoomKept'
      BY <1>6, <2>1, <2>6, <2>7
    <2>10. RunsOK /\ RestOK
      BY <1>1, <2>1, <2>3, <2>7, RefusedType DEF TypeOK, runs
    <2>. QED
      BY <1>1, <1>5, <2>1, <2>6, <2>7, <2>8, <2>9, <2>10
  <1>19. ASSUME NEW a \in Actors, RoomForId, pc'[a] = "find", pc[a] # "find", Alone(a), UNCHANGED used PROVE RoomKept'
    <2>1. Seekers' = Seekers \cup {a}
      BY <1>19 DEF Seekers, Alone
    <2>. QED
      BY <1>1, <1>19, <2>1, SeekerEnters
  <1>20. ASSUME NEW c \in Clients, NEW r \in Runs, TriggerAsks(c, r) PROVE Goal
    <2>1. c \in Actors
      BY ActorsApart
    <2>2. /\ UNCHANGED <<redis, mem, attempt, looking, id, copy, used, shown, errors, crashes, ghosts>>
          /\ run' = [run EXCEPT ![r] = "ended"] /\ on' = [on EXCEPT ![c] = r] /\ pc' = [pc EXCEPT ![c] = "find"]
      BY <1>20 DEF TriggerAsks, Goto
    <2>3. ActorType' /\ Alone(c) /\ pc'[c] = "find" /\ on'[c] = r
      BY <1>1, <2>1, <2>2 DEF TypeOK, ActorType, Pcs, Alone
    <2>4. Works(c)'
      BY <2>3 DEF Works, Asking, Written, HasCopy
    <2>5. RoomKept'
      BY <1>19, <1>20, <2>1, <2>2, <2>3 DEF TriggerAsks
    <2>6. RowsFormed'
      BY <1>7, <2>1, <2>2, <2>3
    <2>7. StoresOK /\ RunsOK /\ RestOK
      BY <1>1, <2>2 DEF TypeOK, ghosts
    <2>. QED
      BY <1>1, <1>5, <2>1, <2>2, <2>3, <2>4, <2>5, <2>6, <2>7
  <1>21. ASSUME NEW w \in Slots, NEW r \in Runs, Start(w, r) PROVE Goal
    <2>1. w \in Actors
      BY ActorsApart
    <2>2. /\ UNCHANGED <<redis, mem, attempt, looking, id, copy, used, shown, errors, crashes, ghosts>>
          /\ run' = [run EXCEPT ![r] = "active"] /\ on' = [on EXCEPT ![w] = r] /\ pc' = [pc EXCEPT ![w] = "exec"]
      BY <1>21 DEF Start, Goto
    <2>3. ActorType' /\ Alone(w) /\ pc'[w] = "exec" /\ on'[w] = r
      BY <1>1, <2>1, <2>2 DEF TypeOK, ActorType, Pcs, Alone
    <2>4. Works(w)'
      BY <2>3 DEF Works, Asking, Written, HasCopy
    <2>5. RoomKept' /\ RowsFormed'
      BY <1>6, <1>7, <2>1, <2>2, <2>3
    <2>6. StoresOK /\ RunsOK /\ RestOK
      BY <1>1, <2>2 DEF TypeOK, ghosts
    <2>. QED
      BY <1>1, <1>5, <2>1, <2>2, <2>3, <2>4, <2>5, <2>6
  <1>22. ASSUME NEW w \in Slots, Succeed(w) \/ Retry(w) PROVE Goal
    <2>1. w \in Actors /\ on[w] \in Runs
      BY <1>1, <1>22, ActorsApart DEF Succeed, Retry, Working, Works
    <2>2. /\ UNCHANGED <<redis, mem, looking, id, copy, used, shown, errors, crashes, ghosts>>
          /\ on' = [on EXCEPT ![w] = None] /\ pc' = [pc EXCEPT ![w] = "idle"]
      BY <1>22 DEF Succeed, Retry, Goto
    <2>3. /\ run' \in [Runs -> {"new", "queued", "active", "delayed", "ended"}]
          /\ attempt' \in [Runs -> 0..MaxRetry]
      <3>1. MaxRetry \in Nat /\ attempt[on[w]] \in 0..MaxRetry
        BY <1>1, <2>1, ApprovalAssumption DEF TypeOK
      <3>2. CASE Succeed(w)
        <4>1. /\ \/ run' = [run EXCEPT ![on[w]] = "ended"]
                 \/ run' = [run EXCEPT ![on[w]] = "new"]
              /\ \/ attempt' = [attempt EXCEPT ![on[w]] = 0]
                 \/ attempt' = [attempt EXCEPT ![on[w]] = @]
          BY <3>2 DEF Succeed
        <4>. QED
          BY <1>1, <2>1, <3>1, <4>1 DEF TypeOK
      <3>3. CASE Retry(w)
        BY <1>1, <3>1, <3>3 DEF TypeOK, Retry
      <3>. QED
        BY <1>22, <3>2, <3>3
    <2>4. ActorType' /\ Alone(w) /\ pc'[w] = "idle" /\ on'[w] = None
      BY <1>1, <2>1, <2>2 DEF TypeOK, ActorType, Pcs, Alone
    <2>5. Works(w)'
      BY <2>4 DEF Works, Asking, Written, HasCopy
    <2>6. RoomKept' /\ RowsFormed'
      BY <1>6, <1>7, <2>1, <2>2, <2>4
    <2>7. StoresOK /\ RunsOK /\ RestOK
      BY <1>1, <2>2, <2>3 DEF TypeOK, ghosts
    <2>. QED
      BY <1>1, <1>5, <2>1, <2>2, <2>4, <2>5, <2>6, <2>7
  <1>23. ASSUME NEW w \in Slots, NEW asks \in BOOLEAN, Fail(w, asks) PROVE Goal
    <2>1. w \in Actors /\ on[w] \in Runs
      BY <1>1, <1>23, ActorsApart DEF Fail, Working, Works
    <2>2. /\ UNCHANGED <<redis, mem, attempt, looking, on, id, copy, used, shown, errors, crashes, ghosts>>
          /\ run' = [run EXCEPT ![on[w]] = "ended"] /\ pc' = [pc EXCEPT ![w] = IF asks THEN "find" ELSE "retry"]
      BY <1>23 DEF Fail, Goto
    <2>3. ActorType' /\ Alone(w) /\ pc'[w] = (IF asks THEN "find" ELSE "retry") /\ on'[w] = on[w]
      BY <1>1, <2>1, <2>2 DEF TypeOK, ActorType, Pcs, Alone
    <2>4. Works(w)'
      BY <2>1, <2>3 DEF Works, Asking, Written, HasCopy
    <2>5. RoomKept'
      <3>1. CASE asks
        BY <1>19, <1>23, <2>1, <2>2, <2>3, <3>1 DEF Fail
      <3>2. CASE ~asks
        BY <1>6, <2>1, <2>2, <2>3, <3>2
      <3>. QED
        BY <3>1, <3>2
    <2>6. RowsFormed'
      BY <1>7, <2>1, <2>2, <2>3
    <2>7. StoresOK /\ RunsOK /\ RestOK
      BY <1>1, <2>1, <2>2 DEF TypeOK, ghosts
    <2>. QED
      BY <1>1, <1>5, <2>1, <2>2, <2>3, <2>4, <2>5, <2>6, <2>7
  <1>24. ASSUME NEW p \in Processes, Crash(p) PROVE Goal
    <2> DEFINE Mine(a) == Proc(a) = p
    <2>1. \A a \in Actors : /\ pc'[a] = (IF Mine(a) THEN "idle" ELSE pc[a]) /\ on'[a] = (IF Mine(a) THEN None ELSE on[a])
                            /\ id'[a] = (IF Mine(a) THEN 0 ELSE id[a]) /\ copy'[a] = (IF Mine(a) THEN NoRow ELSE copy[a])
      BY <1>24 DEF Crash
    <2>2. UNCHANGED <<redis, runs, used, shown, errors, early, answered, slipped>>
          /\ mem' = [mem EXCEPT ![p] = Empty] /\ errors + crashes < MaxFaults /\ crashes' = crashes + 1
      BY <1>24 DEF Crash
    <2>3. ActorType'
      <3>1. /\ pc' = [a \in Actors |-> IF Mine(a) THEN "idle" ELSE pc[a]]
            /\ on' = [a \in Actors |-> IF Mine(a) THEN None ELSE on[a]]
            /\ id' = [a \in Actors |-> IF Mine(a) THEN 0 ELSE id[a]]
            /\ copy' = [a \in Actors |-> IF Mine(a) THEN NoRow ELSE copy[a]]
        BY <1>24 DEF Crash
      <3> HIDE DEF Mine
      <3>. QED
        BY <1>1, <3>1, EmptyStore, ApprovalAssumption DEF TypeOK, ActorType, Pcs
    <2> HIDE DEF Mine
    <2>4. Working'
      <3>1. ASSUME NEW a \in Actors PROVE Works(a)'
        <4>1. CASE Mine(a)
          BY <2>1, <4>1 DEF Works, Asking, Written, HasCopy
        <4>2. CASE ~Mine(a)
          BY <1>1, <2>1, <2>2, <4>2 DEF Working, Works
        <4>. QED
          BY <4>1, <4>2
      <3>. QED
        BY <3>1 DEF Working
    <2>5. StoresOK
      BY <1>1, <2>2, EmptyStore DEF TypeOK
    <2>6. RowsFormed'
      <3>1. \A q \in Processes, y \in Ids : mem'[q].row[y].run = None <=> mem'[q].row[y].status = "none"
        BY <1>1, <2>2, EmptyStore DEF RowsFormed, TypeOK, NoRow
      <3>2. \A a \in Actors : copy'[a].run = None <=> copy'[a].status = "none"
        BY <1>1, <2>1 DEF RowsFormed, NoRow
      <3>. QED
        BY <1>1, <2>2, <3>1, <3>2 DEF RowsFormed
    <2>7. RoomKept'
      <3>1. Seekers' \subseteq Seekers
        BY <2>1 DEF Seekers
      <3>. QED
        BY <1>1, <2>2, <3>1, NoNewSeeker
    <2>8. cut' \subseteq 1..used
      <3>1. cut' = cut \cup {id[a] : a \in {b \in {a \in Actors : Proc(a) = p} : Creating(b) \/ pc[b] \in HasCopy}}
        BY <1>24 DEF Crash, HasCopy
      <3>2. ASSUME NEW b \in Actors, Creating(b) \/ pc[b] \in HasCopy PROVE id[b] \in 1..used
        BY <1>1, <3>2 DEF Working, Works, Creating, Written, HasCopy, TypeOK
      <3>. QED
        BY <1>1, <3>1, <3>2 DEF TypeOK
    <2>9. errors' \in Nat /\ crashes' \in Nat /\ errors' + crashes' <= MaxFaults
      BY <1>1, <2>2, ApprovalAssumption DEF TypeOK
    <2>10. RunsOK /\ RestOK
      BY <1>1, <2>2, <2>8, <2>9 DEF TypeOK, runs
    <2>. QED
      BY <1>2, <2>3, <2>4, <2>5, <2>6, <2>7, <2>10
  <1>25. Goal
    BY NextCases, <1>4, <1>9, <1>10, <1>11, <1>12, <1>14, <1>15, <1>16, <1>17, <1>18, <1>20, <1>21, <1>22, <1>23, <1>24
  <1>. QED
    BY <1>25 DEF Goal

\* Every reachable state has its types, and every request under way has what
\* its next step needs.
THEOREM ApprovalTypes == Spec => []Base
  <1>1. Init => Base
    BY BaseInit
  <1>2. Base /\ [Next]_vars => Base'
    BY BaseStep
  <1>. QED
    BY <1>1, <1>2, PTL DEF Spec

(***************************************************************************)
(* How often the schedule starts a held job                                *)
(***************************************************************************)

\* Only two commands change what holds a job.
LEMMA PendingChanges ==
  ASSUME Base, [Next]_vars
  PROVE  \/ redis'.pending = redis.pending
         \/ \E a \in Actors : HoldJob(a) /\ on[a] \in Runs /\ redis'.pending = [redis.pending EXCEPT ![JobOf[on[a]]] = @ \cup {id[a]}]
         \/ \E c \in Clients : ReleaseJob(c)
  <1>1. TypeOK /\ Working /\ RowsFormed /\ redis \in Store
    BY DEF Base, TypeOK
  <1>2. ASSUME NEW a \in Actors, SetRow(a) \/ SetRunIndex(a) \/ PushOrder(a) \/ TrimOrder(a)
        PROVE  redis'.pending = redis.pending
    <2>1. PICK x \in Ids, r \in Runs : x = id[a] /\ r = on[a]
      BY <1>1, <1>2 DEF SetRow, SetRunIndex, PushOrder, TrimOrder, Working, Works, Asking, Written, TypeOK, Ids
    <2>2. redis' \in {WithRow(redis, x, "pending", r), WithIndex(redis, x, r), Pushed(redis, x), Trimmed(redis)}
      BY <1>2, <2>1 DEF SetRow, SetRunIndex, PushOrder, TrimOrder
    <2>3. WithRow(redis, x, "pending", r).pending = redis.pending
      BY <1>1, RowWritten
    <2>4. WithIndex(redis, x, r).pending = redis.pending
      BY <1>1, IndexWritten
    <2>5. Pushed(redis, x).pending = redis.pending /\ Trimmed(redis).pending = redis.pending
      BY <1>1, OrderPushed, OrderTrimmed
    <2>. QED
      BY <2>2, <2>3, <2>4, <2>5
  <1>3. ASSUME NEW a \in Actors, HoldJob(a)
        PROVE  on[a] \in Runs /\ redis'.pending = [redis.pending EXCEPT ![JobOf[on[a]]] = @ \cup {id[a]}]
    <2>1. PICK x \in Ids, r \in Runs : x = id[a] /\ r = on[a]
      BY <1>1, <1>3 DEF HoldJob, Working, Works, Asking, Written, TypeOK, Ids
    <2>2. redis' = Held(redis, x, r)
      BY <1>3, <2>1 DEF HoldJob
    <2>. QED
      BY <1>1, <2>1, <2>2, JobHeld
  <1>4. ASSUME NEW c \in Clients, WriteDecision(c) \/ RewriteRunIndex(c)
        PROVE  redis'.pending = redis.pending
    <2>1. PICK x \in Ids, r \in Runs : x = id[c] /\ r = copy[c].run
      <3>1. c \in Actors /\ pc[c] \in HasCopy
        BY <1>4, ActorsApart DEF WriteDecision, RewriteRunIndex, HasCopy
      <3>. QED
        BY <1>1, <3>1 DEF Working, Works, RowsFormed, TypeOK, HasCopy, Ids, Rows
    <2>2. redis' \in {WithRow(redis, x, "decided", r), WithIndex(redis, x, r)}
      BY <1>4, <2>1 DEF WriteDecision, RewriteRunIndex
    <2>3. WithRow(redis, x, "decided", r).pending = redis.pending
      BY <1>1, RowWritten
    <2>4. WithIndex(redis, x, r).pending = redis.pending
      BY <1>1, IndexWritten
    <2>. QED
      BY <2>2, <2>3, <2>4
  <1>5. ASSUME NEW a \in Actors, FindByRun(a) \/ LoadExisting(a) \/ CreateInMemory(a) PROVE redis' = redis
    BY <1>5 DEF FindByRun, LoadExisting, CreateInMemory
  <1>6. ASSUME NEW c \in Clients, \/ \E x \in Ids : Decide(c, x)
                                  \/ FetchRow(c) \/ DecideInMemory(c)
                                  \/ \E r \in Runs : TriggerAsks(c, r)
        PROVE  redis' = redis
    BY <1>6 DEF Decide, FetchRow, DecideInMemory, TriggerAsks
  <1>7. ASSUME \/ \E j \in Jobs : LookAtApprovals(j)
               \/ Skip
               \/ \E r \in Runs : Dispatch(r) \/ QueueRetry(r) \/ ManualRun(r)
        PROVE  redis' = redis
    BY <1>7 DEF LookAtApprovals, Skip, Dispatch, QueueRetry, ManualRun
  <1>8. ASSUME NEW w \in Slots, \/ \E r \in Runs : Start(w, r)
                                \/ Succeed(w) \/ Retry(w)
                                \/ \E asks \in BOOLEAN : Fail(w, asks)
        PROVE  redis' = redis
    BY <1>8 DEF Start, Succeed, Retry, Fail
  <1>9. ASSUME NEW p \in Processes, Crash(p) PROVE redis' = redis
    BY <1>9 DEF Crash
  <1>10. ASSUME UNCHANGED vars PROVE redis' = redis
    BY <1>10 DEF vars
  <1>11. \/ redis' = redis
         \/ \E a \in Actors : SetRow(a) \/ SetRunIndex(a) \/ PushOrder(a) \/ TrimOrder(a) \/ HoldJob(a)
         \/ \E c \in Clients : WriteDecision(c) \/ RewriteRunIndex(c) \/ ReleaseJob(c)
    BY NextCases, <1>5, <1>6, <1>7, <1>8, <1>9, <1>10
  <1>. QED
    BY <1>2, <1>3, <1>4, <1>11

\* Errors are never forgotten.
LEMMA ErrorsGrow ==
  ASSUME Base, [Next]_vars
  PROVE  errors \in Nat /\ errors' \in Nat /\ errors <= errors'
  <1>1. errors \in Nat
    BY DEF Base, TypeOK
  <1>2. errors' \in {errors, errors + 1}
    BY NextCases DEF FindByRun, LoadExisting, SetRow, SetRunIndex, PushOrder, TrimOrder, HoldJob, CreateInMemory, Decide,
      FetchRow, WriteDecision, RewriteRunIndex, ReleaseJob, DecideInMemory, TriggerAsks, LookAtApprovals, Skip,
      Dispatch, QueueRetry, ManualRun, Start, Succeed, Retry, Fail, Crash, vars, Refused
  <1>. QED
    BY <1>1, <1>2

\* What the scheduler has in hand, and what it has started, changes in its own
\* steps and when a job is released.
LEMMA SlipsChange ==
  ASSUME [Next]_vars
  PROVE  \/ UNCHANGED <<looking, slipped>>
         \/ \E j \in Jobs : LookAtApprovals(j)
         \/ Skip
         \/ \E r \in Runs : Dispatch(r)
         \/ \E c \in Clients : ReleaseJob(c)
  BY NextCases DEF FindByRun, LoadExisting, SetRow, SetRunIndex, PushOrder, TrimOrder, HoldJob, CreateInMemory, Decide,
      FetchRow, WriteDecision, RewriteRunIndex, DecideInMemory, TriggerAsks,
      QueueRetry, ManualRun, Start, Succeed, Retry, Fail, Crash, vars, runs, ghosts

LEMMA SlipsStep == ASSUME Base, SlipsCounted, [Next]_vars PROVE SlipsCounted'
  <1>1. /\ slipped \in [Jobs -> Nat] /\ looking \in Jobs \cup {None} /\ None \notin Jobs
        /\ redis.pending \in [Jobs -> SUBSET Ids] /\ JobOf \in [Runs -> Jobs]
    BY StoreFields, ApprovalAssumption DEF Base, TypeOK
  <1>2. errors \in Nat /\ errors' \in Nat /\ errors <= errors'
    BY ErrorsGrow
  <1>3. ASSUME UNCHANGED <<looking, slipped>>, redis'.pending = redis.pending PROVE SlipsCounted'
    BY <1>1, <1>2, <1>3 DEF SlipsCounted
  <1>4. ASSUME UNCHANGED <<looking, slipped>>, NEW a \in Actors, on[a] \in Runs,
               redis'.pending = [redis.pending EXCEPT ![JobOf[on[a]]] = @ \cup {id[a]}]
        PROVE  SlipsCounted'
    <2>1. ASSUME NEW j \in Jobs, redis.pending[j] # {} \/ redis'.pending[j] = redis.pending[j]
          PROVE  redis'.pending[j] = {} <=> redis.pending[j] = {}
      BY <1>1, <1>4, <2>1
    <2>2. \A j \in Jobs : redis.pending[j] = {} => slipped[j] = 0
      BY DEF SlipsCounted
    <2>. QED
      BY <1>1, <1>2, <1>4, <2>1, <2>2 DEF SlipsCounted
  <1>5. ASSUME NEW c \in Clients, ReleaseJob(c) PROVE SlipsCounted'
    <2>1. looking' = looking /\ errors' = errors /\ slipped' = [j \in Jobs |-> IF redis'.pending[j] = {} THEN 0 ELSE slipped[j]]
      BY <1>5 DEF ReleaseJob, runs
    <2>2. ASSUME NEW j \in Jobs PROVE redis'.pending[j] \subseteq redis.pending[j]
      <3>1. PICK x \in Ids, r \in Runs : x = id[c] /\ r = copy[c].run
        <4>1. c \in Actors /\ pc[c] \in HasCopy
          BY <1>5, ActorsApart DEF ReleaseJob, HasCopy
        <4>. QED
          BY <4>1 DEF Base, Working, Works, RowsFormed, TypeOK, HasCopy, Ids, Rows
      <3>2. redis' = Released(redis, x, r)
        BY <1>5, <3>1 DEF ReleaseJob
      <3>3. redis'.pending = [redis.pending EXCEPT ![JobOf[r]] = @ \ {x}]
        BY <3>2, JobReleased, ZenonT(30) DEF Base, TypeOK
      <3>. QED
        BY <1>1, <3>3
    <2>3. ASSUME NEW j \in Jobs, redis'.pending[j] # {} PROVE slipped'[j] = slipped[j] /\ redis.pending[j] # {}
      BY <2>1, <2>2, <2>3
    <2>4. ASSUME NEW j \in Jobs, redis'.pending[j] = {} PROVE slipped'[j] = 0
      BY <2>1, <2>4
    <2>. QED
      BY <1>1, <1>2, <2>1, <2>3, <2>4 DEF SlipsCounted
  <1>6. ASSUME NEW j \in Jobs, LookAtApprovals(j) PROVE SlipsCounted'
    <2>1. /\ looking = None /\ looking' = j /\ slipped' = slipped /\ redis' = redis
          /\ redis.pending[j] = {} \/ errors' = errors + 1
      BY <1>6 DEF LookAtApprovals, HasPending, ghosts, Refused
    <2>. QED
      BY <1>1, <1>2, <2>1 DEF SlipsCounted
  <1>7. ASSUME NEW r \in Runs, Dispatch(r) PROVE SlipsCounted'
    <2>1. /\ looking = JobOf[r] /\ looking' = None /\ redis' = redis /\ errors' = errors
          /\ slipped' = IF redis.pending[looking] # {} THEN [slipped EXCEPT ![looking] = @ + 1] ELSE slipped
      BY <1>7 DEF Dispatch
    <2>2. PICK j \in Jobs : j = looking
      BY <1>1, <2>1
    <2>3. CASE redis.pending[j] = {}
      BY <1>1, <1>2, <2>1, <2>2, <2>3 DEF SlipsCounted
    <2>4. CASE redis.pending[j] # {}
      BY <1>1, <1>2, <2>1, <2>2, <2>4 DEF SlipsCounted
    <2>. QED
      BY <2>3, <2>4
  <1>8. ASSUME Skip PROVE SlipsCounted'
    <2>1. looking' = None /\ slipped' = slipped /\ redis' = redis
      BY <1>8 DEF Skip, ghosts
    <2>. QED
      BY <1>1, <1>2, <2>1 DEF SlipsCounted
  <1>9. ASSUME NEW a \in Actors, HoldJob(a) PROVE UNCHANGED <<looking, slipped>>
    BY <1>9 DEF HoldJob, runs
  <1>. QED
    BY PendingChanges, SlipsChange, <1>3, <1>4, <1>5, <1>6, <1>7, <1>8, <1>9 DEF LookAtApprovals, Dispatch, Skip

\* A held job is started at most once more, by a guard that had looked before,
\* and once per look that Redis refused.
THEOREM HeldJobWaits == Spec => []HoldStopsSchedule
  <1>1. Init => SlipsCounted
    BY DEF Init, SlipsCounted, Empty
  <1>2. Base /\ SlipsCounted /\ [Next]_vars => SlipsCounted'
    BY SlipsStep
  <1>3. Base /\ SlipsCounted => HoldStopsSchedule
    <2> SUFFICES ASSUME Base, SlipsCounted, NEW j \in Jobs PROVE slipped[j] <= 1 + errors
      BY DEF HoldStopsSchedule
    <2>1. slipped[j] \in Nat /\ errors \in Nat
      BY DEF Base, TypeOK
    <2>. QED
      BY <2>1 DEF SlipsCounted
  <1>. QED
    BY <1>1, <1>2, <1>3, ApprovalTypes, PTL DEF Spec

(***************************************************************************)
(* What holds a job                                                        *)
(***************************************************************************)
InOp == {"set"} \cup Written \cup HasCopy
SameActor(b) == pc'[b] = pc[b] /\ on'[b] = on[b] /\ id'[b] = id[b] /\ copy'[b] = copy[b]

LEMMA CreatingIsIn == \A a : Creating(a) <=> pc[a] \in {"set"} \cup Written
  BY DEF Creating, Written

\* Claims only pass from one holder to another; the only new one is for a new id.
LEMMA ClaimsKept ==
  ASSUME Holding, used \in Nat, used' \in Nat, used <= used', NEW q,
         \A x \in Ids, r \in Runs : Claim(x, r)' => Claim(x, r) \/ (x > used /\ x <= used' /\ r = q)
  PROVE  OneOwner' /\ NotGivenOut'
  <1>1. \A x \in Ids : x \in Nat
    BY DEF Ids
  <1>2. NotGivenOut'
    <2>1. ASSUME NEW x \in Ids, NEW r \in Runs, x > used', Claim(x, r)' PROVE FALSE
      BY <1>1, <2>1 DEF Holding, NotGivenOut
    <2>. QED
      BY <2>1 DEF NotGivenOut
  <1>3. OneOwner'
    <2>1. ASSUME NEW x \in Ids, NEW r \in Runs, NEW s \in Runs, Claim(x, r)', Claim(x, s)' PROVE r = s
      <3>1. CASE x > used
        BY <1>1, <2>1, <3>1 DEF Holding, NotGivenOut
      <3>2. CASE ~(x > used)
        BY <1>1, <2>1, <3>2 DEF Holding, OneOwner
      <3>. QED
        BY <3>1, <3>2
    <2>. QED
      BY <2>1 DEF OneOwner
  <1>. QED
    BY <1>2, <1>3

\* Steps outside the operations, and the end of one that has written nothing.
LEMMA QuietHolds ==
  ASSUME Holding, used \in Nat, UNCHANGED <<redis, mem, used, shown, cut, early>>,
         \A b \in Actors : \/ SameActor(b)
                           \/ /\ pc[b] \notin InOp /\ pc'[b] \notin InOp
                              /\ pc'[b] = "load" => Claim(id'[b], on'[b])
  PROVE  Holding'
  <1>1. \A b \in Actors : pc'[b] \in InOp => SameActor(b)
    OBVIOUS
  <1>2. \A b \in Actors : pc[b] \in InOp => SameActor(b)
    OBVIOUS
  <1>3. OneOwner' /\ NotGivenOut'
    <2>1. ASSUME NEW x \in Ids, NEW r \in Runs, Claim(x, r)' PROVE Claim(x, r)
      <3>1. CASE redis'.row[x].run = r \/ redis'.index[r] = x \/ \E p \in Processes : mem'[p].row[x].run = r \/ mem'[p].index[r] = x
        BY <3>1 DEF Claim
      <3>2. CASE \E a \in Actors : pc'[a] \in {"load", "set"} \cup Written /\ id'[a] = x /\ on'[a] = r
        <4>1. PICK a \in Actors : pc'[a] \in {"load", "set"} \cup Written /\ id'[a] = x /\ on'[a] = r
          BY <3>2
        <4>2. CASE SameActor(a)
          BY <4>1, <4>2 DEF Claim, SameActor
        <4>3. CASE pc'[a] = "load" /\ Claim(id'[a], on'[a])
          BY <4>1, <4>3
        <4>. QED
          BY <4>1, <4>2, <4>3 DEF InOp
      <3>3. CASE \E c \in Actors : pc'[c] \in HasCopy /\ id'[c] = x /\ copy'[c].run = r
        BY <1>1, <3>3 DEF Claim, SameActor, InOp
      <3>. QED
        BY <2>1, <3>1, <3>2, <3>3 DEF Claim
    <2>. QED
      BY <2>1, ClaimsKept
  <1>4. \A x : (BeingCreated(x)' <=> BeingCreated(x)) /\ (BeingReleased(x)' <=> BeingReleased(x))
    BY <1>1, <1>2 DEF BeingCreated, BeingReleased, Creating, InOp, Written, HasCopy, SameActor
  <1>5. OneCreator'
    BY <1>1 DEF Holding, OneCreator, Creating, SameActor, InOp, Written
  <1>6. Fresh' /\ WrittenRow' /\ MemoryIsCut'
    BY <1>1 DEF Holding, Fresh, WrittenRow, MemoryIsCut, SameActor, InOp
  <1>7. CopyDecided' /\ DecisionWritten' /\ PendingRow'
    BY <1>1 DEF Holding, CopyDecided, DecisionWritten, PendingRow, SameActor, InOp, HasCopy
  <1>8. DecisionReleases' /\ PendingHolds'
    BY <1>4 DEF Holding, DecisionReleases, PendingHolds
  <1>. QED
    BY <1>3, <1>5, <1>6, <1>7, <1>8 DEF Holding

\* Types of what the steps below read.
LEMMA HasTypes ==
  ASSUME Base
  PROVE  /\ redis.row \in [Ids -> Rows] /\ redis.index \in [Runs -> 0..MaxIds] /\ redis.pending \in [Jobs -> SUBSET Ids]
         /\ \A p \in Processes : mem[p].row \in [Ids -> Rows] /\ mem[p].index \in [Runs -> 0..MaxIds]
         /\ pc \in [Actors -> Pcs] /\ on \in [Actors -> Runs \cup {None}]
         /\ id \in [Actors -> 0..MaxIds] /\ copy \in [Actors -> Rows]
         /\ used \in Nat /\ used <= MaxIds /\ shown \subseteq 1..used
         /\ 1..used \subseteq Ids /\ \A x \in Ids : x \in Nat /\ x # 0
         /\ \A p \in Processes : mem[p] \in Store
         /\ redis \in Store /\ mem \in [Processes -> Store]
  BY StoreFields, ApprovalAssumption DEF Base, TypeOK, Pcs, Ids

\* What who creates a request, and who decides one, has in hand.
LEMMA CreatorHas ==
  ASSUME Base, NEW a \in Actors, Creating(a)
  PROVE  on[a] \in Runs /\ id[a] \in Ids /\ id[a] \in 1..used /\ pc[a] \in InOp
  BY HasTypes DEF Base, Working, Works, Creating, Asking, Written, InOp

LEMMA DeciderHas ==
  ASSUME Base, NEW c \in Actors, pc[c] \in HasCopy
  PROVE  /\ copy[c].run \in Runs /\ copy[c].status \in {"pending", "decided"}
         /\ id[c] \in Ids /\ id[c] \in shown /\ c \in Clients /\ c \notin Slots
  BY HasTypes, ActorsApart DEF Base, Working, Works, RowsFormed, HasCopy, Rows

\* A new id for a request that has none.
LEMMA NewIdHolds ==
  ASSUME Base, Holding, NEW a \in Actors, pc[a] \in {"find", "load"}, NewId(a), UNCHANGED <<redis, mem, on, copy, shown, cut, early>>
  PROVE  Holding'
  <1>1. /\ \A b \in Actors \ {a} : SameActor(b)
        /\ pc'[a] = "set" /\ id'[a] = used + 1 /\ on'[a] = on[a] /\ copy'[a] = copy[a] /\ used' = used + 1
    BY HasTypes DEF NewId, Goto, SameActor
  <1>2. used \in Nat /\ \A x \in Ids : x \in Nat
    BY HasTypes
  <1>3. OneOwner' /\ NotGivenOut'
    <2>1. ASSUME NEW x \in Ids, NEW r \in Runs, Claim(x, r)' PROVE Claim(x, r) \/ (x = used + 1 /\ r = on[a])
      <3>1. CASE redis'.row[x].run = r \/ redis'.index[r] = x \/ \E p \in Processes : mem'[p].row[x].run = r \/ mem'[p].index[r] = x
        BY <3>1 DEF Claim
      <3>2. CASE \E b \in Actors : pc'[b] \in {"load", "set"} \cup Written /\ id'[b] = x /\ on'[b] = r
        BY <1>1, <3>2 DEF Claim, SameActor
      <3>3. CASE \E c \in Actors : pc'[c] \in HasCopy /\ id'[c] = x /\ copy'[c].run = r
        BY <1>1, <3>3 DEF Claim, SameActor, HasCopy
      <3>. QED
        BY <2>1, <3>1, <3>2, <3>3 DEF Claim
    <2>2. \A x \in Ids, r \in Runs : Claim(x, r)' => Claim(x, r) \/ (x > used /\ x <= used' /\ r = on[a])
      BY <1>1, <1>2, <2>1
    <2>. QED
      BY <1>1, <1>2, <2>2, ClaimsKept
  <1>4. \A b \in Actors : Creating(b)' <=> b = a \/ Creating(b)
    BY <1>1 DEF Creating, SameActor
  <1>5. \A b \in Actors \ {a} : Creating(b) => id[b] # used + 1 /\ id'[b] = id[b]
    BY <1>1, <1>2, CreatorHas DEF SameActor
  <1>6. OneCreator'
    BY <1>1, <1>4, <1>5 DEF Holding, OneCreator
  <1>7. used + 1 \notin shown /\ (used + 1 \in Ids => redis.row[used + 1].status = "none")
    <2>1. used + 1 \notin shown
      BY HasTypes
    <2>2. ASSUME used + 1 \in Ids PROVE redis.row[used + 1].status = "none"
      <3>1. used + 1 > used
        BY <1>2
      <3>2. redis.row[used + 1].run \notin Runs
        BY <2>2, <3>1 DEF Holding, NotGivenOut, Claim
      <3>. QED
        BY <2>2, <3>2, HasTypes DEF Base, RowsFormed, Rows
    <2>. QED
      BY <2>1, <2>2
  <1>8. used + 1 \in Ids
    <2>1. a \in Seekers
      BY DEF Seekers
    <2>2. Cardinality(Seekers) > 0
      BY <2>1, SeekersFinite, FS_EmptySet
    <2>. QED
      BY <1>2, <2>2, SeekersFinite, ApprovalAssumption DEF Base, RoomKept, Ids
  <1>9. Fresh' /\ WrittenRow' /\ MemoryIsCut'
    BY <1>1, <1>7, <1>8 DEF Holding, Fresh, WrittenRow, MemoryIsCut, SameActor, Written
  <1>10. CopyDecided' /\ DecisionWritten' /\ PendingRow'
    BY <1>1 DEF Holding, CopyDecided, DecisionWritten, PendingRow, SameActor, HasCopy
  <1>11. \A x \in Ids : (BeingCreated(x)' <=> BeingCreated(x) \/ x = used + 1) /\ (BeingReleased(x)' <=> BeingReleased(x))
    BY <1>1, <1>4, <1>5 DEF BeingCreated, BeingReleased, Creating, SameActor
  <1>12. DecisionReleases' /\ PendingHolds'
    BY <1>7, <1>8, <1>11 DEF Holding, DecisionReleases, PendingHolds
  <1>. QED
    BY <1>3, <1>6, <1>9, <1>10, <1>12 DEF Holding

\* The first command of a creation: until now nobody knows the request.
LEMMA SetRowHolds ==
  ASSUME Base, Holding, NEW a \in Actors, SetRow(a)
  PROVE  Holding'
  <1>1. Creating(a) /\ pc[a] = "set"
    BY DEF SetRow, Creating
  <1>2. PICK x \in Ids, r \in Runs : x = id[a] /\ r = on[a]
    BY <1>1, CreatorHas
  <1>3. /\ \A y \in Ids \ {x} : redis'.row[y] = redis.row[y]
        /\ redis'.row[x].run = r /\ redis'.row[x].status = "pending"
        /\ redis'.index = redis.index /\ redis'.pending = redis.pending
    <2>1. redis' = WithRow(redis, x, "pending", r) /\ redis \in Store
      BY <1>2, HasTypes DEF SetRow
    <2>2. /\ redis'.row = [redis.row EXCEPT ![x] = [status |-> "pending", run |-> r]]
          /\ redis'.index = redis.index /\ redis'.pending = redis.pending
      BY <2>1, RowWritten
    <2>. QED
      BY <2>2, HasTypes
  <1>4. UNCHANGED <<mem, on, id, copy, used, shown, cut, early>>
    BY DEF SetRow, ghosts
  <1>5. pc'[a] = "point" /\ \A b \in Actors \ {a} : pc'[b] = pc[b]
    BY HasTypes DEF SetRow, Goto
  <1>6. used \in Nat /\ used' \in Nat /\ used <= used'
    BY <1>4, HasTypes
  <1>7. OneOwner' /\ NotGivenOut'
    <2>1. ASSUME NEW y \in Ids, NEW q \in Runs, Claim(y, q)' PROVE Claim(y, q)
      <3>1. CASE redis'.row[y].run = q
        BY <1>1, <1>2, <1>3, <3>1 DEF Claim
      <3>2. CASE redis'.index[q] = y \/ \E p \in Processes : mem'[p].row[y].run = q \/ mem'[p].index[q] = y
        BY <1>3, <1>4, <3>2 DEF Claim
      <3>3. CASE \E b \in Actors : pc'[b] \in {"load", "set"} \cup Written /\ id'[b] = y /\ on'[b] = q
        BY <1>1, <1>4, <1>5, <3>3 DEF Claim
      <3>4. CASE \E c \in Actors : pc'[c] \in HasCopy /\ id'[c] = y /\ copy'[c].run = q
        BY <1>4, <1>5, <3>4 DEF Claim, HasCopy
      <3>. QED
        BY <2>1, <3>1, <3>2, <3>3, <3>4 DEF Claim
    <2>. QED
      BY <1>6, <2>1, ClaimsKept
  <1>8. \A b \in Actors : (Creating(b)' <=> Creating(b)) /\ (Creating(b) /\ b # a => id[b] # x)
    BY <1>1, <1>2, <1>5 DEF Creating, Holding, OneCreator
  <1>9. OneCreator'
    BY <1>4, <1>8 DEF Holding, OneCreator
  <1>10. x \notin shown /\ redis.row[x].status = "none" /\ \A j \in Jobs : x \notin redis.pending[j]
    <2>1. x \notin shown /\ redis.row[x].status = "none"
      BY <1>1, <1>2 DEF Holding, Fresh
    <2>2. redis.row[x].run \notin Runs
      BY <2>1, ApprovalAssumption DEF Base, RowsFormed
    <2>. QED
      BY <2>1, <2>2 DEF Holding, PendingRow
  <1>11. Fresh' /\ WrittenRow'
    <2>1. \A b \in Actors : Creating(b) => id[b] \in Ids
      BY CreatorHas
    <2>2. ASSUME NEW b \in Actors, pc'[b] = "set" PROVE redis'.row[id[b]].status = "none" /\ id[b] \notin shown
      BY <1>2, <1>3, <1>5, <1>8, <2>1, <2>2 DEF Holding, Fresh, Creating
    <2>3. ASSUME NEW b \in Actors, pc'[b] \in Written PROVE redis'.row[id[b]].run = on[b]
      <3>1. CASE b = a
        BY <1>2, <1>3, <3>1
      <3>2. CASE b # a
        BY <1>2, <1>3, <1>5, <1>8, <2>1, <2>3, <3>2 DEF Holding, WrittenRow, Creating, Written
      <3>. QED
        BY <3>1, <3>2
    <2>. QED
      BY <1>4, <2>2, <2>3 DEF Fresh, WrittenRow
  <1>12. MemoryIsCut'
    BY <1>4 DEF Holding, MemoryIsCut
  <1>13. CopyDecided' /\ DecisionWritten'
    <2>1. ASSUME NEW c \in Actors, pc'[c] \in HasCopy PROVE pc[c] \in HasCopy /\ pc'[c] = pc[c] /\ redis'.row[id[c]] = redis.row[id[c]]
      BY <1>2, <1>3, <1>5, <1>10, <2>1, DeciderHas DEF HasCopy
    <2>. QED
      BY <1>4, <2>1 DEF Holding, CopyDecided, DecisionWritten, HasCopy
  <1>14. PendingRow'
    <2>1. \A j \in Jobs : \A y \in redis.pending[j] : y \in Ids
      BY HasTypes
    <2>. QED
      BY <1>3, <1>10, <2>1 DEF Holding, PendingRow
  <1>15. \A y : (BeingCreated(y)' <=> BeingCreated(y)) /\ (BeingReleased(y)' <=> BeingReleased(y))
    BY <1>1, <1>4, <1>5, <1>8 DEF BeingCreated, BeingReleased
  <1>16. DecisionReleases' /\ PendingHolds'
    <2>1. BeingCreated(x)
      BY <1>1, <1>2 DEF BeingCreated
    <2>. QED
      BY <1>3, <1>4, <1>15, <2>1 DEF Holding, DecisionReleases, PendingHolds
  <1>. QED
    BY <1>7, <1>9, <1>11, <1>12, <1>13, <1>14, <1>16 DEF Holding

\* The commands between the row and the pending set.
LEMMA ListingHolds ==
  ASSUME Base, Holding, NEW a \in Actors, SetRunIndex(a) \/ PushOrder(a) \/ TrimOrder(a)
  PROVE  Holding'
  <1>1. Creating(a) /\ pc[a] \in Written
    BY DEF SetRunIndex, PushOrder, TrimOrder, Creating, Written
  <1>2. PICK x \in Ids, r \in Runs : x = id[a] /\ r = on[a]
    BY <1>1, CreatorHas
  <1>3. /\ redis'.row = redis.row /\ redis'.pending = redis.pending
        /\ \A q \in Runs : redis'.index[q] = redis.index[q] \/ (q = r /\ redis'.index[q] = x)
    <2>1. redis \in Store
      BY HasTypes
    <2>2. CASE redis' = WithIndex(redis, x, r)
      <3>1. redis'.row = redis.row /\ redis'.pending = redis.pending /\ redis'.index = [redis.index EXCEPT ![r] = x]
        BY <2>1, <2>2, IndexWritten
      <3>. QED
        BY <3>1, HasTypes
    <2>3. CASE redis' = Pushed(redis, x)
      BY <2>1, <2>3, OrderPushed
    <2>4. CASE redis' = Trimmed(redis)
      BY <2>1, <2>4, OrderTrimmed
    <2>. QED
      BY <1>2, <2>2, <2>3, <2>4 DEF SetRunIndex, PushOrder, TrimOrder
  <1>4. UNCHANGED <<mem, on, id, copy, used, cut, early>> /\ shown' \in {shown, shown \cup {x}}
    BY <1>2 DEF SetRunIndex, PushOrder, TrimOrder, ghosts
  <1>5. pc'[a] \in Written /\ \A b \in Actors \ {a} : pc'[b] = pc[b]
    BY HasTypes DEF SetRunIndex, PushOrder, TrimOrder, Goto, Written
  <1>6. used \in Nat /\ used' \in Nat /\ used <= used'
    BY <1>4, HasTypes
  <1>7. OneOwner' /\ NotGivenOut'
    <2>1. ASSUME NEW y \in Ids, NEW q \in Runs, Claim(y, q)' PROVE Claim(y, q)
      <3>1. CASE redis'.index[q] = y
        BY <1>1, <1>2, <1>3, <3>1 DEF Claim
      <3>2. CASE redis'.row[y].run = q \/ \E p \in Processes : mem'[p].row[y].run = q \/ mem'[p].index[q] = y
        BY <1>3, <1>4, <3>2 DEF Claim
      <3>3. CASE \E b \in Actors : pc'[b] \in {"load", "set"} \cup Written /\ id'[b] = y /\ on'[b] = q
        BY <1>1, <1>4, <1>5, <3>3 DEF Claim
      <3>4. CASE \E c \in Actors : pc'[c] \in HasCopy /\ id'[c] = y /\ copy'[c].run = q
        BY <1>4, <1>5, <3>4 DEF Claim, HasCopy, Written
      <3>. QED
        BY <2>1, <3>1, <3>2, <3>3, <3>4 DEF Claim
    <2>. QED
      BY <1>6, <2>1, ClaimsKept
  <1>8. \A b \in Actors : (Creating(b)' <=> Creating(b)) /\ (Creating(b) /\ b # a => id[b] # x)
    BY <1>1, <1>2, <1>5 DEF Creating, Holding, OneCreator, Written
  <1>9. OneCreator'
    BY <1>4, <1>8 DEF Holding, OneCreator
  <1>10. Fresh'
    <2>1. ASSUME NEW b \in Actors, pc'[b] = "set" PROVE pc[b] = "set" /\ id[b] # x
      BY <1>5, <1>8, <2>1 DEF Creating, Written
    <2>. QED
      BY <1>3, <1>4, <2>1 DEF Holding, Fresh
  <1>11. WrittenRow' /\ MemoryIsCut'
    BY <1>1, <1>3, <1>4, <1>5 DEF Holding, WrittenRow, MemoryIsCut
  <1>12. CopyDecided' /\ DecisionWritten' /\ PendingRow'
    BY <1>3, <1>4, <1>5 DEF Holding, CopyDecided, DecisionWritten, PendingRow, HasCopy, Written
  <1>13. \A y : (BeingCreated(y)' <=> BeingCreated(y)) /\ (BeingReleased(y)' <=> BeingReleased(y))
    BY <1>1, <1>4, <1>5, <1>8 DEF BeingCreated, BeingReleased, Written
  <1>14. DecisionReleases' /\ PendingHolds'
    BY <1>3, <1>4, <1>13 DEF Holding, DecisionReleases, PendingHolds
  <1>. QED
    BY <1>7, <1>9, <1>10, <1>11, <1>12, <1>14 DEF Holding

\* The last command of a creation.
LEMMA HoldJobHolds ==
  ASSUME Base, Holding, NEW a \in Actors, HoldJob(a)
  PROVE  Holding'
  <1>1. Creating(a) /\ pc[a] = "hold"
    BY DEF HoldJob, Creating
  <1>2. PICK x \in Ids, r \in Runs : x = id[a] /\ r = on[a]
    BY <1>1, CreatorHas
  <1>3. /\ redis'.row = redis.row /\ redis'.index = redis.index
        /\ redis'.pending[JobOf[r]] = redis.pending[JobOf[r]] \cup {x} /\ JobOf[r] \in Jobs
        /\ \A j \in Jobs \ {JobOf[r]} : redis'.pending[j] = redis.pending[j]
    <2>1. redis' = Held(redis, x, r) /\ redis \in Store /\ JobOf[r] \in Jobs
      BY <1>2, HasTypes, ApprovalAssumption DEF HoldJob
    <2>2. redis'.row = redis.row /\ redis'.index = redis.index /\ redis'.pending = [redis.pending EXCEPT ![JobOf[r]] = @ \cup {x}]
      BY <2>1, JobHeld
    <2>. QED
      BY <2>1, <2>2, HasTypes
  <1>4. UNCHANGED <<mem, used, shown, cut, early>>
    BY DEF HoldJob
  <1>5. Alone(a) /\ pc'[a] \in {"idle", "retry"}
    BY Leaving DEF HoldJob, Base
  <1>6. used \in Nat /\ used' \in Nat /\ used <= used'
    BY <1>4, HasTypes
  <1>7. OneOwner' /\ NotGivenOut'
    <2>1. ASSUME NEW y \in Ids, NEW q \in Runs, Claim(y, q)' PROVE Claim(y, q)
      <3>1. CASE redis'.row[y].run = q \/ redis'.index[q] = y \/ \E p \in Processes : mem'[p].row[y].run = q \/ mem'[p].index[q] = y
        BY <1>3, <1>4, <3>1 DEF Claim
      <3>2. CASE \E b \in Actors : pc'[b] \in {"load", "set"} \cup Written /\ id'[b] = y /\ on'[b] = q
        BY <1>5, <3>2 DEF Claim, Written, Alone
      <3>3. CASE \E c \in Actors : pc'[c] \in HasCopy /\ id'[c] = y /\ copy'[c].run = q
        BY <1>5, <3>3 DEF Claim, HasCopy, Alone
      <3>. QED
        BY <2>1, <3>1, <3>2, <3>3 DEF Claim
    <2>. QED
      BY <1>6, <2>1, ClaimsKept
  <1>8. \A b \in Actors : /\ Creating(b)' => Creating(b) /\ id'[b] = id[b] /\ id[b] # x
                          /\ Creating(b) /\ b # a => Creating(b)' /\ id'[b] = id[b]
    BY <1>1, <1>2, <1>5 DEF Creating, Alone, Holding, OneCreator
  <1>9. OneCreator'
    BY <1>8 DEF Holding, OneCreator
  <1>10. Fresh' /\ WrittenRow' /\ MemoryIsCut'
    BY <1>3, <1>4, <1>5 DEF Holding, Fresh, WrittenRow, MemoryIsCut, Alone, Written
  <1>11. CopyDecided' /\ DecisionWritten'
    BY <1>3, <1>4, <1>5 DEF Holding, CopyDecided, DecisionWritten, Alone, HasCopy
  <1>12. redis.row[x].run = r
    BY <1>1, <1>2 DEF Holding, WrittenRow, Written
  <1>13. PendingRow'
    BY <1>3, <1>12 DEF Holding, PendingRow
  <1>14. \A y : (BeingCreated(y)' <=> BeingCreated(y) /\ y # x) /\ (BeingReleased(y)' <=> BeingReleased(y))
    <2>1. \A y : BeingCreated(y)' <=> BeingCreated(y) /\ y # x
      BY <1>2, <1>8 DEF BeingCreated
    <2>2. \A y : BeingReleased(y)' <=> BeingReleased(y)
      BY <1>1, <1>5 DEF BeingReleased, Alone
    <2>. QED
      BY <2>1, <2>2
  <1>15. BeingCreated(x)
    BY <1>1, <1>2 DEF BeingCreated
  <1>16. DecisionReleases'
    <2>1. ASSUME NEW y \in Ids \ {x}, NEW j \in Jobs PROVE y \in redis'.pending[j] <=> y \in redis.pending[j]
      BY <1>3
    <2>. QED
      BY <1>3, <1>4, <1>14, <1>15, <2>1 DEF Holding, DecisionReleases
  <1>17. PendingHolds'
    <2>1. \A j \in Jobs : redis.pending[j] \subseteq redis'.pending[j]
      BY <1>3
    <2>2. \A y \in Ids : redis.row[y].status = "pending" => JobOf[redis.row[y].run] \in Jobs
      <3>1. \A y \in Ids : redis.row[y].status = "pending" => redis.row[y].run \in Runs
        BY HasTypes DEF Base, RowsFormed, Rows
      <3>. QED
        BY <3>1, ApprovalAssumption
    <2>. QED
      BY <1>3, <1>4, <1>12, <1>14, <2>1, <2>2 DEF Holding, PendingHolds
  <1>. QED
    BY <1>7, <1>9, <1>10, <1>11, <1>13, <1>16, <1>17 DEF Holding

\* An operation goes to memory at once, as the creation or the decision of x
\* for r, and leaves Redis as it is.
LEMMA MemoryHolds ==
  ASSUME Base, Holding, NEW a \in Actors, pc[a] \in InOp, NEW x \in Ids, NEW r \in Runs, x = id[a], Claim(x, r),
         NEW p \in Processes, mem'[p].row[x].run = r,
         \A y \in Ids \ {x} : mem'[p].row[y] = mem[p].row[y],
         \A q \in Runs : mem'[p].index[q] = mem[p].index[q] \/ (q = r /\ mem'[p].index[q] = x),
         \A o \in Processes \ {p} : mem'[o] = mem[o],
         UNCHANGED <<redis, used, early>>, shown' \in {shown, shown \cup {x}}, cut' = cut \cup {x},
         pc[a] \in HasCopy => UNCHANGED shown,
         Alone(a), pc'[a] \in {"idle", "retry"}
  PROVE  Holding'
  <1>1. used \in Nat /\ used' \in Nat /\ used <= used'
    BY HasTypes
  <1>2. OneOwner' /\ NotGivenOut'
    <2>1. ASSUME NEW y \in Ids, NEW q \in Runs, Claim(y, q)' PROVE Claim(y, q)
      <3>1. CASE redis'.row[y].run = q \/ redis'.index[q] = y
        BY <3>1 DEF Claim
      <3>2. CASE \E o \in Processes : mem'[o].row[y].run = q \/ mem'[o].index[q] = y
        <4>1. PICK o \in Processes : mem'[o].row[y].run = q \/ mem'[o].index[q] = y
          BY <3>2
        <4>2. CASE o # p
          BY <4>1, <4>2 DEF Claim
        <4>3. CASE o = p
          BY <4>1, <4>3 DEF Claim
        <4>. QED
          BY <4>2, <4>3
      <3>3. CASE \E b \in Actors : pc'[b] \in {"load", "set"} \cup Written /\ id'[b] = y /\ on'[b] = q
        BY <3>3 DEF Claim, Written, Alone
      <3>4. CASE \E c \in Actors : pc'[c] \in HasCopy /\ id'[c] = y /\ copy'[c].run = q
        BY <3>4 DEF Claim, HasCopy, Alone
      <3>. QED
        BY <2>1, <3>1, <3>2, <3>3, <3>4 DEF Claim
    <2>. QED
      BY <1>1, <2>1, ClaimsKept
  <1>3. \A b \in Actors : Creating(b)' => Creating(b) /\ id'[b] = id[b] /\ b # a
    BY DEF Creating, Alone
  <1>4. OneCreator'
    BY <1>3 DEF Holding, OneCreator
  <1>5. Fresh'
    <2>1. ASSUME NEW b \in Actors, pc'[b] = "set" PROVE pc[b] = "set" /\ b # a /\ id'[b] = id[b]
      BY <2>1 DEF Alone
    <2>2. ASSUME NEW b \in Actors, pc'[b] = "set", Creating(a) PROVE id[b] # x
      BY <2>1, <2>2 DEF Holding, OneCreator, Creating
    <2>3. Creating(a) \/ pc[a] \in HasCopy
      BY DEF InOp, Creating, Written
    <2>. QED
      BY <2>1, <2>2, <2>3 DEF Holding, Fresh
  <1>6. WrittenRow'
    BY DEF Holding, WrittenRow, Alone, Written
  <1>7. MemoryIsCut'
    <2>1. ASSUME NEW o \in Processes, NEW y \in Ids, mem'[o].row[y].status # "none" PROVE y \in cut'
      <3>1. CASE o = p /\ y = x
        BY <3>1
      <3>2. CASE o # p
        BY <2>1, <3>2 DEF Holding, MemoryIsCut
      <3>3. CASE o = p /\ y # x
        BY <2>1, <3>3 DEF Holding, MemoryIsCut
      <3>. QED
        BY <3>1, <3>2, <3>3
    <2>. QED
      BY <2>1 DEF MemoryIsCut
  <1>8. CopyDecided' /\ DecisionWritten' /\ PendingRow'
    BY DEF Holding, CopyDecided, DecisionWritten, PendingRow, Alone, HasCopy
  <1>9. \A y : /\ BeingCreated(y)' => BeingCreated(y)
               /\ y # x => (BeingCreated(y) => BeingCreated(y)') /\ (BeingReleased(y) => BeingReleased(y)')
    BY DEF BeingCreated, BeingReleased, Creating, Alone
  <1>10. DecisionReleases' /\ PendingHolds'
    BY <1>9 DEF Holding, DecisionReleases, PendingHolds
  <1>. QED
    BY <1>2, <1>4, <1>5, <1>6, <1>7, <1>8, <1>10 DEF Holding

LEMMA CreateInMemoryHolds ==
  ASSUME Base, Holding, NEW a \in Actors, CreateInMemory(a)
  PROVE  Holding'
  <1>1. Creating(a) /\ Proc(a) \in Processes /\ pc[a] \in InOp
    BY DEF CreateInMemory, Creating, Proc, Processes, InOp, Written
  <1>2. PICK x \in Ids, r \in Runs, p \in Processes : x = id[a] /\ r = on[a] /\ p = Proc(a)
    BY <1>1, CreatorHas
  <1>3. PICK s \in Store : s = mem[p]
    BY HasTypes
  <1>4. PICK t \in Store :
          /\ t = CreatedIn(s, x, r) /\ t.row[x].run = r
          /\ \A y \in Ids \ {x} : t.row[y] = s.row[y]
          /\ t.index[r] = x /\ \A q \in Runs \ {r} : t.index[q] = s.index[q]
    BY MemoryCreates
  <1>5. mem' = [mem EXCEPT ![p] = t]
    <2>1. mem' = [mem EXCEPT ![Proc(a)] = CreatedIn(mem[Proc(a)], id[a], on[a])]
      BY Zenon DEF CreateInMemory, CreatedIn
    <2>. QED
      BY <1>2, <1>3, <1>4, <2>1
  <1>6. mem'[p] = t /\ \A o \in Processes \ {p} : mem'[o] = mem[o]
    BY <1>5, HasTypes
  <1>7. UNCHANGED <<redis, used, early>> /\ shown' = shown \cup {x} /\ cut' = cut \cup {x}
    BY <1>2 DEF CreateInMemory
  <1>8. Alone(a) /\ pc'[a] \in {"idle", "retry"}
    BY Leaving DEF CreateInMemory, Base
  <1>9. Claim(x, r)
    BY <1>1, <1>2 DEF Claim, Creating, Written
  <1>10. pc[a] \notin HasCopy
    BY <1>1 DEF Creating, HasCopy
  <1>. QED
    BY <1>1, <1>2, <1>3, <1>4, <1>6, <1>7, <1>8, <1>9, <1>10, MemoryHolds

LEMMA DecideInMemoryHolds ==
  ASSUME Base, Holding, NEW c \in Clients, DecideInMemory(c)
  PROVE  Holding'
  <1>1. c \in Actors /\ pc[c] \in HasCopy /\ pc[c] \in InOp /\ "api" \in Processes
    BY ActorsApart DEF DecideInMemory, HasCopy, InOp, Processes
  <1>2. PICK x \in Ids, r \in Runs, first \in BOOLEAN, p \in Processes :
          x = id[c] /\ r = copy[c].run /\ first = (copy[c].status = "pending") /\ p = "api"
    BY <1>1, DeciderHas
  <1>3. PICK s \in Store : s = mem[p]
    BY HasTypes
  <1>4. PICK t \in Store :
          /\ t = DecidedIn(s, x, r, first) /\ t.row[x].run = r
          /\ \A y \in Ids \ {x} : t.row[y] = s.row[y]
          /\ t.index[r] = x /\ \A q \in Runs \ {r} : t.index[q] = s.index[q]
    BY MemoryDecides
  <1>5. mem' = [mem EXCEPT ![p] = t]
    <2>1. mem' = [mem EXCEPT !["api"] = DecidedIn(mem["api"], id[c], copy[c].run, copy[c].status = "pending")]
      BY Zenon DEF DecideInMemory, DecidedIn
    <2>. QED
      BY <1>2, <1>3, <1>4, <2>1
  <1>6. mem'[p] = t /\ \A o \in Processes \ {p} : mem'[o] = mem[o]
    BY <1>5, HasTypes
  <1>7. UNCHANGED <<redis, used, early, shown>> /\ cut' = cut \cup {x}
    BY <1>2 DEF DecideInMemory
  <1>8. Alone(c) /\ pc'[c] \in {"idle", "retry"}
    BY <1>1, Leaving DEF DecideInMemory, Base
  <1>9. Claim(x, r)
    BY <1>1, <1>2 DEF Claim
  <1>. QED
    BY <1>1, <1>2, <1>3, <1>4, <1>6, <1>7, <1>8, <1>9, MemoryHolds

\* A decision reads the row it will write.
LEMMA FetchRowHolds ==
  ASSUME Base, Holding, NEW c \in Clients, FetchRow(c)
  PROVE  Holding'
  <1>1. c \in Actors /\ pc[c] = "fetch" /\ pc[c] \notin InOp
    BY ActorsApart DEF FetchRow, InOp, Written, HasCopy
  <1>2. UNCHANGED <<redis, mem, used, shown, cut, early>>
    BY DEF FetchRow, ghosts
  <1>3. used \in Nat /\ id[c] \in Ids /\ "api" \in Processes
    BY <1>1, HasTypes DEF Base, Working, Works, Processes
  <1>4. PICK row \in {RowSeen("api", id[c]), mem["api"].row[id[c]]} :
          \/ Leave(c)
          \/ row # NoRow /\ copy' = [copy EXCEPT ![c] = row] /\ Goto(c, "write") /\ UNCHANGED <<on, id>>
    BY DEF FetchRow
  <1>5. CASE Leave(c)
    <2>1. Alone(c) /\ pc'[c] \in {"idle", "retry"}
      BY <1>1, <1>5, Leaving DEF Base
    <2>2. \A b \in Actors : \/ SameActor(b)
                            \/ /\ pc[b] \notin InOp /\ pc'[b] \notin InOp
                               /\ pc'[b] = "load" => Claim(id'[b], on'[b])
      BY <1>1, <2>1 DEF Alone, SameActor, InOp, Written, HasCopy
    <2>. QED
      BY <1>2, <1>3, <2>2, QuietHolds
  <1>6. CASE copy' = [copy EXCEPT ![c] = row] /\ Goto(c, "write") /\ UNCHANGED <<on, id>>
    <2>1. /\ \A b \in Actors \ {c} : SameActor(b)
          /\ pc'[c] = "write" /\ copy'[c] = row /\ UNCHANGED <<on, id>>
      BY <1>1, <1>6, HasTypes DEF Goto, SameActor
    <2>2. PICK x \in Ids : x = id[c]
      BY <1>3
    <2>3. row = redis.row[x] \/ \E p \in Processes : row = mem[p].row[x]
      BY <1>3, <1>4, <2>2 DEF RowSeen
    <2>4. \A r \in Runs : row.run = r => Claim(x, r)
      BY <2>3 DEF Claim
    <2>5. row.status = "decided" => redis.row[x].status = "decided" \/ x \in cut
      BY <2>3 DEF Holding, MemoryIsCut
    <2>6. OneOwner' /\ NotGivenOut'
      <3>1. ASSUME NEW y \in Ids, NEW q \in Runs, Claim(y, q)' PROVE Claim(y, q)
        <4>1. CASE redis'.row[y].run = q \/ redis'.index[q] = y \/ \E p \in Processes : mem'[p].row[y].run = q \/ mem'[p].index[q] = y
          BY <1>2, <4>1 DEF Claim
        <4>2. CASE \E b \in Actors : pc'[b] \in {"load", "set"} \cup Written /\ id'[b] = y /\ on'[b] = q
          BY <2>1, <4>2 DEF Claim, Written, SameActor
        <4>3. CASE \E b \in Actors : pc'[b] \in HasCopy /\ id'[b] = y /\ copy'[b].run = q
          BY <2>1, <2>2, <2>4, <4>3 DEF Claim, SameActor
        <4>. QED
          BY <3>1, <4>1, <4>2, <4>3 DEF Claim
      <3>. QED
        BY <1>2, <1>3, <3>1, ClaimsKept
    <2>7. \A b \in Actors : Creating(b)' <=> Creating(b)
      BY <1>1, <2>1 DEF Creating, SameActor
    <2>8. OneCreator' /\ Fresh' /\ WrittenRow' /\ MemoryIsCut' /\ PendingRow'
      BY <1>2, <2>1, <2>7 DEF Holding, OneCreator, Fresh, WrittenRow, MemoryIsCut, PendingRow, SameActor, Written
    <2>9. CopyDecided' /\ DecisionWritten'
      BY <1>2, <2>1, <2>2, <2>5 DEF Holding, CopyDecided, DecisionWritten, SameActor
    <2>10. \A y : (BeingCreated(y)' <=> BeingCreated(y)) /\ (BeingReleased(y)' <=> BeingReleased(y))
      BY <1>1, <2>1, <2>7 DEF BeingCreated, BeingReleased, SameActor
    <2>11. DecisionReleases' /\ PendingHolds'
      BY <1>2, <2>10 DEF Holding, DecisionReleases, PendingHolds
    <2>. QED
      BY <2>6, <2>8, <2>9, <2>11 DEF Holding
  <1>. QED
    BY <1>4, <1>5, <1>6

\* The decision is written into the row.
LEMMA WriteDecisionHolds ==
  ASSUME Base, Holding, NEW c \in Clients, WriteDecision(c)
  PROVE  Holding'
  <1>1. c \in Actors /\ pc[c] = "write" /\ pc[c] \in HasCopy
    BY ActorsApart DEF WriteDecision, HasCopy
  <1>2. PICK x \in Ids, r \in Runs : x = id[c] /\ r = copy[c].run
    BY <1>1, DeciderHas
  <1>3. /\ \A y \in Ids \ {x} : redis'.row[y] = redis.row[y]
        /\ redis'.row[x].run = r /\ redis'.row[x].status = "decided"
        /\ redis'.index = redis.index /\ redis'.pending = redis.pending
    <2>1. redis' = WithRow(redis, x, "decided", r) /\ redis \in Store
      BY <1>2, HasTypes DEF WriteDecision
    <2>2. /\ redis'.row = [redis.row EXCEPT ![x] = [status |-> "decided", run |-> r]]
          /\ redis'.index = redis.index /\ redis'.pending = redis.pending
      BY <2>1, RowWritten
    <2>. QED
      BY <2>2, HasTypes
  <1>4. UNCHANGED <<mem, on, id, copy, used, shown, cut, early>>
    BY DEF WriteDecision, ghosts
  <1>5. pc'[c] = "repoint" /\ \A b \in Actors \ {c} : pc'[b] = pc[b]
    BY <1>1, HasTypes DEF WriteDecision, Goto
  <1>6. used \in Nat /\ used' \in Nat /\ used <= used'
    BY <1>4, HasTypes
  <1>7. Claim(x, r)
    BY <1>1, <1>2 DEF Claim
  <1>8. OneOwner' /\ NotGivenOut'
    <2>1. ASSUME NEW y \in Ids, NEW q \in Runs, Claim(y, q)' PROVE Claim(y, q)
      <3>1. CASE redis'.row[y].run = q
        BY <1>3, <1>7, <3>1 DEF Claim
      <3>2. CASE redis'.index[q] = y \/ \E p \in Processes : mem'[p].row[y].run = q \/ mem'[p].index[q] = y
        BY <1>3, <1>4, <3>2 DEF Claim
      <3>3. CASE \E b \in Actors : pc'[b] \in {"load", "set"} \cup Written /\ id'[b] = y /\ on'[b] = q
        BY <1>4, <1>5, <3>3 DEF Claim, Written
      <3>4. CASE \E b \in Actors : pc'[b] \in HasCopy /\ id'[b] = y /\ copy'[b].run = q
        BY <1>1, <1>4, <1>5, <3>4 DEF Claim
      <3>. QED
        BY <2>1, <3>1, <3>2, <3>3, <3>4 DEF Claim
    <2>. QED
      BY <1>6, <2>1, ClaimsKept
  <1>9. \A b \in Actors : Creating(b)' <=> Creating(b)
    BY <1>1, <1>5 DEF Creating
  <1>10. OneCreator'
    BY <1>4, <1>9 DEF Holding, OneCreator
  <1>11. x \in shown
    BY <1>1, <1>2, DeciderHas
  <1>12. \A q \in Runs : redis.row[x].run = q => q = r
    BY <1>7 DEF Holding, OneOwner, Claim
  <1>13. Fresh'
    <2>1. ASSUME NEW b \in Actors, pc'[b] = "set" PROVE pc[b] = "set" /\ id[b] \in Ids /\ id[b] # x
      <3>1. pc[b] = "set" /\ Creating(b)
        BY <1>5, <2>1 DEF Creating
      <3>. QED
        BY <1>11, <3>1, CreatorHas DEF Holding, Fresh
    <2>. QED
      BY <1>3, <1>4, <2>1 DEF Holding, Fresh
  <1>14. WrittenRow'
    <2>1. ASSUME NEW b \in Actors, pc'[b] \in Written PROVE redis'.row[id[b]].run = on[b]
      <3>1. pc[b] \in Written /\ Creating(b)
        BY <1>5, <2>1 DEF Creating, Written
      <3>2. id[b] \in Ids /\ on[b] \in Runs /\ redis.row[id[b]].run = on[b]
        BY <3>1, CreatorHas DEF Holding, WrittenRow
      <3>3. CASE id[b] = x
        BY <1>3, <1>12, <3>2, <3>3
      <3>4. CASE id[b] # x
        BY <1>3, <3>2, <3>4
      <3>. QED
        BY <3>3, <3>4
    <2>. QED
      BY <1>4, <2>1 DEF WrittenRow
  <1>15. MemoryIsCut'
    BY <1>4 DEF Holding, MemoryIsCut
  <1>16. CopyDecided' /\ DecisionWritten'
    <2>1. ASSUME NEW b \in Actors, pc'[b] \in HasCopy
          PROVE  /\ pc[b] \in HasCopy /\ (b # c => pc'[b] = pc[b])
                 /\ redis.row[id[b]].status = "decided" => redis'.row[id[b]].status = "decided"
      <3>1. pc[b] \in HasCopy /\ (b # c => pc'[b] = pc[b])
        BY <1>1, <1>5, <2>1
      <3>2. id[b] \in Ids
        BY <3>1, DeciderHas
      <3>. QED
        BY <1>3, <3>1, <3>2
    <2>2. redis'.row[id[c]].status = "decided"
      BY <1>2, <1>3
    <2>. QED
      BY <1>4, <2>1, <2>2 DEF Holding, CopyDecided, DecisionWritten, HasCopy
  <1>17. PendingRow'
    <2>1. ASSUME NEW j \in Jobs, NEW y \in redis.pending[j] PROVE redis'.row[y].run = redis.row[y].run
      <3>1. y \in Ids /\ redis.row[y].run \in Runs
        BY HasTypes DEF Holding, PendingRow
      <3>. QED
        BY <1>3, <1>12, <3>1
    <2>. QED
      BY <1>3, <2>1 DEF Holding, PendingRow
  <1>18. \A y : /\ BeingCreated(y)' <=> BeingCreated(y)
                /\ BeingReleased(y) => BeingReleased(y)'
    BY <1>1, <1>4, <1>5, <1>9 DEF BeingCreated, BeingReleased
  <1>19. DecisionReleases'
    <2>1. CASE copy[c].status = "pending"
      <3>1. BeingReleased(x)'
        BY <1>1, <1>2, <1>4, <1>5, <2>1 DEF BeingReleased
      <3>. QED
        BY <1>3, <1>4, <1>18, <3>1 DEF Holding, DecisionReleases
    <2>2. CASE copy[c].status = "decided"
      <3>1. redis.row[x].status = "decided" \/ x \in cut
        BY <1>1, <1>2, <2>2 DEF Holding, CopyDecided
      <3>. QED
        BY <1>3, <1>4, <1>18, <3>1 DEF Holding, DecisionReleases
    <2>. QED
      BY <1>1, <2>1, <2>2, DeciderHas
  <1>20. PendingHolds'
    BY <1>3, <1>4, <1>18 DEF Holding, PendingHolds
  <1>. QED
    BY <1>8, <1>10, <1>13, <1>14, <1>15, <1>16, <1>17, <1>19, <1>20 DEF Holding

\* The index is written again, and only who decided first goes on.
LEMMA RewriteHolds ==
  ASSUME Base, Holding, NEW c \in Clients, RewriteRunIndex(c)
  PROVE  Holding'
  <1>1. c \in Actors /\ pc[c] = "repoint" /\ pc[c] \in HasCopy
    BY ActorsApart DEF RewriteRunIndex, HasCopy
  <1>2. PICK x \in Ids, r \in Runs : x = id[c] /\ r = copy[c].run
    BY <1>1, DeciderHas
  <1>3. /\ redis'.row = redis.row /\ redis'.pending = redis.pending
        /\ \A q \in Runs : redis'.index[q] = redis.index[q] \/ (q = r /\ redis'.index[q] = x)
    <2>1. redis' = WithIndex(redis, x, r) /\ redis \in Store
      BY <1>2, HasTypes DEF RewriteRunIndex
    <2>2. redis'.row = redis.row /\ redis'.pending = redis.pending /\ redis'.index = [redis.index EXCEPT ![r] = x]
      BY <2>1, IndexWritten
    <2>. QED
      BY <2>2, HasTypes
  <1>4. UNCHANGED <<mem, used, shown, cut, early>>
    BY DEF RewriteRunIndex, ghosts
  <1>5. /\ \A b \in Actors \ {c} : SameActor(b)
        /\ \/ pc'[c] \in {"idle", "retry"} /\ copy[c].status # "pending"
           \/ pc'[c] = "release" /\ id'[c] = id[c] /\ copy'[c] = copy[c]
    <2>1. CASE copy[c].status = "pending"
      BY <1>1, <2>1, HasTypes DEF RewriteRunIndex, AfterIndex, Goto, SameActor
    <2>2. CASE copy[c].status # "pending"
      <3>1. Alone(c) /\ pc'[c] \in {"idle", "retry"}
        BY <1>1, <2>2, Leaving DEF RewriteRunIndex, AfterIndex, Base
      <3>. QED
        BY <2>2, <3>1 DEF Alone, SameActor
    <2>. QED
      BY <2>1, <2>2
  <1>6. used \in Nat /\ used' \in Nat /\ used <= used'
    BY <1>4, HasTypes
  <1>7. OneOwner' /\ NotGivenOut'
    <2>1. ASSUME NEW y \in Ids, NEW q \in Runs, Claim(y, q)' PROVE Claim(y, q)
      <3>1. CASE redis'.index[q] = y
        BY <1>1, <1>2, <1>3, <3>1 DEF Claim
      <3>2. CASE redis'.row[y].run = q \/ \E p \in Processes : mem'[p].row[y].run = q \/ mem'[p].index[q] = y
        BY <1>3, <1>4, <3>2 DEF Claim
      <3>3. CASE \E b \in Actors : pc'[b] \in {"load", "set"} \cup Written /\ id'[b] = y /\ on'[b] = q
        BY <1>5, <3>3 DEF Claim, Written, SameActor
      <3>4. CASE \E b \in Actors : pc'[b] \in HasCopy /\ id'[b] = y /\ copy'[b].run = q
        BY <1>1, <1>5, <3>4 DEF Claim, HasCopy, SameActor
      <3>. QED
        BY <2>1, <3>1, <3>2, <3>3, <3>4 DEF Claim
    <2>. QED
      BY <1>6, <2>1, ClaimsKept
  <1>8. \A b \in Actors : Creating(b)' <=> Creating(b)
    BY <1>1, <1>5 DEF Creating, SameActor
  <1>9. OneCreator' /\ Fresh' /\ WrittenRow' /\ MemoryIsCut' /\ PendingRow'
    BY <1>1, <1>3, <1>4, <1>5, <1>8 DEF Holding, OneCreator, Fresh, WrittenRow, MemoryIsCut, PendingRow, SameActor, Written, Creating
  <1>10. CopyDecided' /\ DecisionWritten'
    BY <1>1, <1>3, <1>4, <1>5 DEF Holding, CopyDecided, DecisionWritten, SameActor, HasCopy
  <1>11. \A y : (BeingCreated(y)' <=> BeingCreated(y)) /\ (BeingReleased(y)' <=> BeingReleased(y))
    BY <1>1, <1>5, <1>8 DEF BeingCreated, BeingReleased, SameActor, Creating
  <1>12. DecisionReleases' /\ PendingHolds'
    BY <1>3, <1>4, <1>11 DEF Holding, DecisionReleases, PendingHolds
  <1>. QED
    BY <1>7, <1>9, <1>10, <1>12 DEF Holding

\* The job is released, whether or not it is held yet.
LEMMA ReleaseHolds ==
  ASSUME Base, Holding, NEW c \in Clients, ReleaseJob(c)
  PROVE  Holding'
  <1>1. c \in Actors /\ pc[c] = "release" /\ pc[c] \in HasCopy
    BY ActorsApart DEF ReleaseJob, HasCopy
  <1>2. PICK x \in Ids, r \in Runs : x = id[c] /\ r = copy[c].run
    BY <1>1, DeciderHas
  <1>3. /\ redis'.row = redis.row /\ redis'.index = redis.index
        /\ redis'.pending[JobOf[r]] = redis.pending[JobOf[r]] \ {x} /\ JobOf[r] \in Jobs
        /\ \A j \in Jobs \ {JobOf[r]} : redis'.pending[j] = redis.pending[j]
    <2>1. redis' = Released(redis, x, r) /\ redis \in Store /\ JobOf[r] \in Jobs
      BY <1>2, HasTypes, ApprovalAssumption DEF ReleaseJob
    <2>2. redis'.row = redis.row /\ redis'.index = redis.index /\ redis'.pending = [redis.pending EXCEPT ![JobOf[r]] = @ \ {x}]
      BY <2>1, JobReleased
    <2>. QED
      BY <2>1, <2>2, HasTypes
  <1>4. UNCHANGED <<mem, used, shown, cut>>
    BY DEF ReleaseJob
  <1>5. early \subseteq early' /\ (BeingCreated(x) => x \in early')
    BY <1>2 DEF ReleaseJob, BeingCreated
  <1>6. Alone(c) /\ pc'[c] \in {"idle", "retry"}
    BY <1>1, Leaving DEF ReleaseJob, Base
  <1>7. used \in Nat /\ used' \in Nat /\ used <= used'
    BY <1>4, HasTypes
  <1>8. OneOwner' /\ NotGivenOut'
    <2>1. ASSUME NEW y \in Ids, NEW q \in Runs, Claim(y, q)' PROVE Claim(y, q)
      <3>1. CASE redis'.row[y].run = q \/ redis'.index[q] = y \/ \E p \in Processes : mem'[p].row[y].run = q \/ mem'[p].index[q] = y
        BY <1>3, <1>4, <3>1 DEF Claim
      <3>2. CASE \E b \in Actors : pc'[b] \in {"load", "set"} \cup Written /\ id'[b] = y /\ on'[b] = q
        BY <1>6, <3>2 DEF Claim, Written, Alone
      <3>3. CASE \E b \in Actors : pc'[b] \in HasCopy /\ id'[b] = y /\ copy'[b].run = q
        BY <1>6, <3>3 DEF Claim, HasCopy, Alone
      <3>. QED
        BY <2>1, <3>1, <3>2, <3>3 DEF Claim
    <2>. QED
      BY <1>7, <2>1, ClaimsKept
  <1>9. \A b \in Actors : (Creating(b)' <=> Creating(b)) /\ (Creating(b) => id'[b] = id[b])
    BY <1>1, <1>6 DEF Creating, Alone
  <1>10. OneCreator' /\ Fresh' /\ WrittenRow' /\ MemoryIsCut'
    BY <1>3, <1>4, <1>6, <1>9 DEF Holding, OneCreator, Fresh, WrittenRow, MemoryIsCut, Alone, Written
  <1>11. CopyDecided' /\ DecisionWritten'
    BY <1>3, <1>4, <1>6 DEF Holding, CopyDecided, DecisionWritten, Alone, HasCopy
  <1>12. PendingRow'
    BY <1>3 DEF Holding, PendingRow
  <1>13. /\ \A y : BeingCreated(y)' <=> BeingCreated(y)
         /\ \A y : y # x => (BeingReleased(y) => BeingReleased(y)')
    BY <1>1, <1>2, <1>6, <1>9 DEF BeingCreated, BeingReleased, Alone
  <1>14. redis.row[x].status = "decided" /\ \A j \in Jobs : x \notin redis'.pending[j]
    <2>1. redis.row[x].status = "decided"
      BY <1>1, <1>2 DEF Holding, DecisionWritten
    <2>2. Claim(x, r)
      BY <1>1, <1>2 DEF Claim
    <2>3. \A j \in Jobs : x \in redis.pending[j] => j = JobOf[r]
      BY <2>2 DEF Holding, PendingRow, OneOwner, Claim
    <2>. QED
      BY <1>3, <2>1, <2>3
  <1>15. \A j \in Jobs, y \in Ids \ {x} : y \in redis'.pending[j] <=> y \in redis.pending[j]
    BY <1>3
  <1>16. DecisionReleases'
    <2>1. ASSUME NEW y \in Ids, redis'.row[y].status = "decided"
          PROVE  \/ y \in (cut \cup early)' \/ BeingReleased(y)'
                 \/ ~BeingCreated(y)' /\ \A j \in Jobs : y \notin redis'.pending[j]
      <3>1. CASE y = x
        BY <1>5, <1>13, <1>14, <3>1
      <3>2. CASE y # x
        BY <1>3, <1>4, <1>5, <1>13, <1>15, <2>1, <3>2 DEF Holding, DecisionReleases
      <3>. QED
        BY <3>1, <3>2
    <2>. QED
      BY <2>1 DEF DecisionReleases
  <1>17. PendingHolds'
    <2>1. ASSUME NEW y \in Ids, redis.row[y].status = "pending" PROVE y # x /\ JobOf[redis.row[y].run] \in Jobs
      <3>1. redis.row[y].run \in Runs
        BY <2>1, HasTypes DEF Base, RowsFormed, Rows
      <3>. QED
        BY <1>14, <2>1, <3>1, ApprovalAssumption
    <2>. QED
      BY <1>3, <1>4, <1>13, <1>15, <2>1 DEF Holding, PendingHolds
  <1>. QED
    BY <1>8, <1>10, <1>11, <1>12, <1>16, <1>17 DEF Holding

\* A process dies: what it had under way is cut short.
LEMMA CrashHolds ==
  ASSUME Base, Holding, NEW p \in Processes, Crash(p)
  PROVE  Holding'
  <1> DEFINE Mine(a) == Proc(a) = p
  <1>1. \A a \in Actors : /\ pc'[a] = (IF Mine(a) THEN "idle" ELSE pc[a]) /\ on'[a] = (IF Mine(a) THEN None ELSE on[a])
                          /\ id'[a] = (IF Mine(a) THEN 0 ELSE id[a]) /\ copy'[a] = (IF Mine(a) THEN NoRow ELSE copy[a])
    BY DEF Crash
  <1>2. cut \subseteq cut' /\ \A a \in Actors : Mine(a) /\ (Creating(a) \/ pc[a] \in HasCopy) => id[a] \in cut'
    BY DEF Crash, HasCopy
  <1> HIDE DEF Mine
  <1>3. UNCHANGED <<redis, used, shown, early>>
    BY DEF Crash
  <1>4. \A o \in Processes : mem'[o] = mem[o] \/ mem'[o] = Empty
    BY HasTypes DEF Crash
  <1>5. /\ \A x \in Ids : Empty.row[x].run = None /\ Empty.row[x].status = "none"
        /\ \A r \in Runs : Empty.index[r] = 0
    BY DEF Empty, NoRow
  <1>6. used \in Nat /\ used' \in Nat /\ used <= used' /\ None \notin Runs /\ \A x \in Ids : x # 0
    BY <1>3, HasTypes, ApprovalAssumption
  <1>7. \A a \in Actors : pc'[a] \in InOp \cup {"load"} => ~Mine(a) /\ SameActor(a)
    BY <1>1 DEF InOp, Written, HasCopy, SameActor
  <1>8. \A a \in Actors : ~Mine(a) => SameActor(a)
    BY <1>1 DEF SameActor
  <1>9. OneOwner' /\ NotGivenOut'
    <2>1. ASSUME NEW x \in Ids, NEW r \in Runs, Claim(x, r)' PROVE Claim(x, r)
      <3>1. CASE redis'.row[x].run = r \/ redis'.index[r] = x
        BY <1>3, <3>1 DEF Claim
      <3>2. CASE \E o \in Processes : mem'[o].row[x].run = r \/ mem'[o].index[r] = x
        BY <1>4, <1>5, <1>6, <3>2 DEF Claim
      <3>3. CASE \E a \in Actors : pc'[a] \in {"load", "set"} \cup Written /\ id'[a] = x /\ on'[a] = r
        BY <1>7, <3>3 DEF Claim, SameActor, InOp
      <3>4. CASE \E a \in Actors : pc'[a] \in HasCopy /\ id'[a] = x /\ copy'[a].run = r
        BY <1>7, <3>4 DEF Claim, SameActor, InOp
      <3>. QED
        BY <2>1, <3>1, <3>2, <3>3, <3>4 DEF Claim
    <2>. QED
      BY <1>6, <2>1, ClaimsKept
  <1>10. OneCreator' /\ Fresh' /\ WrittenRow'
    BY <1>3, <1>7 DEF Holding, OneCreator, Fresh, WrittenRow, Creating, SameActor, InOp, Written
  <1>11. MemoryIsCut'
    BY <1>2, <1>4, <1>5 DEF Holding, MemoryIsCut
  <1>12. CopyDecided' /\ DecisionWritten' /\ PendingRow'
    BY <1>2, <1>3, <1>7 DEF Holding, CopyDecided, DecisionWritten, PendingRow, SameActor, InOp, HasCopy
  <1>13. \A x : /\ BeingCreated(x)' => BeingCreated(x)
                /\ BeingCreated(x) => BeingCreated(x)' \/ x \in cut'
                /\ BeingReleased(x) => BeingReleased(x)' \/ x \in cut'
    <2>1. \A x : BeingCreated(x)' => BeingCreated(x)
      BY <1>7 DEF BeingCreated, Creating, SameActor, InOp, Written
    <2>2. \A x : BeingCreated(x) => BeingCreated(x)' \/ x \in cut'
      BY <1>2, <1>8 DEF BeingCreated, Creating, SameActor
    <2>3. \A x : BeingReleased(x) => BeingReleased(x)' \/ x \in cut'
      BY <1>2, <1>8 DEF BeingReleased, SameActor, HasCopy
    <2>. QED
      BY <2>1, <2>2, <2>3
  <1>14. DecisionReleases' /\ PendingHolds'
    BY <1>2, <1>3, <1>13 DEF Holding, DecisionReleases, PendingHolds
  <1>. QED
    BY <1>9, <1>10, <1>11, <1>12, <1>14 DEF Holding

\* A search for the run's request, and the look at the one it found.
LEMMA FindHolds ==
  ASSUME Base, Holding, NEW a \in Actors, FindByRun(a) \/ LoadExisting(a)
  PROVE  Holding'
  <1>1. /\ pc[a] \in {"find", "load"} /\ pc[a] \notin InOp /\ on[a] \in Runs
        /\ UNCHANGED <<redis, mem, shown, cut, early>>
    BY DEF FindByRun, LoadExisting, InOp, Written, HasCopy, Base, Working, Works, Asking, ghosts
  <1>2. CASE NewId(a) /\ UNCHANGED <<on, copy>>
    BY <1>1, <1>2, NewIdHolds
  <1>3. CASE Leave(a) /\ UNCHANGED used
    <2>1. Alone(a) /\ pc'[a] \in {"idle", "retry"}
      BY <1>3, Leaving DEF Base
    <2>2. \A b \in Actors : \/ SameActor(b)
                            \/ /\ pc[b] \notin InOp /\ pc'[b] \notin InOp
                               /\ pc'[b] = "load" => Claim(id'[b], on'[b])
      BY <1>1, <2>1 DEF Alone, SameActor, InOp, Written, HasCopy
    <2>. QED
      BY <1>1, <1>3, <2>2, HasTypes, QuietHolds
  <1>4. CASE \E x \in Ids : /\ x = redis.index[on[a]] \/ \E p \in Processes : x = mem[p].index[on[a]]
                            /\ id' = [id EXCEPT ![a] = x] /\ Goto(a, "load") /\ UNCHANGED <<on, copy, used>>
    <2>1. PICK x \in Ids : /\ x = redis.index[on[a]] \/ \E p \in Processes : x = mem[p].index[on[a]]
                           /\ id' = [id EXCEPT ![a] = x] /\ Goto(a, "load") /\ UNCHANGED <<on, copy, used>>
      BY <1>4
    <2>2. pc'[a] = "load" /\ id'[a] = x /\ on'[a] = on[a] /\ \A b \in Actors \ {a} : SameActor(b)
      BY <2>1, HasTypes DEF Goto, SameActor
    <2>3. Claim(x, on[a])
      BY <2>1 DEF Claim
    <2>4. \A b \in Actors : \/ SameActor(b)
                            \/ /\ pc[b] \notin InOp /\ pc'[b] \notin InOp
                               /\ pc'[b] = "load" => Claim(id'[b], on'[b])
      BY <1>1, <2>2, <2>3 DEF InOp, Written, HasCopy
    <2>. QED
      BY <1>1, <2>1, <2>4, HasTypes, QuietHolds
  <1>5. CASE FindByRun(a)
    <2>1. PICK e \in 0..MaxIds : /\ e = redis.index[on[a]] \/ \E p \in Processes : e = mem[p].index[on[a]]
                                 /\ Found(a, e) /\ UNCHANGED <<on, copy>>
      <3>1. Proc(a) \in Processes
        BY DEF Proc, Processes
      <3>. QED
        BY <1>1, <1>5, <3>1, HasTypes DEF FindByRun
    <2>2. e # 0 => e \in Ids
      BY ApprovalAssumption DEF Ids
    <2>. QED
      BY <1>2, <1>4, <2>1, <2>2 DEF Found
  <1>6. CASE LoadExisting(a)
    BY <1>2, <1>3, <1>6 DEF LoadExisting
  <1>. QED
    BY <1>5, <1>6

LEMMA HoldingInit == ASSUME Init PROVE Holding
  <1>1. /\ \A x \in Ids : redis.row[x].run = None /\ redis.row[x].status = "none"
        /\ \A r \in Runs : redis.index[r] = 0
        /\ \A p \in Processes : mem[p] = redis
        /\ \A j \in Jobs : redis.pending[j] = {}
    BY DEF Init, Empty, NoRow
  <1>2. \A a \in Actors : pc[a] = "idle"
    BY DEF Init
  <1>3. None \notin Runs /\ \A x \in Ids : x # 0
    BY ApprovalAssumption DEF Ids
  <1>4. \A x \in Ids, r \in Runs : ~Claim(x, r)
    BY <1>1, <1>2, <1>3 DEF Claim, Written, HasCopy
  <1>5. OneOwner /\ NotGivenOut
    BY <1>4 DEF OneOwner, NotGivenOut
  <1>6. OneCreator /\ Fresh /\ WrittenRow /\ CopyDecided /\ DecisionWritten
    BY <1>2 DEF OneCreator, Creating, Fresh, WrittenRow, Written, CopyDecided, DecisionWritten, HasCopy
  <1>7. MemoryIsCut /\ PendingRow /\ DecisionReleases /\ PendingHolds
    BY <1>1 DEF MemoryIsCut, PendingRow, DecisionReleases, PendingHolds
  <1>. QED
    BY <1>5, <1>6, <1>7 DEF Holding

LEMMA HoldingStep == ASSUME Base, Holding, [Next]_vars PROVE Holding'
  <1>1. ASSUME NEW a \in Actors, Alone(a), pc[a] \notin InOp, pc'[a] \notin InOp, pc'[a] # "load",
               UNCHANGED <<redis, mem, used, shown, ghosts>>
        PROVE  Holding'
    <2>1. UNCHANGED <<redis, mem, used, shown, cut, early>>
      BY <1>1 DEF ghosts
    <2>2. \A b \in Actors : SameActor(b) \/ (pc[b] \notin InOp /\ pc'[b] \notin InOp /\ pc'[b] # "load")
      BY <1>1 DEF Alone, SameActor
    <2>. QED
      BY <2>1, <2>2, HasTypes, QuietHolds
  <1>2. ASSUME UNCHANGED <<redis, mem, actor, used, shown, cut, early>> PROVE Holding'
    <2>1. \A b \in Actors : SameActor(b)
      BY <1>2 DEF actor, SameActor
    <2>. QED
      BY <1>2, <2>1, HasTypes, QuietHolds
  <1>3. ASSUME \/ \E j \in Jobs : LookAtApprovals(j)
               \/ Skip
               \/ \E r \in Runs : Dispatch(r) \/ QueueRetry(r) \/ ManualRun(r)
               \/ UNCHANGED vars
        PROVE  UNCHANGED <<redis, mem, actor, used, shown, cut, early>>
    BY <1>3 DEF LookAtApprovals, Skip, Dispatch, QueueRetry, ManualRun, vars, ghosts
  <1>4. ASSUME NEW c \in Clients, NEW x \in Ids, Decide(c, x) PROVE Holding'
    <2>1. c \in Actors /\ Alone(c) /\ pc[c] = "idle" /\ pc'[c] = "fetch" /\ UNCHANGED <<redis, mem, used, shown, ghosts>>
      BY <1>4, ActorsApart, HasTypes DEF Decide, Goto, Alone
    <2>. QED
      BY <1>1, <2>1 DEF InOp, Written, HasCopy
  <1>5. ASSUME NEW c \in Clients, NEW r \in Runs, TriggerAsks(c, r) PROVE Holding'
    <2>1. c \in Actors /\ Alone(c) /\ pc[c] = "idle" /\ pc'[c] = "find" /\ UNCHANGED <<redis, mem, used, shown, ghosts>>
      BY <1>5, ActorsApart, HasTypes DEF TriggerAsks, Goto, Alone
    <2>. QED
      BY <1>1, <2>1 DEF InOp, Written, HasCopy
  <1>6. ASSUME NEW w \in Slots, NEW r \in Runs, Start(w, r) PROVE Holding'
    <2>1. w \in Actors /\ Alone(w) /\ pc[w] = "idle" /\ pc'[w] = "exec" /\ UNCHANGED <<redis, mem, used, shown, ghosts>>
      BY <1>6, ActorsApart, HasTypes DEF Start, Goto, Alone
    <2>. QED
      BY <1>1, <2>1 DEF InOp, Written, HasCopy
  <1>7. ASSUME NEW w \in Slots, Succeed(w) \/ Retry(w) PROVE Holding'
    <2>1. w \in Actors /\ Alone(w) /\ pc[w] \in {"exec", "retry"} /\ pc'[w] = "idle" /\ UNCHANGED <<redis, mem, used, shown, ghosts>>
      BY <1>7, ActorsApart, HasTypes DEF Succeed, Retry, Goto, Alone
    <2>. QED
      BY <1>1, <2>1 DEF InOp, Written, HasCopy
  <1>8. ASSUME NEW w \in Slots, NEW asks \in BOOLEAN, Fail(w, asks) PROVE Holding'
    <2>1. w \in Actors /\ Alone(w) /\ pc[w] = "exec" /\ pc'[w] \in {"find", "retry"} /\ UNCHANGED <<redis, mem, used, shown, ghosts>>
      BY <1>8, ActorsApart, HasTypes DEF Fail, Goto, Alone
    <2>. QED
      BY <1>1, <2>1 DEF InOp, Written, HasCopy
  <1>9. ASSUME NEW a \in Actors, \/ FindByRun(a) \/ LoadExisting(a)
                                 \/ SetRow(a) \/ SetRunIndex(a) \/ PushOrder(a) \/ TrimOrder(a) \/ HoldJob(a)
                                 \/ CreateInMemory(a)
        PROVE  Holding'
    BY <1>9, FindHolds, SetRowHolds, ListingHolds, HoldJobHolds, CreateInMemoryHolds
  <1>10. ASSUME NEW c \in Clients, FetchRow(c) \/ WriteDecision(c) \/ RewriteRunIndex(c) \/ ReleaseJob(c) \/ DecideInMemory(c)
         PROVE  Holding'
    BY <1>10, FetchRowHolds, WriteDecisionHolds, RewriteHolds, ReleaseHolds, DecideInMemoryHolds
  <1>11. ASSUME NEW p \in Processes, Crash(p) PROVE Holding'
    BY <1>11, CrashHolds
  <1>. QED
    BY NextCases, <1>2, <1>3, <1>4, <1>5, <1>6, <1>7, <1>8, <1>9, <1>10, <1>11

\* Whatever the requests, decisions, refused commands and crashes, an id is the
\* request of one run, and what holds a job is a request that is undecided, under
\* way, cut short or decided too early: the invariant the next theorem rests on.
THEOREM HoldingInvariant == Spec => [](Base /\ Holding)
  <1>1. Init => Base /\ Holding
    BY BaseInit, HoldingInit
  <1>2. Base /\ Holding /\ [Next]_vars => Base' /\ Holding'
    BY BaseStep, HoldingStep
  <1>. QED
    BY <1>1, <1>2, PTL DEF Spec

\* A job is held back by its undecided requests and by no others, apart from
\* those that an error, a crash or a decision that came too early has cut off.
THEOREM JobsWaitForRequests == Spec => []HoldsAreRequests
  <1>1. ASSUME Base, Holding PROVE HoldsAreRequests
    <2>1. TypeOK
      BY <1>1 DEF Base
    <2>2. \A x \in Ids : BeingCreated(x) \/ BeingReleased(x) => InProgress(x)
      <3>1. \A c \in Actors : pc[c] \in {"repoint", "release"} => c \in Clients
        BY <1>1, DeciderHas DEF HasCopy
      <3>. QED
        BY <3>1 DEF BeingCreated, BeingReleased, InProgress
    <2>3. HeldByUndecided
      <3> SUFFICES ASSUME NEW j \in Jobs, NEW x \in redis.pending[j]
                   PROVE  redis.row[x].status = "pending" \/ InProgress(x) \/ x \in cut \cup early
        BY DEF HeldByUndecided
      <3>1. x \in Ids /\ redis.row[x] \in Rows /\ redis.row[x].run \in Runs
        BY <1>1, HasTypes DEF Holding, PendingRow
      <3>2. redis.row[x].status \in {"pending", "decided"}
        BY <1>1, <3>1, ApprovalAssumption DEF Base, RowsFormed, Rows
      <3>. QED
        BY <1>1, <2>2, <3>1, <3>2 DEF Holding, DecisionReleases
    <2>4. UndecidedHolds
      BY <1>1, <2>2 DEF Holding, PendingHolds, UndecidedHolds
    <2>. QED
      BY <2>1, <2>3, <2>4 DEF HoldsAreRequests
  <1>. QED
    BY <1>1, HoldingInvariant, PTL

(***************************************************************************)
(* What a step does to the stores                                          *)
(***************************************************************************)

\* Redis changes by one command of one operation.
LEMMA RedisSteps ==
  ASSUME Base, [Next]_vars
  PROVE  \/ redis' = redis
         \/ \E a \in Actors, x \in Ids, r \in Runs :
              /\ x = id[a] /\ r = on[a]
              /\ \/ SetRow(a) /\ redis' = WithRow(redis, x, "pending", r)
                 \/ SetRunIndex(a) /\ redis' = WithIndex(redis, x, r)
                 \/ PushOrder(a) /\ redis' = Pushed(redis, x)
                 \/ TrimOrder(a) /\ redis' = Trimmed(redis)
                 \/ HoldJob(a) /\ redis' = Held(redis, x, r)
         \/ \E c \in Clients, x \in Ids, r \in Runs :
              /\ x = id[c] /\ r = copy[c].run
              /\ \/ WriteDecision(c) /\ redis' = WithRow(redis, x, "decided", r)
                 \/ RewriteRunIndex(c) /\ redis' = WithIndex(redis, x, r)
                 \/ ReleaseJob(c) /\ redis' = Released(redis, x, r)
  <1>1. ASSUME NEW a \in Actors, SetRow(a) \/ SetRunIndex(a) \/ PushOrder(a) \/ TrimOrder(a) \/ HoldJob(a)
        PROVE  \E x \in Ids, r \in Runs :
                 /\ x = id[a] /\ r = on[a]
                 /\ \/ SetRow(a) /\ redis' = WithRow(redis, x, "pending", r)
                    \/ SetRunIndex(a) /\ redis' = WithIndex(redis, x, r)
                    \/ PushOrder(a) /\ redis' = Pushed(redis, x)
                    \/ TrimOrder(a) /\ redis' = Trimmed(redis)
                    \/ HoldJob(a) /\ redis' = Held(redis, x, r)
    <2>1. Creating(a)
      BY <1>1 DEF Creating, SetRow, SetRunIndex, PushOrder, TrimOrder, HoldJob
    <2>2. PICK x \in Ids, r \in Runs : x = id[a] /\ r = on[a]
      BY <2>1, CreatorHas
    <2>. QED
      BY <1>1, <2>2 DEF SetRow, SetRunIndex, PushOrder, TrimOrder, HoldJob
  <1>2. ASSUME NEW c \in Clients, WriteDecision(c) \/ RewriteRunIndex(c) \/ ReleaseJob(c)
        PROVE  \E x \in Ids, r \in Runs :
                 /\ x = id[c] /\ r = copy[c].run
                 /\ \/ WriteDecision(c) /\ redis' = WithRow(redis, x, "decided", r)
                    \/ RewriteRunIndex(c) /\ redis' = WithIndex(redis, x, r)
                    \/ ReleaseJob(c) /\ redis' = Released(redis, x, r)
    <2>1. c \in Actors /\ pc[c] \in HasCopy
      BY <1>2, ActorsApart DEF HasCopy, WriteDecision, RewriteRunIndex, ReleaseJob
    <2>2. PICK x \in Ids, r \in Runs : x = id[c] /\ r = copy[c].run
      BY <2>1, DeciderHas
    <2>. QED
      BY <1>2, <2>2 DEF WriteDecision, RewriteRunIndex, ReleaseJob
  <1>3. \/ redis' = redis
        \/ \E a \in Actors : SetRow(a) \/ SetRunIndex(a) \/ PushOrder(a) \/ TrimOrder(a) \/ HoldJob(a)
        \/ \E c \in Clients : WriteDecision(c) \/ RewriteRunIndex(c) \/ ReleaseJob(c)
    BY NextCases DEF FindByRun, LoadExisting, CreateInMemory, Decide, FetchRow, DecideInMemory, TriggerAsks,
      LookAtApprovals, Skip, Dispatch, QueueRetry, ManualRun, Start, Succeed, Retry, Fail, Crash, vars
  <1>. QED
    BY <1>1, <1>2, <1>3

LEMMA RowSteps ==
  ASSUME Base, [Next]_vars, NEW y \in Ids
  PROVE  \/ redis'.row[y] = redis.row[y]
         \/ \E a \in Actors : SetRow(a) /\ y = id[a] /\ redis'.row[y].run = on[a] /\ on[a] \in Runs
         \/ \E c \in Clients : WriteDecision(c) /\ y = id[c] /\ redis'.row[y].run = copy[c].run /\ copy[c].run \in Runs
  <1>1. redis \in Store /\ redis.row \in [Ids -> Rows]
    BY HasTypes
  <1>2. ASSUME NEW x \in Ids, NEW r \in Runs, NEW st \in {"pending", "decided"}, redis' = WithRow(redis, x, st, r)
        PROVE  redis'.row[y] = redis.row[y] \/ (y = x /\ redis'.row[y].run = r)
    <2>1. redis'.row = [redis.row EXCEPT ![x] = [status |-> st, run |-> r]]
      BY <1>1, <1>2, RowWritten
    <2>. QED
      BY <1>1, <2>1
  <1>3. ASSUME NEW x \in Ids, NEW r \in Runs,
               redis' \in {WithIndex(redis, x, r), Pushed(redis, x), Trimmed(redis), Held(redis, x, r), Released(redis, x, r)}
        PROVE  redis'.row = redis.row
    <2>1. WithIndex(redis, x, r).row = redis.row
      BY <1>1, IndexWritten
    <2>2. Pushed(redis, x).row = redis.row /\ Trimmed(redis).row = redis.row
      BY <1>1, OrderPushed, OrderTrimmed
    <2>3. Held(redis, x, r).row = redis.row
      BY <1>1, JobHeld
    <2>4. Released(redis, x, r).row = redis.row
      BY <1>1, JobReleased
    <2>. QED
      BY <1>3, <2>1, <2>2, <2>3, <2>4
  <1>. QED
    BY RedisSteps, <1>2, <1>3

LEMMA IndexSteps ==
  ASSUME Base, [Next]_vars, NEW q \in Runs
  PROVE  \/ redis'.index[q] = redis.index[q]
         \/ \E a \in Actors : SetRunIndex(a) /\ q = on[a] /\ redis'.index[q] = id[a] /\ id[a] \in Ids
         \/ \E c \in Clients : RewriteRunIndex(c) /\ q = copy[c].run /\ redis'.index[q] = id[c] /\ id[c] \in Ids
  <1>1. redis \in Store /\ redis.index \in [Runs -> 0..MaxIds]
    BY HasTypes
  <1>2. ASSUME NEW x \in Ids, NEW r \in Runs, redis' = WithIndex(redis, x, r)
        PROVE  redis'.index[q] = redis.index[q] \/ (q = r /\ redis'.index[q] = x)
    <2>1. redis'.index = [redis.index EXCEPT ![r] = x]
      BY <1>1, <1>2, IndexWritten
    <2>. QED
      BY <1>1, <2>1
  <1>3. ASSUME NEW x \in Ids, NEW r \in Runs, NEW st \in {"pending", "decided"},
               redis' \in {WithRow(redis, x, st, r), Pushed(redis, x), Trimmed(redis), Held(redis, x, r), Released(redis, x, r)}
        PROVE  redis'.index = redis.index
    <2>1. WithRow(redis, x, st, r).index = redis.index
      BY <1>1 DEF WithRow, Store
    <2>2. Pushed(redis, x).index = redis.index /\ Trimmed(redis).index = redis.index
      BY <1>1, OrderPushed, OrderTrimmed
    <2>3. Held(redis, x, r).index = redis.index
      BY <1>1, JobHeld
    <2>4. Released(redis, x, r).index = redis.index
      BY <1>1, JobReleased
    <2>. QED
      BY <1>3, <2>1, <2>2, <2>3, <2>4
  <1>. QED
    BY RedisSteps, <1>2, <1>3

\* Nothing leaves the list that operators see while it is shorter than ApprovalMax.
LEMMA OrderSteps ==
  ASSUME Base, [Next]_vars
  PROVE  /\ Len(redis.order) >= ApprovalMax => Len(redis'.order) >= ApprovalMax
         /\ ToSet(redis.order) \subseteq ToSet(redis'.order) \/ Len(redis'.order) >= ApprovalMax
         /\ \A a \in Actors : PushOrder(a) => id[a] \in ToSet(redis'.order)
  <1>1. redis \in Store /\ redis.order \in Seq(Ids) /\ ApprovalMax \in Nat
    BY HasTypes, StoreFields, ApprovalAssumption
  <1>2. ASSUME NEW x \in Ids, redis' = Pushed(redis, x)
        PROVE  Len(redis'.order) = Len(redis.order) + 1 /\ ToSet(redis'.order) = ToSet(redis.order) \cup {x}
    <2>1. redis'.order = <<x>> \o redis.order
      BY <1>1, <1>2, OrderPushed
    <2>2. PICK s \in Seq(Ids) : s = redis.order
      BY <1>1
    <2>3. PICK t \in Seq(Ids) : t = redis'.order
      BY <1>1, <1>2, OrderPushed, StoreFields
    <2>4. t = <<x>> \o s
      BY <2>1, <2>2, <2>3
    <2>5. /\ Len(t) = Len(s) + 1 /\ t[1] = x /\ \A i \in 1..Len(s) : t[i + 1] = s[i]
          /\ DOMAIN t = 1..(Len(s) + 1) /\ DOMAIN s = 1..Len(s) /\ Len(s) \in Nat
      BY <2>4
    <2>6. ASSUME NEW i \in DOMAIN s PROVE i + 1 \in DOMAIN t /\ t[i + 1] = s[i]
      BY <2>5
    <2>7. ASSUME NEW i \in DOMAIN t PROVE t[i] = x \/ (i - 1 \in DOMAIN s /\ t[i] = s[i - 1])
      <3>1. CASE i = 1
        BY <2>5, <3>1
      <3>2. CASE i # 1
        <4>1. i - 1 \in 1..Len(s) /\ (i - 1) + 1 = i
          BY <2>5, <3>2
        <4>. QED
          BY <2>5, <4>1
      <3>. QED
        BY <3>1, <3>2
    <2>8. ToSet(t) = ToSet(s) \cup {x}
      <3>1. x \in ToSet(t)
        BY <2>5 DEF ToSet
      <3>2. ToSet(s) \subseteq ToSet(t)
        BY <2>6 DEF ToSet
      <3>3. ToSet(t) \subseteq ToSet(s) \cup {x}
        BY <2>7 DEF ToSet
      <3>. QED
        BY <3>1, <3>2, <3>3
    <2>. QED
      BY <2>2, <2>3, <2>5, <2>8
  <1>3. ASSUME redis' = Trimmed(redis)
        PROVE  redis'.order = redis.order \/ (Len(redis.order) > ApprovalMax /\ Len(redis'.order) = ApprovalMax)
    <2>1. redis'.order = IF Len(redis.order) <= ApprovalMax THEN redis.order ELSE SubSeq(redis.order, 1, ApprovalMax)
      BY <1>1, <1>3, OrderTrimmed
    <2>2. PICK s \in Seq(Ids) : s = redis.order
      BY <1>1
    <2>3. Len(s) > ApprovalMax => Len(SubSeq(s, 1, ApprovalMax)) = ApprovalMax
      BY <1>1, ApprovalAssumption
    <2>4. Len(s) \in Nat
      OBVIOUS
    <2>. QED
      BY <1>1, <2>1, <2>2, <2>3, <2>4
  <1>4. ASSUME NEW x \in Ids, NEW r \in Runs, NEW st \in {"pending", "decided"},
               redis' \in {WithRow(redis, x, st, r), WithIndex(redis, x, r), Held(redis, x, r), Released(redis, x, r)}
        PROVE  redis'.order = redis.order
    <2>1. WithRow(redis, x, st, r).order = redis.order
      BY <1>1 DEF WithRow, Store
    <2>2. WithIndex(redis, x, r).order = redis.order
      BY <1>1, IndexWritten
    <2>3. Held(redis, x, r).order = redis.order
      BY <1>1, JobHeld
    <2>4. Released(redis, x, r).order = redis.order
      BY <1>1, JobReleased
    <2>. QED
      BY <1>4, <2>1, <2>2, <2>3, <2>4
  <1>5. Len(redis.order) \in Nat
    BY <1>1
  <1>6. \/ redis'.order = redis.order
        \/ \E x \in Ids : redis' = Pushed(redis, x)
        \/ redis' = Trimmed(redis)
    BY RedisSteps, <1>4
  <1>7. /\ Len(redis.order) >= ApprovalMax => Len(redis'.order) >= ApprovalMax
        /\ ToSet(redis.order) \subseteq ToSet(redis'.order) \/ Len(redis'.order) >= ApprovalMax
    <2>1. CASE redis'.order = redis.order
      BY <2>1
    <2>2. CASE \E x \in Ids : redis' = Pushed(redis, x)
      BY <1>1, <1>2, <1>5, <2>2
    <2>3. CASE redis' = Trimmed(redis)
      BY <1>1, <1>3, <1>5, <2>3
    <2>. QED
      BY <1>6, <2>1, <2>2, <2>3
  <1>8. ASSUME NEW a \in Actors, PushOrder(a) PROVE id[a] \in ToSet(redis'.order)
    <2>1. id[a] \in Ids /\ redis' = Pushed(redis, id[a])
      BY <1>8, CreatorHas DEF PushOrder, Creating
    <2>. QED
      BY <1>2, <2>1
  <1>. QED
    BY <1>7, <1>8

\* What one operation or one crash writes to the memory of a process.
Wrote(p, x, r) ==
  /\ x \in Ids /\ r \in Runs
  /\ mem'[p].row[x].run = r /\ \A y \in Ids \ {x} : mem'[p].row[y] = mem[p].row[y]
  /\ mem'[p].index[r] = x /\ \A q \in Runs \ {r} : mem'[p].index[q] = mem[p].index[q]

LEMMA MemorySteps ==
  ASSUME Base, [Next]_vars, NEW p \in Processes
  PROVE  \/ mem'[p] = mem[p]
         \/ Crash(p) /\ mem'[p] = Empty
         \/ \E a \in Actors : CreateInMemory(a) /\ p = Proc(a) /\ Wrote(p, id[a], on[a])
         \/ \E c \in Clients : DecideInMemory(c) /\ p = "api" /\ Wrote(p, id[c], copy[c].run)
  <1>1. ASSUME NEW a \in Actors, CreateInMemory(a) PROVE mem'[p] = mem[p] \/ (p = Proc(a) /\ Wrote(p, id[a], on[a]))
    <2>1. PICK x \in Ids, r \in Runs : x = id[a] /\ r = on[a]
      BY <1>1, CreatorHas DEF CreateInMemory
    <2>2. PICK s \in Store : s = mem[p]
      BY HasTypes
    <2>3. PICK t \in Store :
            /\ t = CreatedIn(s, x, r) /\ t.row[x].run = r
            /\ \A y \in Ids \ {x} : t.row[y] = s.row[y]
            /\ t.index[r] = x /\ \A q \in Runs \ {r} : t.index[q] = s.index[q]
      BY MemoryCreates
    <2>4. mem' = [mem EXCEPT ![Proc(a)] = CreatedIn(mem[Proc(a)], id[a], on[a])]
      BY <1>1, Zenon DEF CreateInMemory, CreatedIn
    <2>5. CASE p = Proc(a)
      <3>1. mem'[p] = t
        BY <2>1, <2>2, <2>3, <2>4, <2>5, HasTypes
      <3>. QED
        BY <2>1, <2>2, <2>3, <2>5, <3>1 DEF Wrote
    <2>6. CASE p # Proc(a)
      BY <2>4, <2>6, HasTypes
    <2>. QED
      BY <2>5, <2>6
  <1>2. ASSUME NEW c \in Clients, DecideInMemory(c) PROVE mem'[p] = mem[p] \/ (p = "api" /\ Wrote(p, id[c], copy[c].run))
    <2>1. PICK x \in Ids, r \in Runs, first \in BOOLEAN : x = id[c] /\ r = copy[c].run /\ first = (copy[c].status = "pending")
      BY <1>2, ActorsApart, DeciderHas DEF DecideInMemory, HasCopy
    <2>2. PICK s \in Store : s = mem[p]
      BY HasTypes
    <2>3. PICK t \in Store :
            /\ t = DecidedIn(s, x, r, first) /\ t.row[x].run = r
            /\ \A y \in Ids \ {x} : t.row[y] = s.row[y]
            /\ t.index[r] = x /\ \A q \in Runs \ {r} : t.index[q] = s.index[q]
      BY MemoryDecides
    <2>4. mem' = [mem EXCEPT !["api"] = DecidedIn(mem["api"], id[c], copy[c].run, copy[c].status = "pending")]
      BY <1>2, Zenon DEF DecideInMemory, DecidedIn
    <2>5. CASE p = "api"
      <3>1. mem'[p] = t
        BY <2>1, <2>2, <2>3, <2>4, <2>5, HasTypes
      <3>. QED
        BY <2>1, <2>2, <2>3, <2>5, <3>1 DEF Wrote
    <2>6. CASE p # "api"
      BY <2>4, <2>6, HasTypes
    <2>. QED
      BY <2>5, <2>6
  <1>3. ASSUME NEW o \in Processes, Crash(o) PROVE mem'[p] = mem[p] \/ (Crash(p) /\ mem'[p] = Empty)
    <2>1. mem' = [mem EXCEPT ![o] = Empty]
      BY <1>3 DEF Crash
    <2>. QED
      BY <1>3, <2>1, HasTypes
  <1>4. \/ mem' = mem
        \/ \E a \in Actors : CreateInMemory(a)
        \/ \E c \in Clients : DecideInMemory(c)
        \/ \E o \in Processes : Crash(o)
    BY NextCases DEF FindByRun, LoadExisting, SetRow, SetRunIndex, PushOrder, TrimOrder, HoldJob, Decide, FetchRow,
      WriteDecision, RewriteRunIndex, ReleaseJob, TriggerAsks,
      LookAtApprovals, Skip, Dispatch, QueueRetry, ManualRun, Start, Succeed, Retry, Fail, vars
  <1>. QED
    BY <1>1, <1>2, <1>3, <1>4

\* A row keeps its run: in Redis for good, in a memory until the process dies.
LEMMA RunKept ==
  ASSUME Base, Holding, [Next]_vars, NEW x \in Ids, NEW r \in Runs
  PROVE  /\ redis.row[x].run = r => redis'.row[x].run = r
         /\ \A p \in Processes : mem[p].row[x].run = r => mem'[p].row[x].run = r \/ Crash(p)
  <1>1. ASSUME redis.row[x].run = r PROVE redis'.row[x].run = r
    <2>1. Claim(x, r)
      BY <1>1 DEF Claim
    <2>2. ASSUME NEW a \in Actors, SetRow(a), x = id[a] PROVE FALSE
      <3>1. redis.row[x].status = "none"
        BY <2>2 DEF SetRow, Holding, Fresh
      <3>. QED
        BY <1>1, <3>1, ApprovalAssumption DEF Base, RowsFormed
    <2>3. ASSUME NEW c \in Clients, WriteDecision(c), x = id[c], copy[c].run \in Runs PROVE copy[c].run = r
      <3>1. Claim(x, copy[c].run)
        BY <2>3, ActorsApart DEF Claim, WriteDecision, HasCopy
      <3>. QED
        BY <2>1, <2>3, <3>1 DEF Holding, OneOwner
    <2>. QED
      BY <1>1, <2>2, <2>3, RowSteps
  <1>2. ASSUME NEW p \in Processes, mem[p].row[x].run = r PROVE mem'[p].row[x].run = r \/ Crash(p)
    <2>1. Claim(x, r)
      BY <1>2 DEF Claim
    <2>2. ASSUME NEW a \in Actors, CreateInMemory(a), Wrote(p, id[a], on[a]) PROVE mem'[p].row[x].run = r
      <3>1. Claim(id[a], on[a])
        BY <2>2 DEF CreateInMemory, Creating, Claim, Written
      <3>. QED
        BY <1>2, <2>1, <2>2, <3>1 DEF Holding, OneOwner, Wrote
    <2>3. ASSUME NEW c \in Clients, DecideInMemory(c), Wrote(p, id[c], copy[c].run) PROVE mem'[p].row[x].run = r
      <3>1. Claim(id[c], copy[c].run)
        BY <2>3, ActorsApart DEF DecideInMemory, Claim, HasCopy
      <3>. QED
        BY <1>2, <2>1, <2>3, <3>1 DEF Holding, OneOwner, Wrote
    <2>. QED
      BY <1>2, <2>2, <2>3, MemorySteps
  <1>. QED
    BY <1>1, <1>2

(***************************************************************************)
(* What a step does to an actor                                            *)
(***************************************************************************)

\* An actor changes in its own steps, and when its process dies.
LEMMA OwnSteps ==
  ASSUME Base, [Next]_vars, NEW b \in Actors
  PROVE  \/ SameActor(b)
         \/ FindByRun(b) \/ LoadExisting(b) \/ SetRow(b) \/ SetRunIndex(b) \/ PushOrder(b) \/ TrimOrder(b) \/ HoldJob(b)
         \/ CreateInMemory(b)
         \/ \E x \in Ids : Decide(b, x)
         \/ FetchRow(b) \/ WriteDecision(b) \/ RewriteRunIndex(b) \/ ReleaseJob(b) \/ DecideInMemory(b)
         \/ \E r \in Runs : TriggerAsks(b, r) \/ Start(b, r)
         \/ Succeed(b) \/ Retry(b)
         \/ \E asks \in BOOLEAN : Fail(b, asks)
         \/ Crash(Proc(b))
  <1>1. /\ pc \in [Actors -> Pcs] /\ on \in [Actors -> Runs \cup {None}]
        /\ id \in [Actors -> 0..MaxIds] /\ copy \in [Actors -> Rows]
    BY HasTypes
  <1>2. ASSUME NEW a \in Actors, FindByRun(a) \/ LoadExisting(a) PROVE b = a \/ SameActor(b)
    BY <1>1, <1>2 DEF FindByRun, LoadExisting, Found, NewId, Leave, Goto, SameActor
  <1>3. ASSUME NEW a \in Actors, SetRow(a) \/ SetRunIndex(a) \/ PushOrder(a) \/ TrimOrder(a) \/ HoldJob(a) \/ CreateInMemory(a)
        PROVE  b = a \/ SameActor(b)
    <2>1. CASE Leave(a)
      BY <1>1, <2>1 DEF Leave, Goto, SameActor
    <2>2. CASE UNCHANGED <<on, id, copy>> /\ \E l \in Pcs : Goto(a, l)
      BY <1>1, <2>2 DEF Goto, SameActor
    <2>. QED
      BY <1>3, <2>1, <2>2 DEF SetRow, SetRunIndex, PushOrder, TrimOrder, HoldJob, CreateInMemory, Pcs
  <1>4. ASSUME NEW a \in Clients, \/ \E x \in Ids : Decide(a, x)
                                  \/ FetchRow(a) \/ WriteDecision(a) \/ RewriteRunIndex(a) \/ ReleaseJob(a) \/ DecideInMemory(a)
        PROVE  b = a \/ SameActor(b)
    <2>1. CASE Leave(a)
      BY <1>1, <2>1 DEF Leave, Goto, SameActor
    <2>2. CASE /\ on' = on /\ \E l \in Pcs : Goto(a, l)
               /\ id' = id \/ \E x \in Ids : id' = [id EXCEPT ![a] = x]
               /\ copy' = copy \/ \E row : copy' = [copy EXCEPT ![a] = row]
      BY <1>1, <2>2 DEF Goto, SameActor
    <2>. QED
      BY <1>4, <2>1, <2>2 DEF Decide, FetchRow, WriteDecision, RewriteRunIndex, AfterIndex, ReleaseJob, DecideInMemory, Pcs
  <1>5. ASSUME NEW a \in Actors, \/ \E r \in Runs : TriggerAsks(a, r) \/ Start(a, r)
                                 \/ Succeed(a) \/ Retry(a)
                                 \/ \E asks \in BOOLEAN : Fail(a, asks)
        PROVE  b = a \/ SameActor(b)
    BY <1>1, <1>5 DEF TriggerAsks, Start, Succeed, Retry, Fail, Goto, SameActor
  <1>6. ASSUME NEW p \in Processes, Crash(p) PROVE p = Proc(b) \/ SameActor(b)
    BY <1>6 DEF Crash, SameActor
  <1>7. ASSUME \/ \E j \in Jobs : LookAtApprovals(j)
               \/ Skip
               \/ \E r \in Runs : Dispatch(r) \/ QueueRetry(r) \/ ManualRun(r)
               \/ UNCHANGED vars
        PROVE  SameActor(b)
    BY <1>7 DEF LookAtApprovals, Skip, Dispatch, QueueRetry, ManualRun, vars, actor, SameActor
  <1>. QED
    BY NextCases, ActorsApart, <1>2, <1>3, <1>4, <1>5, <1>6, <1>7

\* Where each own step leaves its actor.
LEMMA PcSteps ==
  ASSUME Base, [Next]_vars, NEW b \in Actors
  PROVE  /\ FindByRun(b) => pc'[b] \in {"load", "set"} /\ on'[b] = on[b]
         /\ LoadExisting(b) => /\ pc'[b] = "set" => on'[b] = on[b]
                               /\ pc'[b] \in {"set", "idle", "retry"} /\ on'[b] \in {on[b], None}
                               /\ pc'[b] = "retry" => on'[b] = on[b]
         /\ SetRow(b) => pc'[b] = "point" /\ on'[b] = on[b] /\ id'[b] = id[b]
         /\ SetRunIndex(b) => pc'[b] = "push" /\ on'[b] = on[b] /\ id'[b] = id[b]
         /\ PushOrder(b) => pc'[b] = "trim" /\ on'[b] = on[b] /\ id'[b] = id[b]
         /\ TrimOrder(b) => pc'[b] = "hold" /\ on'[b] = on[b] /\ id'[b] = id[b]
         /\ HoldJob(b) \/ CreateInMemory(b) => /\ pc'[b] \in {"idle", "retry"} /\ on'[b] \in {on[b], None}
                                               /\ pc'[b] = "retry" => on'[b] = on[b]
         /\ (\E x \in Ids : Decide(b, x)) => pc'[b] = "fetch" /\ on'[b] = on[b]
         /\ FetchRow(b) => pc'[b] \in {"write", "idle"} /\ on'[b] = None
         /\ WriteDecision(b) => pc'[b] = "repoint" /\ on'[b] = on[b] /\ id'[b] = id[b] /\ copy'[b] = copy[b]
         /\ RewriteRunIndex(b) => /\ pc'[b] \in {"release", "idle"} /\ on'[b] = None
                                  /\ pc'[b] = "release" => id'[b] = id[b] /\ copy'[b] = copy[b]
         /\ ReleaseJob(b) \/ DecideInMemory(b) => pc'[b] = "idle" /\ on'[b] = None
         /\ \A r \in Runs : TriggerAsks(b, r) => pc'[b] = "find" /\ on'[b] = r
         /\ \A r \in Runs : Start(b, r) => pc'[b] = "exec" /\ on'[b] = r
         /\ Succeed(b) \/ Retry(b) => pc'[b] = "idle" /\ on'[b] = None
         /\ \A asks \in BOOLEAN : Fail(b, asks) => pc'[b] \in {"find", "retry"} /\ on'[b] = on[b]
         /\ Crash(Proc(b)) => pc'[b] = "idle" /\ on'[b] = None
  <1>1. /\ pc \in [Actors -> Pcs] /\ on \in [Actors -> Runs \cup {None}]
        /\ id \in [Actors -> 0..MaxIds] /\ copy \in [Actors -> Rows]
    BY HasTypes
  <1>2. ASSUME Leave(b)
        PROVE  /\ pc'[b] \in {"idle", "retry"} /\ on'[b] \in {on[b], None}
               /\ pc'[b] = "retry" => b \in Slots /\ on[b] # None /\ on'[b] = on[b]
    BY <1>2, Leaving DEF Base
  <1>3. FindByRun(b) => pc'[b] \in {"load", "set"} /\ on'[b] = on[b]
    BY <1>1 DEF FindByRun, Found, NewId, Goto
  <1>4. LoadExisting(b) => /\ pc'[b] = "set" => on'[b] = on[b]
                           /\ pc'[b] \in {"set", "idle", "retry"} /\ on'[b] \in {on[b], None}
                           /\ pc'[b] = "retry" => on'[b] = on[b]
    <2>1. ASSUME NewId(b), UNCHANGED on PROVE pc'[b] = "set" /\ on'[b] = on[b]
      BY <1>1, <2>1 DEF NewId, Goto
    <2>2. ASSUME LoadExisting(b) PROVE Leave(b) \/ (NewId(b) /\ UNCHANGED on)
      BY <2>2 DEF LoadExisting
    <2>. QED
      BY <1>2, <2>1, <2>2
  <1>5. /\ SetRow(b) => pc'[b] = "point" /\ on'[b] = on[b] /\ id'[b] = id[b]
        /\ SetRunIndex(b) => pc'[b] = "push" /\ on'[b] = on[b] /\ id'[b] = id[b]
        /\ PushOrder(b) => pc'[b] = "trim" /\ on'[b] = on[b] /\ id'[b] = id[b]
        /\ TrimOrder(b) => pc'[b] = "hold" /\ on'[b] = on[b] /\ id'[b] = id[b]
    BY <1>1 DEF SetRow, SetRunIndex, PushOrder, TrimOrder, Goto
  <1>6. HoldJob(b) \/ CreateInMemory(b) => /\ pc'[b] \in {"idle", "retry"} /\ on'[b] \in {on[b], None}
                                           /\ pc'[b] = "retry" => on'[b] = on[b]
    BY <1>2 DEF HoldJob, CreateInMemory
  <1>7. (\E x \in Ids : Decide(b, x)) => pc'[b] = "fetch" /\ on'[b] = on[b]
    BY <1>1 DEF Decide, Goto
  <1>8. pc[b] \in {"fetch"} \cup HasCopy => on[b] = None
    BY DEF Base, Working, Works, Asking, Written, HasCopy
  <1>9. FetchRow(b) => pc'[b] \in {"write", "idle"} /\ on'[b] = None
    <2>1. ASSUME Goto(b, "write"), UNCHANGED on PROVE pc'[b] = "write" /\ on'[b] = on[b]
      BY <1>1, <2>1 DEF Goto
    <2>2. ASSUME FetchRow(b) PROVE pc[b] = "fetch" /\ (Leave(b) \/ (Goto(b, "write") /\ UNCHANGED on))
      BY <2>2 DEF FetchRow
    <2>. QED
      BY <1>2, <1>8, <2>1, <2>2
  <1>10. WriteDecision(b) => pc'[b] = "repoint" /\ on'[b] = on[b] /\ id'[b] = id[b] /\ copy'[b] = copy[b]
    BY <1>1 DEF WriteDecision, Goto
  <1>11. RewriteRunIndex(b) => /\ pc'[b] \in {"release", "idle"} /\ on'[b] = None
                               /\ pc'[b] = "release" => id'[b] = id[b] /\ copy'[b] = copy[b]
    <2>1. ASSUME Goto(b, "release"), UNCHANGED <<on, id, copy>> PROVE pc'[b] = "release" /\ on'[b] = on[b] /\ id'[b] = id[b] /\ copy'[b] = copy[b]
      BY <1>1, <2>1 DEF Goto
    <2>2. ASSUME RewriteRunIndex(b) PROVE pc[b] \in HasCopy /\ (Leave(b) \/ (Goto(b, "release") /\ UNCHANGED <<on, id, copy>>))
      BY <2>2 DEF RewriteRunIndex, AfterIndex, HasCopy
    <2>. QED
      BY <1>2, <1>8, <2>1, <2>2
  <1>12. ReleaseJob(b) \/ DecideInMemory(b) => pc'[b] = "idle" /\ on'[b] = None
    BY <1>2, <1>8 DEF ReleaseJob, DecideInMemory, HasCopy
  <1>13. /\ \A r \in Runs : TriggerAsks(b, r) => pc'[b] = "find" /\ on'[b] = r
         /\ \A r \in Runs : Start(b, r) => pc'[b] = "exec" /\ on'[b] = r
         /\ Succeed(b) \/ Retry(b) => pc'[b] = "idle" /\ on'[b] = None
         /\ \A asks \in BOOLEAN : Fail(b, asks) => pc'[b] \in {"find", "retry"} /\ on'[b] = on[b]
    BY <1>1 DEF TriggerAsks, Start, Succeed, Retry, Fail, Goto
  <1>14. Crash(Proc(b)) => pc'[b] = "idle" /\ on'[b] = None
    BY DEF Crash
  <1>. QED
    BY <1>3, <1>4, <1>5, <1>6, <1>7, <1>9, <1>10, <1>11, <1>12, <1>13, <1>14

\* A run changes in the steps of the scheduler and of whoever works for it.
LEMMA RunSteps ==
  ASSUME Base, [Next]_vars, NEW r \in Runs
  PROVE  \/ run'[r] = run[r]
         \/ run[r] \in {"new", "delayed"} /\ run'[r] = "queued"
         \/ \E a \in Actors : TriggerAsks(a, r) /\ run[r] = "new" /\ run'[r] = "ended"
         \/ \E a \in Actors : Start(a, r) /\ run[r] = "queued" /\ run'[r] = "active"
         \/ \E a \in Actors : (\E asks \in BOOLEAN : Fail(a, asks)) /\ on[a] = r /\ run'[r] = "ended"
         \/ \E a \in Actors : Succeed(a) /\ on[a] = r
         \/ \E a \in Actors : Retry(a) /\ on[a] = r
  <1>1. run \in [Runs -> {"new", "queued", "active", "delayed", "ended"}] /\ on \in [Actors -> Runs \cup {None}]
    BY DEF Base, TypeOK
  <1>2. ASSUME NEW q \in Runs, Dispatch(q) \/ QueueRetry(q) \/ ManualRun(q)
        PROVE  run'[r] = run[r] \/ (run[r] \in {"new", "delayed"} /\ run'[r] = "queued")
    BY <1>1, <1>2 DEF Dispatch, QueueRetry, ManualRun
  <1>3. ASSUME NEW a \in Actors, NEW q \in Runs, TriggerAsks(a, q)
        PROVE  run'[r] = run[r] \/ (q = r /\ run[r] = "new" /\ run'[r] = "ended")
    BY <1>1, <1>3 DEF TriggerAsks
  <1>4. ASSUME NEW a \in Actors, NEW q \in Runs, Start(a, q)
        PROVE  run'[r] = run[r] \/ (q = r /\ run[r] = "queued" /\ run'[r] = "active")
    BY <1>1, <1>4 DEF Start
  <1>5. ASSUME NEW a \in Actors, NEW asks \in BOOLEAN, Fail(a, asks)
        PROVE  run'[r] = run[r] \/ (on[a] = r /\ run'[r] = "ended")
    BY <1>1, <1>5 DEF Fail
  <1>6. ASSUME NEW a \in Actors, Succeed(a) \/ Retry(a) PROVE run'[r] = run[r] \/ on[a] = r
    <2>1. run' = run \/ \E v \in {"ended", "new", "delayed"} : run' = [run EXCEPT ![on[a]] = v]
      BY <1>6 DEF Succeed, Retry
    <2>. QED
      BY <1>1, <2>1
  <1>7. \/ run' = run
        \/ \E q \in Runs : Dispatch(q) \/ QueueRetry(q) \/ ManualRun(q)
        \/ \E a \in Actors, q \in Runs : TriggerAsks(a, q) \/ Start(a, q)
        \/ \E a \in Actors, asks \in BOOLEAN : Fail(a, asks)
        \/ \E a \in Actors : Succeed(a) \/ Retry(a)
    BY NextCases, ActorsApart DEF FindByRun, LoadExisting, SetRow, SetRunIndex, PushOrder, TrimOrder, HoldJob, CreateInMemory, Decide, FetchRow,
      WriteDecision, RewriteRunIndex, ReleaseJob, DecideInMemory, LookAtApprovals, Skip, Crash, vars, runs
  <1>. QED
    BY <1>2, <1>3, <1>4, <1>5, <1>6, <1>7

\* Nobody else works for the run of an actor, and the run is where its work says.
LEMMA OneActorStep ==
  ASSUME Base, OneActor, [Next]_vars
  PROVE  OneActor'
  <1>1. \A a \in Actors : on[a] \in Runs => /\ pc[a] \in Asking \cup {"exec", "retry"}
                                            /\ run[on[a]] \in {"active", "ended"}
    BY ApprovalAssumption DEF Base, Working, Works, OneActor
  <1>2. \A a \in Actors : pc[a] \in Asking \cup {"exec", "retry"} => on[a] \in Runs
    BY DEF Base, Working, Works
  <1>3. ASSUME NEW a \in Actors, on'[a] \in Runs
        PROVE  on'[a] = on[a] \/ \E r \in Runs : on'[a] = r /\ (TriggerAsks(a, r) \/ Start(a, r))
    BY <1>3, OwnSteps, PcSteps, ApprovalAssumption DEF SameActor
  <1>4. ASSUME NEW a \in Actors, NEW r \in Runs, TriggerAsks(a, r) \/ Start(a, r)
        PROVE  run[r] \in {"new", "queued"} /\ \A b \in Actors \ {a} : on'[b] = on[b]
    BY <1>4, HasTypes DEF TriggerAsks, Start
  <1>5. ASSUME NEW a \in Actors, NEW b \in Actors, on'[a] \in Runs, on'[a] = on'[b] PROVE a = b
    <2>1. CASE on'[a] = on[a] /\ on'[b] = on[b]
      BY <1>5, <2>1 DEF OneActor
    <2>2. CASE \E r \in Runs : on'[a] = r /\ (TriggerAsks(a, r) \/ Start(a, r))
      <3>1. PICK r \in Runs : on'[a] = r /\ (TriggerAsks(a, r) \/ Start(a, r))
        BY <2>2
      <3>2. a # b => on[b] = r /\ run[r] \in {"new", "queued"}
        BY <1>4, <1>5, <3>1
      <3>. QED
        BY <1>1, <3>2
    <2>3. CASE \E r \in Runs : on'[b] = r /\ (TriggerAsks(b, r) \/ Start(b, r))
      BY <1>1, <1>4, <1>5, <2>3
    <2>. QED
      BY <1>3, <1>5, <2>1, <2>2, <2>3
  <1>6. ASSUME NEW a \in Actors, SameActor(a), pc[a] \in Asking \cup {"exec", "retry"} PROVE run'[on[a]] = run[on[a]]
    <2>1. PICK r \in Runs : r = on[a] /\ run[r] \in {"active", "ended"}
      BY <1>1, <1>2, <1>6
    <2>2. ASSUME NEW b \in Actors, on[b] = r PROVE b = a
      BY <2>1, <2>2 DEF OneActor
    <2>3. ~Succeed(a) /\ ~Retry(a) /\ \A asks \in BOOLEAN : ~Fail(a, asks)
      <3>1. Succeed(a) => pc[a] = "exec" /\ pc'[a] = "idle"
        BY PcSteps DEF Succeed
      <3>2. Retry(a) => pc[a] = "retry" /\ pc'[a] = "idle"
        BY PcSteps DEF Retry
      <3>3. \A asks \in BOOLEAN : Fail(a, asks) => pc[a] = "exec" /\ pc'[a] \in {"find", "retry"}
        BY PcSteps DEF Fail
      <3>. QED
        BY <1>6, <3>1, <3>2, <3>3 DEF SameActor
    <2>. QED
      BY <2>1, <2>2, <2>3, RunSteps
  <1>7. ASSUME NEW a \in Actors
        PROVE  /\ pc'[a] = "exec" => run'[on'[a]] = "active"
               /\ pc'[a] \in Asking \cup {"retry"} => run'[on'[a]] = "ended"
    <2>1. CASE SameActor(a)
      BY <1>6, <2>1 DEF OneActor, SameActor
    <2>2. CASE \/ FindByRun(a) \/ LoadExisting(a) \/ SetRow(a) \/ SetRunIndex(a) \/ PushOrder(a) \/ TrimOrder(a)
               \/ HoldJob(a) \/ CreateInMemory(a)
      <3>1. run' = run /\ pc[a] \in Asking
        BY <2>2 DEF FindByRun, LoadExisting, SetRow, SetRunIndex, PushOrder, TrimOrder, HoldJob, CreateInMemory, runs, Creating, Asking, Written
      <3>2. pc'[a] # "exec" /\ (pc'[a] = "idle" \/ on'[a] = on[a])
        BY <2>2, PcSteps
      <3>. QED
        BY <3>1, <3>2 DEF OneActor, Asking, Written
    <2>3. CASE \/ \E x \in Ids : Decide(a, x)
               \/ FetchRow(a) \/ WriteDecision(a) \/ RewriteRunIndex(a) \/ ReleaseJob(a) \/ DecideInMemory(a)
               \/ Succeed(a) \/ Retry(a) \/ Crash(Proc(a))
      <3>1. pc'[a] \in {"idle", "fetch"} \cup HasCopy
        BY <2>3, PcSteps DEF HasCopy
      <3>. QED
        BY <3>1 DEF Asking, Written, HasCopy
    <2>4. CASE \E r \in Runs : TriggerAsks(a, r)
      <3>1. PICK r \in Runs : TriggerAsks(a, r)
        BY <2>4
      <3>2. run'[r] = "ended" /\ pc'[a] = "find" /\ on'[a] = r
        BY <3>1, PcSteps DEF TriggerAsks, Base, TypeOK
      <3>. QED
        BY <3>2
    <2>5. CASE \E r \in Runs : Start(a, r)
      <3>1. PICK r \in Runs : Start(a, r)
        BY <2>5
      <3>2. run'[r] = "active" /\ pc'[a] = "exec" /\ on'[a] = r
        BY <3>1, PcSteps DEF Start, Base, TypeOK
      <3>. QED
        BY <3>2 DEF Asking, Written
    <2>6. CASE \E asks \in BOOLEAN : Fail(a, asks)
      <3>1. PICK asks \in BOOLEAN : Fail(a, asks)
        BY <2>6
      <3>2. pc[a] = "exec" /\ run' = [run EXCEPT ![on[a]] = "ended"]
        BY <3>1 DEF Fail
      <3>3. run'[on[a]] = "ended"
        BY <1>2, <3>2 DEF Base, TypeOK
      <3>4. pc'[a] \in {"find", "retry"} /\ on'[a] = on[a]
        BY <3>1, PcSteps
      <3>. QED
        BY <3>3, <3>4
    <2>. QED
      BY OwnSteps, <2>1, <2>2, <2>3, <2>4, <2>5, <2>6
  <1>. QED
    BY <1>5, <1>7 DEF OneActor

(***************************************************************************)
(* What the indexes and the actors point to                                *)
(***************************************************************************)

\* Who writes the index of a run has a request of that run in hand.
LEMMA IndexedStep ==
  ASSUME Base, Holding, IndexedRow, [Next]_vars
  PROVE  IndexedRow'
  <1>1. ASSUME NEW r \in Runs, redis'.index[r] # 0 PROVE redis'.row[redis'.index[r]].run = r
    <2>1. redis'.index[r] \in Ids /\ redis.row[redis'.index[r]].run = r
      <3>1. CASE redis'.index[r] = redis.index[r]
        BY <1>1, <3>1, HasTypes DEF IndexedRow, Ids
      <3>2. CASE \E a \in Actors : SetRunIndex(a) /\ r = on[a] /\ redis'.index[r] = id[a] /\ id[a] \in Ids
        BY <3>2 DEF SetRunIndex, Written, Holding, WrittenRow
      <3>3. CASE \E c \in Clients : RewriteRunIndex(c) /\ r = copy[c].run /\ redis'.index[r] = id[c] /\ id[c] \in Ids
        <4>1. PICK c \in Actors : pc[c] = "repoint" /\ r = copy[c].run /\ redis'.index[r] = id[c] /\ id[c] \in Ids
          BY <3>3, ActorsApart DEF RewriteRunIndex
        <4>2. redis.row[id[c]].run \in Runs
          BY <4>1, HasTypes DEF Holding, DecisionWritten, Base, RowsFormed, Rows
        <4>3. Claim(id[c], r)
          BY <4>1 DEF Claim, HasCopy
        <4>. QED
          BY <4>1, <4>2, <4>3 DEF Holding, OneOwner, Claim
      <3>. QED
        BY <3>1, <3>2, <3>3, IndexSteps
    <2>. QED
      BY <2>1, RunKept
  <1>2. ASSUME NEW p \in Processes, NEW r \in Runs, mem'[p].index[r] # 0 PROVE mem'[p].row[mem'[p].index[r]].run = r
    <2>1. CASE mem'[p] = mem[p]
      BY <1>2, <2>1 DEF IndexedRow
    <2>2. CASE mem'[p] = Empty
      BY <1>2, <2>2 DEF Empty
    <2>3. ASSUME NEW x \in Ids, NEW q \in Runs, Wrote(p, x, q), Claim(x, q) PROVE mem'[p].row[mem'[p].index[r]].run = r
      <3>1. CASE r = q
        BY <2>3, <3>1 DEF Wrote
      <3>2. CASE r # q
        <4>1. mem'[p].index[r] = mem[p].index[r] /\ mem[p].index[r] \in Ids /\ mem[p].row[mem[p].index[r]].run = r
          BY <1>2, <2>3, <3>2, HasTypes DEF Wrote, IndexedRow, Ids
        <4>2. mem[p].index[r] # x
          BY <2>3, <3>2, <4>1 DEF Holding, OneOwner, Claim
        <4>. QED
          BY <2>3, <4>1, <4>2 DEF Wrote
      <3>. QED
        BY <3>1, <3>2
    <2>4. CASE \E a \in Actors : CreateInMemory(a) /\ p = Proc(a) /\ Wrote(p, id[a], on[a])
      <3>1. PICK a \in Actors : CreateInMemory(a) /\ Wrote(p, id[a], on[a])
        BY <2>4
      <3>2. Claim(id[a], on[a]) /\ id[a] \in Ids /\ on[a] \in Runs
        BY <3>1 DEF CreateInMemory, Creating, Claim, Written, Wrote
      <3>. QED
        BY <2>3, <3>1, <3>2
    <2>5. CASE \E c \in Clients : DecideInMemory(c) /\ p = "api" /\ Wrote(p, id[c], copy[c].run)
      <3>1. PICK c \in Actors : DecideInMemory(c) /\ Wrote(p, id[c], copy[c].run)
        BY <2>5, ActorsApart
      <3>2. Claim(id[c], copy[c].run) /\ id[c] \in Ids /\ copy[c].run \in Runs
        BY <3>1 DEF DecideInMemory, HasCopy, Claim, Wrote
      <3>. QED
        BY <2>3, <3>1, <3>2
    <2>. QED
      BY <2>1, <2>2, <2>4, <2>5, MemorySteps
  <1>. QED
    BY <1>1, <1>2 DEF IndexedRow

\* The row that an index led to is there, in Redis or in the process's own
\* memory, which lives as long as the one who looks.
LEMMA LoadFindsStep ==
  ASSUME Base, Holding, IndexedRow, LoadFinds, [Next]_vars
  PROVE  LoadFinds'
  <1> SUFFICES ASSUME NEW a \in Actors, pc'[a] = "load"
               PROVE  {redis'.row[id'[a]].run, mem'[Proc(a)].row[id'[a]].run} \cap Runs # {}
    BY DEF LoadFinds, Proc
  <1>1. Proc(a) \in Processes /\ ~Crash(Proc(a))
    BY PcSteps DEF Proc, Processes
  <1>2. ASSUME NEW x \in Ids, {redis.row[x].run, mem[Proc(a)].row[x].run} \cap Runs # {}
        PROVE  {redis'.row[x].run, mem'[Proc(a)].row[x].run} \cap Runs # {}
    <2>1. PICK r \in Runs : redis.row[x].run = r \/ mem[Proc(a)].row[x].run = r
      BY <1>2
    <2>2. redis'.row[x].run = r \/ mem'[Proc(a)].row[x].run = r
      BY <1>1, <2>1, RunKept
    <2>. QED
      BY <2>2
  <1>3. CASE SameActor(a)
    <2>1. pc[a] = "load" /\ id'[a] = id[a] /\ id[a] \in Ids
      BY <1>3 DEF SameActor, Base, Working, Works
    <2>. QED
      BY <1>2, <2>1 DEF LoadFinds
  <1>4. CASE FindByRun(a)
    <2>1. on[a] \in Runs
      BY <1>4 DEF FindByRun, Base, Working, Works, Asking
    <2>2. PICK e \in {redis.index[on[a]], mem[Proc(a)].index[on[a]]} : Found(a, e)
      BY <1>4 DEF FindByRun
    <2>3. e # 0 /\ id'[a] = e
      BY <2>2, <1>4, HasTypes DEF Found, NewId, Goto
    <2>4. e \in Ids
      BY <1>1, <2>1, <2>3, HasTypes DEF Ids
    <2>5. {redis.row[e].run, mem[Proc(a)].row[e].run} \cap Runs # {}
      BY <1>1, <2>1, <2>2, <2>3 DEF IndexedRow
    <2>. QED
      BY <1>2, <2>3, <2>4, <2>5
  <1>5. SameActor(a) \/ FindByRun(a)
    BY OwnSteps, PcSteps
  <1>. QED
    BY <1>3, <1>4, <1>5

\* The row a decision has read is still there.
LEMMA CopyStandsStep ==
  ASSUME Base, Holding, CopyStands, [Next]_vars
  PROVE  CopyStands'
  <1> SUFFICES ASSUME NEW c \in Actors, pc'[c] \in HasCopy
               PROVE  copy'[c].run \in {redis'.row[id'[c]].run, mem'["api"].row[id'[c]].run}
    BY DEF CopyStands
  <1>1. "api" \in Processes
    BY DEF Processes
  <1>2. ~Crash(Proc(c))
    BY PcSteps DEF HasCopy
  <1>3. (SameActor(c) \/ WriteDecision(c) \/ RewriteRunIndex(c)) \/ FetchRow(c)
    BY OwnSteps, PcSteps DEF HasCopy
  <1>4. c \in Clients /\ Proc(c) = "api"
    BY <1>3, ActorsApart, NextCases DEF Proc, SameActor, WriteDecision, RewriteRunIndex, FetchRow, HasCopy, Base, Working, Works
  <1>5. ASSUME NEW x \in Ids, NEW r \in Runs, r \in {redis.row[x].run, mem["api"].row[x].run}
        PROVE  r \in {redis'.row[x].run, mem'["api"].row[x].run}
    BY <1>1, <1>2, <1>4, <1>5, RunKept
  <1>6. CASE SameActor(c) \/ WriteDecision(c) \/ RewriteRunIndex(c)
    <2>1. id'[c] = id[c] /\ copy'[c] = copy[c] /\ pc[c] \in HasCopy
      BY <1>6, PcSteps DEF SameActor, WriteDecision, RewriteRunIndex, HasCopy
    <2>2. id[c] \in Ids /\ copy[c].run \in Runs
      BY <2>1, DeciderHas
    <2>. QED
      BY <1>5, <2>1, <2>2 DEF CopyStands
  <1>7. CASE FetchRow(c)
    <2>1. /\ id[c] \in Ids /\ pc[c] = "fetch"
      BY <1>7, HasTypes DEF FetchRow, Base, Working, Works
    <2>2. PICK row \in {redis.row[id[c]], mem["api"].row[id[c]]} : row # NoRow /\ copy' = [copy EXCEPT ![c] = row] /\ id' = id
      <3>1. ~Leave(c)
        BY Leaving DEF Base, HasCopy
      <3>. QED
        BY <1>7, <3>1 DEF FetchRow, RowSeen
    <2>3. copy'[c] = row /\ id'[c] = id[c]
      BY <2>2, HasTypes
    <2>4. row.run \in Runs
      <3>1. row \in Rows /\ (row.run = None <=> row.status = "none")
        BY <1>1, <2>1, <2>2, HasTypes DEF Base, RowsFormed
      <3>2. row = [status |-> row.status, run |-> row.run]
        BY <3>1 DEF Rows
      <3>. QED
        BY <2>2, <3>1, <3>2 DEF Rows, NoRow
    <2>. QED
      BY <1>5, <2>1, <2>2, <2>3, <2>4
  <1>. QED
    BY <1>3, <1>6, <1>7

(***************************************************************************)
(* How many requests a run has                                             *)
(***************************************************************************)
LEMMA RequestsFinite ==
  ASSUME NEW r
  PROVE  IsFiniteSet(Requests(r)) /\ Cardinality(Requests(r)) \in Nat
  <1>1. Requests(r) \subseteq 1..MaxIds /\ IsFiniteSet(1..MaxIds)
    BY FS_Interval, ApprovalAssumption DEF Requests, Ids
  <1>. QED
    BY <1>1, FS_Subset, FS_CardinalityType

\* A run gets a request only from who creates one for it.
LEMMA RequestsGrow ==
  ASSUME Base, Holding, CopyStands, OneActor, [Next]_vars, NEW r \in Runs
  PROVE  \/ Requests(r)' \subseteq Requests(r)
         \/ \E a \in Actors : /\ on[a] = r /\ pc[a] = "set" /\ (SetRow(a) \/ CreateInMemory(a))
                              /\ Requests(r)' \subseteq Requests(r) \cup {id[a]}
  <1>1. ASSUME NEW x \in Requests(r)', x \notin Requests(r)
        PROVE  x \in Ids /\ \E a \in Actors : on[a] = r /\ x = id[a] /\ pc[a] = "set" /\ (SetRow(a) \/ CreateInMemory(a))
    <2>1. x \in Ids /\ redis.row[x].run # r /\ \A p \in Processes : mem[p].row[x].run # r
      BY <1>1 DEF Requests
    <2>2. redis'.row[x].run = r \/ \E p \in Processes : mem'[p].row[x].run = r
      BY <1>1 DEF Requests
    <2>3. ASSUME NEW c \in Clients, pc[c] \in HasCopy, x = id[c], copy[c].run = r PROVE FALSE
      BY <2>1, <2>3, ActorsApart DEF CopyStands, Processes
    <2>4. CASE redis'.row[x].run = r
      <3>1. CASE \E a \in Actors : SetRow(a) /\ x = id[a] /\ redis'.row[x].run = on[a] /\ on[a] \in Runs
        BY <2>1, <2>4, <3>1 DEF SetRow
      <3>2. CASE \E c \in Clients : WriteDecision(c) /\ x = id[c] /\ redis'.row[x].run = copy[c].run /\ copy[c].run \in Runs
        BY <2>3, <2>4, <3>2 DEF WriteDecision, HasCopy
      <3>. QED
        BY <2>1, <2>4, <3>1, <3>2, RowSteps
    <2>5. CASE \E p \in Processes : mem'[p].row[x].run = r
      <3>1. PICK p \in Processes : mem'[p].row[x].run = r
        BY <2>5
      <3>2. mem'[p] # mem[p] /\ mem'[p] # Empty
        BY <2>1, <3>1, ApprovalAssumption DEF Empty, NoRow
      <3>3. CASE \E a \in Actors : CreateInMemory(a) /\ p = Proc(a) /\ Wrote(p, id[a], on[a])
        <4>1. PICK a \in Actors : CreateInMemory(a) /\ Wrote(p, id[a], on[a])
          BY <3>3
        <4>2. x = id[a] /\ on[a] = r
          BY <2>1, <3>1, <4>1 DEF Wrote
        <4>3. pc[a] \notin Written
          BY <2>1, <4>2 DEF Holding, WrittenRow
        <4>4. pc[a] = "set"
          BY <4>1, <4>3 DEF CreateInMemory, Creating, Written
        <4>. QED
          BY <2>1, <4>1, <4>2, <4>4
      <3>4. CASE \E c \in Clients : DecideInMemory(c) /\ p = "api" /\ Wrote(p, id[c], copy[c].run)
        <4>1. PICK c \in Clients : DecideInMemory(c) /\ Wrote(p, id[c], copy[c].run)
          BY <3>4
        <4>2. x = id[c] /\ copy[c].run = r /\ pc[c] \in HasCopy
          BY <2>1, <3>1, <4>1 DEF Wrote, DecideInMemory, HasCopy
        <4>. QED
          BY <2>3, <4>2
      <3>. QED
        BY <3>2, <3>3, <3>4, MemorySteps
    <2>. QED
      BY <2>2, <2>4, <2>5
  <1>2. CASE Requests(r)' \subseteq Requests(r)
    BY <1>2
  <1>3. CASE \E x : x \in Requests(r)' /\ x \notin Requests(r)
    <2>1. PICK x : x \in Requests(r)' /\ x \notin Requests(r)
      BY <1>3
    <2>2. PICK a \in Actors : on[a] = r /\ x = id[a] /\ pc[a] = "set" /\ (SetRow(a) \/ CreateInMemory(a))
      BY <1>1, <2>1
    <2>3. ASSUME NEW y \in Requests(r)', y \notin Requests(r) PROVE y = id[a]
      <3>1. PICK b \in Actors : on[b] = r /\ y = id[b]
        BY <1>1, <2>3
      <3>. QED
        BY <2>2, <3>1 DEF OneActor
    <2>. QED
      BY <2>2, <2>3
  <1>. QED
    BY <1>2, <1>3

\* What a refused command costs.
LEMMA RefusedCosts ==
  ASSUME Base, NEW a \in Actors, CreateInMemory(a)
  PROVE  errors' = errors + 1
  BY DEF CreateInMemory, Refused

LEMMA IndexStays ==
  ASSUME Base, [Next]_vars, NEW r \in Runs, redis'.index[r] = 0
  PROVE  redis.index[r] = 0
  BY IndexSteps, HasTypes

LEMMA RequestsPaidStep ==
  ASSUME Base, Holding, CopyStands, OneActor, OneActor', LoadFinds, RowsListed, RequestsPaid, [Next]_vars
  PROVE  RequestsPaid'
  <1>1. errors \in Nat /\ errors' \in Nat /\ errors <= errors'
    BY ErrorsGrow
  <1>2. \A r \in Runs : Count(r) \in Nat /\ Count(r)' \in Nat
    <2>1. ASSUME NEW r \in Runs PROVE Count(r)' \in Nat
      <3>1. Requests(r)' \subseteq 1..MaxIds /\ IsFiniteSet(1..MaxIds)
        BY FS_Interval, ApprovalAssumption DEF Requests, Ids
      <3>. QED
        BY <3>1, FS_Subset, FS_CardinalityType DEF Count
    <2>. QED
      BY <2>1, RequestsFinite DEF Count
  <1>3. ASSUME NEW r \in Runs, Requests(r)' \subseteq Requests(r) PROVE Count(r)' <= Count(r)
    BY <1>3, RequestsFinite, FS_Subset DEF Count
  <1>4. ASSUME NEW r \in Runs, NEW x, Requests(r)' \subseteq Requests(r) \cup {x}
        PROVE  Count(r)' <= Count(r) + 1
    <2>1. PICK S : S = Requests(r)
      OBVIOUS
    <2>2. PICK T : T = Requests(r)'
      OBVIOUS
    <2>3. IsFiniteSet(S) /\ Cardinality(S) \in Nat
      BY <2>1, RequestsFinite
    <2>4. IsFiniteSet(S \cup {x}) /\ (Cardinality(S \cup {x}) = Cardinality(S) \/ Cardinality(S \cup {x}) = Cardinality(S) + 1)
      BY <2>3, FS_AddElement
    <2>5. Cardinality(T) <= Cardinality(S \cup {x}) /\ Cardinality(T) \in Nat
      <3>1. T \subseteq S \cup {x}
        BY <1>4, <2>1, <2>2
      <3>. QED
        BY <2>4, <3>1, FS_Subset, FS_CardinalityType
    <2>6. Cardinality(T) <= Cardinality(S) + 1
      BY <2>3, <2>4, <2>5
    <2>. QED
      BY <2>1, <2>2, <2>6 DEF Count
  \* At most one more, and if so, all there were have been paid for.
  <1>5. ASSUME NEW r \in Runs
        PROVE  \/ Count(r)' <= Count(r)
               \/ /\ \E a \in Actors : on[a] = r /\ pc[a] = "set" /\ (SetRow(a) \/ CreateInMemory(a))
                  /\ Count(r) <= errors
                  /\ Count(r)' <= Count(r) + 1
    <2>1. CASE Requests(r)' \subseteq Requests(r)
      BY <1>3, <2>1
    <2>2. CASE \E a \in Actors : /\ on[a] = r /\ pc[a] = "set" /\ (SetRow(a) \/ CreateInMemory(a))
                                 /\ Requests(r)' \subseteq Requests(r) \cup {id[a]}
      <3>1. PICK a \in Actors : /\ on[a] = r /\ pc[a] = "set" /\ (SetRow(a) \/ CreateInMemory(a))
                                /\ Requests(r)' \subseteq Requests(r) \cup {id[a]}
        BY <2>2
      <3>2. Count(r) <= errors
        BY <3>1 DEF RequestsPaid
      <3>. QED
        BY <1>4, <3>1, <3>2
    <2>. QED
      BY <2>1, <2>2, RequestsGrow
  <1>6. ASSUME NEW r \in Runs PROVE Count(r)' <= 1 + errors'
    BY <1>1, <1>2, <1>5 DEF RequestsPaid
  <1>7. ASSUME NEW a \in Actors, NEW r \in Runs, pc'[a] = "set", on'[a] = r PROVE Count(r)' <= errors'
    <2>1. SameActor(a) \/ FindByRun(a) \/ LoadExisting(a)
      BY <1>7, OwnSteps, PcSteps
    <2>2. on[a] = r
      <3>1. CASE SameActor(a)
        BY <1>7, <3>1 DEF SameActor
      <3>2. CASE FindByRun(a) \/ LoadExisting(a)
        BY <1>7, <3>2, PcSteps
      <3>. QED
        BY <2>1, <3>1, <3>2
    \* No growth: the only actor on the run is a, and a writes nothing now.
    <2>4. Count(r)' <= Count(r)
      <3>1. ASSUME NEW b \in Actors, on[b] = r, SetRow(b) \/ CreateInMemory(b) PROVE FALSE
        <4>1. b = a
          BY <2>2, <3>1 DEF OneActor
        <4>. QED
          BY <1>7, <3>1, <4>1, PcSteps
      <3>. QED
        BY <1>5, <3>1
    <2>5. CASE SameActor(a)
      <3>1. Count(r) <= errors
        BY <1>7, <2>2, <2>5 DEF SameActor, RequestsPaid
      <3>. QED
        BY <1>1, <1>2, <2>2, <2>4, <3>1
    <2>6. CASE errors' = errors + 1
      <3>1. Count(r) <= 1 + errors
        BY DEF RequestsPaid
      <3>2. Count(r)' \in Nat /\ Count(r) \in Nat
        BY <1>2
      <3>. QED
        BY <1>1, <2>2, <2>4, <2>6, <3>1, <3>2
    <2>7. CASE FindByRun(a) /\ errors' # errors + 1
      <3>1. Found(a, redis.index[r]) /\ pc[a] = "find"
        BY <2>2, <2>7 DEF FindByRun, Refused
      <3>2. redis.index[r] = 0
        BY <1>7, <3>1, HasTypes DEF Found, Goto
      <3>3. MayAsk(r)
        BY <2>2, <3>1 DEF MayAsk
      <3>4. Count(r) <= errors
        BY <3>2, <3>3 DEF RequestsPaid
      <3>. QED
        BY <1>1, <1>2, <2>2, <2>4, <3>4
    <2>8. CASE LoadExisting(a) /\ errors' # errors + 1
      <3>1. pc[a] = "load" /\ id[a] \in Ids /\ Proc(a) \in Processes
        BY <2>8 DEF LoadExisting, Base, Working, Works, Proc, Processes
      <3>2. RowSeen(Proc(a), id[a]) # NoRow
        BY <3>1, ApprovalAssumption DEF LoadFinds, RowSeen, NoRow
      <3>3. Leave(a)
        BY <2>8, <3>2 DEF LoadExisting, Refused
      <3>4. pc'[a] \in {"idle", "retry"}
        BY <3>3, Leaving DEF Base
      <3>. QED
        BY <1>7, <3>4
    <2>. QED
      BY <2>1, <2>5, <2>6, <2>7, <2>8
  <1>8. ASSUME NEW r \in Runs, MayAsk(r)', redis'.index[r] = 0 PROVE Count(r)' <= errors'
    <2>1. redis.index[r] = 0
      BY <1>8, IndexStays
    <2>2. ASSUME NEW a \in Actors, on[a] = r, CreateInMemory(a) PROVE Count(r)' <= errors'
      <3>1. errors' = errors + 1
        BY <2>2, RefusedCosts
      <3>2. Count(r) <= 1 + errors
        BY DEF RequestsPaid
      <3>. QED
        BY <1>1, <1>2, <1>5, <3>1, <3>2
    <2>3. ASSUME ~\E a \in Actors : on[a] = r /\ CreateInMemory(a) PROVE MayAsk(r) /\ ~\E a \in Actors : on[a] = r /\ SetRow(a)
      <3>1. ASSUME NEW a \in Actors, on[a] = r, SetRow(a) PROVE FALSE
        <4>1. pc'[a] = "point" /\ on'[a] = r
          BY <3>1, PcSteps
        <4>2. run'[r] = "ended"
          BY <4>1 DEF OneActor, Asking, Written
        <4>3. PICK b \in Actors : on'[b] = r /\ pc'[b] \in {"retry", "find", "load"}
          BY <1>8, <4>2 DEF MayAsk
        <4>4. a = b
          BY <4>1, <4>3 DEF OneActor
        <4>. QED
          BY <4>1, <4>3, <4>4
      <3>2. ASSUME run'[r] # "ended" PROVE MayAsk(r)
        <4>1. CASE run[r] # "ended"
          BY <4>1 DEF MayAsk
        <4>2. CASE \E a \in Actors : Succeed(a) /\ on[a] = r
          <5>1. PICK a \in Actors : pc[a] = "exec" /\ on[a] = r
            BY <4>2 DEF Succeed
          <5>. QED
            BY <5>1 DEF OneActor, MayAsk
        <4>3. CASE \E a \in Actors : Retry(a) /\ on[a] = r
          BY <4>3 DEF Retry, MayAsk
        <4>. QED
          BY <3>2, <4>1, <4>2, <4>3, RunSteps
      <3>3. ASSUME NEW a \in Actors, on'[a] = r, pc'[a] \in {"retry", "find", "load"} PROVE MayAsk(r)
        <4>1. CASE SameActor(a)
          BY <3>3, <4>1 DEF SameActor, MayAsk
        <4>2. CASE FindByRun(a) \/ LoadExisting(a)
          <5>1. pc[a] \in {"find", "load"} /\ on[a] = r
            BY <3>3, <4>2, PcSteps DEF FindByRun, LoadExisting
          <5>. QED
            BY <5>1 DEF MayAsk
        <4>3. CASE HoldJob(a) \/ CreateInMemory(a)
          <5>1. on[a] = r
            BY <3>3, <4>3, PcSteps
          <5>2. HoldJob(a) /\ pc[a] = "hold"
            BY <2>3, <4>3, <5>1 DEF HoldJob
          <5>. QED
            BY <2>1, <5>1, <5>2 DEF RowsListed
        <4>4. CASE \E q \in Runs : TriggerAsks(a, q) \/ Start(a, q)
          <5>1. PICK q \in Runs : TriggerAsks(a, q) \/ Start(a, q)
            BY <4>4
          <5>2. q = r
            BY <3>3, <5>1, PcSteps
          <5>. QED
            BY <5>1, <5>2 DEF TriggerAsks, Start, MayAsk
        <4>5. CASE \E asks \in BOOLEAN : Fail(a, asks)
          <5>1. pc[a] = "exec" /\ on[a] = r
            BY <3>3, <4>5, PcSteps DEF Fail
          <5>. QED
            BY <5>1 DEF OneActor, MayAsk
        <4>. QED
          BY <3>3, <4>1, <4>2, <4>3, <4>4, <4>5, OwnSteps, PcSteps DEF HasCopy
      <3>. QED
        BY <1>8, <3>1, <3>2, <3>3 DEF MayAsk
    <2>4. CASE \E a \in Actors : on[a] = r /\ CreateInMemory(a)
      BY <2>2, <2>4
    <2>5. CASE ~\E a \in Actors : on[a] = r /\ CreateInMemory(a)
      <3>1. Count(r) <= errors
        BY <2>1, <2>3, <2>5 DEF RequestsPaid
      <3>2. Count(r)' <= Count(r)
        BY <1>5, <2>3, <2>5
      <3>. QED
        BY <1>1, <1>2, <3>1, <3>2
    <2>. QED
      BY <2>4, <2>5
  <1>. QED
    BY <1>6, <1>7, <1>8 DEF RequestsPaid

(***************************************************************************)
(* What operators can see                                                  *)
(***************************************************************************)

\* The history of cut requests grows, and who asks is answered in two places.
LEMMA HistorySteps ==
  ASSUME [Next]_vars
  PROVE  /\ cut \subseteq cut'
         /\ \/ answered' = answered
            \/ \E a \in Actors : /\ HoldJob(a) \/ (LoadExisting(a) /\ redis.row[id[a]] # NoRow)
                                 /\ answered' = answered \cup {on[a]}
  <1>1. CASE UNCHANGED <<cut, answered>>
    BY <1>1
  <1>2. ASSUME NEW a \in Actors, CreateInMemory(a) PROVE cut \subseteq cut' /\ answered' = answered
    BY <1>2 DEF CreateInMemory
  <1>3. ASSUME NEW c \in Clients, DecideInMemory(c) PROVE cut \subseteq cut' /\ answered' = answered
    BY <1>3 DEF DecideInMemory
  <1>4. ASSUME NEW p \in Processes, Crash(p) PROVE cut \subseteq cut' /\ answered' = answered
    BY <1>4 DEF Crash
  <1>5. ASSUME NEW a \in Actors, HoldJob(a) PROVE cut' = cut /\ answered' = answered \cup {on[a]}
    BY <1>5 DEF HoldJob
  <1>6. ASSUME NEW a \in Actors, LoadExisting(a)
        PROVE  cut' = cut /\ (answered' = answered \/ (redis.row[id[a]] # NoRow /\ answered' = answered \cup {on[a]}))
    BY <1>6 DEF LoadExisting
  <1>7. ASSUME NEW a \in Actors, FindByRun(a) \/ SetRow(a) \/ SetRunIndex(a) \/ PushOrder(a) \/ TrimOrder(a)
        PROVE  UNCHANGED <<cut, answered>>
    BY <1>7 DEF FindByRun, SetRow, SetRunIndex, PushOrder, TrimOrder, ghosts
  <1>8. ASSUME NEW c \in Clients, NEW x, NEW r,
               Decide(c, x) \/ FetchRow(c) \/ WriteDecision(c) \/ RewriteRunIndex(c) \/ ReleaseJob(c) \/ TriggerAsks(c, r)
        PROVE  UNCHANGED <<cut, answered>>
    BY <1>8 DEF Decide, FetchRow, WriteDecision, RewriteRunIndex, ReleaseJob, TriggerAsks, ghosts
  <1>9. ASSUME NEW j, NEW r, LookAtApprovals(j) \/ Skip \/ Dispatch(r) \/ QueueRetry(r) \/ ManualRun(r)
        PROVE  UNCHANGED <<cut, answered>>
    BY <1>9 DEF LookAtApprovals, Skip, Dispatch, QueueRetry, ManualRun, ghosts
  <1>10. ASSUME NEW w, NEW r, NEW asks, Start(w, r) \/ Succeed(w) \/ Retry(w) \/ Fail(w, asks)
         PROVE  UNCHANGED <<cut, answered>>
    BY <1>10 DEF Start, Succeed, Retry, Fail, ghosts
  <1>11. CASE UNCHANGED vars
    BY <1>11 DEF vars, ghosts
  <1>. QED
    BY NextCases, <1>1, <1>2, <1>3, <1>4, <1>5, <1>6, <1>7, <1>8, <1>9, <1>10, <1>11

\* A request stays on the list, is pushed off it or stays cut short.
LEMMA ListKept ==
  ASSUME Base, [Next]_vars, NEW x \in Ids, OnList(x)
  PROVE  OnList(x)'
  <1>1. CASE x \in cut
    <2>1. cut \subseteq cut'
      BY HistorySteps
    <2>. QED
      BY <1>1, <2>1 DEF OnList
  <1>2. CASE x \notin cut
    BY <1>2, OrderSteps DEF OnList
  <1>. QED
    BY <1>1, <1>2

\* An actor that has written the row of its request goes on, finishes it with
\* the job held, or leaves it cut short.
LEMMA WrittenGoesOn ==
  ASSUME Base, [Next]_vars, NEW b \in Actors, pc[b] \in Written
  PROVE  \/ pc'[b] \in Written /\ id'[b] = id[b] /\ on'[b] = on[b]
         \/ HoldJob(b)
         \/ id[b] \in cut'
  <1>1. CASE SameActor(b)
    BY <1>1 DEF SameActor
  <1>2. CASE SetRunIndex(b) \/ PushOrder(b) \/ TrimOrder(b)
    BY <1>2, PcSteps DEF Written
  <1>3. CASE CreateInMemory(b)
    BY <1>3 DEF CreateInMemory
  <1>4. CASE Crash(Proc(b))
    <2>1. Creating(b)
      BY CreatingIsIn
    <2>. QED
      BY <1>4, <2>1 DEF Crash
  <1>5. HoldJob(b) \/ SameActor(b) \/ SetRunIndex(b) \/ PushOrder(b) \/ TrimOrder(b) \/ CreateInMemory(b) \/ Crash(Proc(b))
    BY OwnSteps DEF Written, FindByRun, LoadExisting, SetRow, Decide, FetchRow, WriteDecision, RewriteRunIndex,
                    ReleaseJob, DecideInMemory, TriggerAsks, Start, Succeed, Retry, Fail
  <1>. QED
    BY <1>1, <1>2, <1>3, <1>4, <1>5

LEMMA RowsListedStep ==
  ASSUME Base, Holding, CopyStands, RowsListed, [Next]_vars
  PROVE  RowsListed'
  <1>1. ASSUME NEW a \in Actors, pc'[a] \in {"trim", "hold"} PROVE \E x \in Ids : x = id'[a] /\ OnList(x)'
    <2>1. SameActor(a) \/ PushOrder(a) \/ TrimOrder(a)
      BY <1>1, OwnSteps, PcSteps
    <2>2. pc[a] \in {"push", "trim", "hold"} /\ id'[a] = id[a]
      BY <1>1, <2>1, PcSteps DEF SameActor, PushOrder, TrimOrder
    <2>3. PICK x \in Ids : x = id[a]
      BY <2>2, CreatorHas DEF Creating
    <2>4. CASE PushOrder(a)
      BY <2>2, <2>3, <2>4, OrderSteps DEF OnList
    <2>5. CASE SameActor(a) \/ TrimOrder(a)
      <3>1. OnList(x)
        BY <1>1, <2>3, <2>5 DEF SameActor, TrimOrder, RowsListed
      <3>. QED
        BY <2>2, <2>3, <3>1, ListKept
    <2>. QED
      BY <2>1, <2>4, <2>5
  <1>2. ASSUME NEW a \in Actors, pc'[a] \in {"push", "trim", "hold"} PROVE redis'.index[on'[a]] # 0
    <2>1. SameActor(a) \/ SetRunIndex(a) \/ PushOrder(a) \/ TrimOrder(a)
      BY <1>2, OwnSteps, PcSteps
    <2>2. on'[a] = on[a] /\ Creating(a)
      BY <1>2, <2>1, PcSteps DEF SameActor, SetRunIndex, PushOrder, TrimOrder, Creating
    <2>3. PICK r \in Runs : r = on[a]
      BY <2>2, CreatorHas
    <2>4. CASE SetRunIndex(a)
      <3>1. redis'.index[r] = id[a] /\ id[a] \in Ids
        <4>1. PICK x \in Ids : x = id[a]
          BY <2>2, CreatorHas
        <4>2. redis \in Store /\ redis' = WithIndex(redis, x, r)
          BY <2>3, <2>4, <4>1, HasTypes DEF SetRunIndex
        <4>3. redis'.index = [redis.index EXCEPT ![r] = x]
          BY <4>2, IndexWritten
        <4>. QED
          BY <4>1, <4>3, HasTypes
      <3>. QED
        BY <2>2, <2>3, <3>1, HasTypes
    <2>5. CASE SameActor(a) \/ PushOrder(a) \/ TrimOrder(a)
      <3>1. redis.index[r] # 0
        BY <1>2, <2>3, <2>5 DEF SameActor, PushOrder, TrimOrder, RowsListed
      <3>. QED
        BY <2>2, <2>3, <3>1, IndexStays
    <2>. QED
      BY <2>1, <2>4, <2>5
  <1>3. ASSUME NEW x \in Ids, redis'.row[x].status # "none"
        PROVE  OnList(x)' \/ \E b \in Actors : pc'[b] \in Written /\ id'[b] = x
    <2>1. CASE OnList(x)
      BY <2>1, ListKept
    <2>2. ASSUME NEW b \in Actors, pc[b] \in Written, id[b] = x
          PROVE  OnList(x)' \/ \E a \in Actors : pc'[a] \in Written /\ id'[a] = x
      <3>1. CASE pc'[b] \in Written /\ id'[b] = id[b]
        BY <2>2, <3>1
      <3>2. CASE id[b] \in cut'
        BY <2>2, <3>2 DEF OnList
      <3>3. CASE HoldJob(b)
        <4>1. OnList(x)
          BY <2>2, <3>3 DEF HoldJob, RowsListed
        <4>. QED
          BY <4>1, ListKept
      <3>. QED
        BY <2>2, <3>1, <3>2, <3>3, WrittenGoesOn
    <2>3. CASE redis.row[x].status # "none"
      BY <2>1, <2>2, <2>3 DEF RowsListed
    <2>4. CASE redis.row[x].status = "none"
      <3>1. redis'.row[x] # redis.row[x] /\ redis.row[x].run = None
        BY <1>3, <2>4 DEF Base, RowsFormed
      <3>2. ASSUME NEW a \in Actors, SetRow(a), x = id[a] PROVE pc'[a] \in Written /\ id'[a] = x
        BY <3>2, PcSteps DEF Written
      <3>3. ASSUME NEW c \in Clients, WriteDecision(c), x = id[c], copy[c].run \in Runs PROVE OnList(x)
        <4>1. pc[c] \in HasCopy /\ c \in Actors /\ "api" \in Processes
          BY <3>3, ActorsApart DEF WriteDecision, HasCopy, Processes
        <4>2. copy[c].run = mem["api"].row[x].run
          BY <3>1, <3>3, <4>1, ApprovalAssumption DEF CopyStands
        <4>3. mem["api"].row[x].status # "none"
          BY <3>3, <4>1, <4>2, ApprovalAssumption DEF Base, RowsFormed
        <4>. QED
          BY <4>1, <4>3 DEF Holding, MemoryIsCut, OnList
      <3>. QED
        BY <2>1, <3>1, <3>2, <3>3, RowSteps
    <2>. QED
      BY <2>3, <2>4
  <1>. QED
    BY <1>1, <1>2, <1>3 DEF RowsListed, OnList

LEMMA AskIsAnsweredStep ==
  ASSUME Base, Holding, OneActor, RowsListed, AskIsAnswered, [Next]_vars
  PROVE  AskIsAnswered'
  <1>1. ASSUME NEW x \in Ids, NEW r \in Runs, redis.row[x].run = r, OnList(x)
        PROVE  \E y \in Ids : redis'.row[y].run = r /\ OnList(y)'
    BY <1>1, ListKept, RunKept
  <1>2. ASSUME NEW r \in answered PROVE \E y \in Ids : redis'.row[y].run = r /\ OnList(y)'
    <2>1. PICK x \in Ids : redis.row[x].run = r /\ OnList(x)
      BY <1>2 DEF AskIsAnswered, OnList
    <2>2. r \in Runs
      BY <1>2 DEF Base, TypeOK
    <2>. QED
      BY <1>1, <2>1, <2>2
  <1>3. ASSUME NEW a \in Actors, HoldJob(a) PROVE \E y \in Ids : redis'.row[y].run = on[a] /\ OnList(y)'
    <2>1. id[a] \in Ids /\ on[a] \in Runs /\ pc[a] = "hold"
      BY <1>3, CreatorHas DEF HoldJob, Creating
    <2>2. redis.row[id[a]].run = on[a] /\ OnList(id[a])
      BY <2>1 DEF Holding, WrittenRow, Written, RowsListed
    <2>. QED
      BY <1>1, <2>1, <2>2
  <1>4. ASSUME NEW a \in Actors, LoadExisting(a), redis.row[id[a]] # NoRow
        PROVE  \E y \in Ids : redis'.row[y].run = on[a] /\ OnList(y)'
    <2>1. id[a] \in Ids /\ on[a] \in Runs /\ pc[a] = "load"
      BY <1>4 DEF LoadExisting, Base, Working, Works, Asking
    <2>2. redis.row[id[a]].status # "none" /\ redis.row[id[a]].run \in Runs
      <3>1. redis.row[id[a]] \in Rows /\ (redis.row[id[a]].run = None <=> redis.row[id[a]].status = "none")
        BY <2>1, HasTypes DEF Base, RowsFormed
      <3>. QED
        BY <1>4, <3>1 DEF Rows, NoRow
    <2>3. redis.row[id[a]].run = on[a]
      BY <2>1, <2>2 DEF Holding, OneOwner, Claim
    <2>4. ASSUME NEW b \in Actors, pc[b] \in Written, id[b] = id[a] PROVE FALSE
      <3>1. on[b] = on[a]
        BY <2>3, <2>4 DEF Holding, WrittenRow
      <3>2. b = a
        BY <2>1, <3>1 DEF OneActor
      <3>. QED
        BY <2>1, <2>4, <3>2 DEF Written
    <2>5. OnList(id[a])
      BY <2>1, <2>2, <2>4 DEF RowsListed
    <2>. QED
      BY <1>1, <2>1, <2>3, <2>5
  <1>5. ASSUME NEW r \in answered' PROVE \E y \in Ids : redis'.row[y].run = r /\ OnList(y)'
    BY <1>2, <1>3, <1>4, <1>5, HistorySteps
  <1>. QED
    BY <1>5 DEF AskIsAnswered, OnList

LEMMA AskedInit == ASSUME Init PROVE Asked
  <1>1. \A x \in Ids : redis.row[x] = NoRow /\ \A p \in Processes : mem[p].row[x] = NoRow
    BY DEF Init, Empty
  <1>2. ASSUME NEW r \in Runs PROVE Count(r) = 0
    <2>1. Requests(r) = {}
      BY <1>1, ApprovalAssumption DEF Requests, NoRow
    <2>. QED
      BY <2>1, FS_EmptySet DEF Count
  <1>3. errors = 0 /\ \A a \in Actors : pc[a] = "idle" /\ on[a] = None
    BY DEF Init
  <1>4. \A r \in Runs : redis.index[r] = 0 /\ \A p \in Processes : mem[p].index[r] = 0
    BY DEF Init, Empty
  <1>5. OneActor /\ IndexedRow /\ LoadFinds /\ CopyStands
    BY <1>3, <1>4, ApprovalAssumption DEF OneActor, IndexedRow, LoadFinds, CopyStands, HasCopy, Asking, Written
  <1>6. RequestsPaid
    BY <1>2, <1>3 DEF RequestsPaid
  <1>7. RowsListed /\ AskIsAnswered
    BY <1>1, <1>3 DEF RowsListed, AskIsAnswered, NoRow, Init
  <1>. QED
    BY <1>5, <1>6, <1>7 DEF Asked

LEMMA AskedStep == ASSUME Base, Holding, Asked, [Next]_vars PROVE Asked'
  <1>1. OneActor'
    BY OneActorStep DEF Asked
  <1>. QED
    BY <1>1, IndexedStep, LoadFindsStep, CopyStandsStep, RequestsPaidStep, RowsListedStep, AskIsAnsweredStep DEF Asked

\* A run has one request at most, and one more for each command that Redis
\* refused; a run that asked and met no error has one that operators can see,
\* unless newer ones have pushed it off the list.
THEOREM AsksAnsweredOnce == Spec => []OneRequestPerAsk
  <1>1. Init => Base /\ Holding /\ Asked
    BY BaseInit, HoldingInit, AskedInit
  <1>2. Base /\ Holding /\ Asked /\ [Next]_vars => Base' /\ Holding' /\ Asked'
    BY BaseStep, HoldingStep, AskedStep
  <1>3. Asked => OneRequestPerAsk
    BY DEF Asked, RequestsPaid, Count, Requests, OnePerRun, OneRequestPerAsk
  <1>. QED
    BY <1>1, <1>2, <1>3, PTL DEF Spec
================================================================================

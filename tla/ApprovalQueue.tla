----------------------------- MODULE ApprovalQueue -----------------------------
(***************************************************************************)
(* The approval queue: requests that agents (worker slots) and connector   *)
(* triggers (API requests) put there, that operators decide, and that the  *)
(* scheduler's guard reads.                                                *)
(*                                                                         *)
(* A request is four things in Redis: its row, the index from its run, a   *)
(* place in the list operators see, and membership in the pending set of   *)
(* its job, which is all the guard looks at.  Each is written by a command *)
(* of its own.  A command that Redis refuses sends its operation to the    *)
(* memory of its own process, which no other process reads.                *)
(*                                                                         *)
(* A decision is "approved" or "rejected": for what holds a job back the   *)
(* two are the same, and the model says "decided".                         *)
(***************************************************************************)
EXTENDS Naturals, FiniteSets, SequencesExt

CONSTANTS
  Jobs, Runs,   \* jobs and the run ids there are
  JobOf,        \* [Runs -> Jobs]
  Slots,        \* slots of the worker process
  Clients,      \* concurrent requests to the API process
  AllowOverlap, \* jobs with inputs.allow_overlap
  MaxRetry,     \* retry_policy.max_retry
  ApprovalMax,  \* APPROVAL_MAX: length of the list operators see
  MaxIds,       \* bound on requests
  MaxFaults,    \* bound on commands that Redis refuses and processes that die
  None          \* no job, no run

ASSUME ApprovalAssumption ==
  /\ JobOf \in [Runs -> Jobs] /\ AllowOverlap \subseteq Jobs
  /\ {MaxRetry, MaxFaults} \subseteq Nat /\ {ApprovalMax, MaxIds} \subseteq Nat \ {0}
  /\ IsFiniteSet(Slots \cup Clients) /\ Slots \cap Clients = {} /\ None \notin Jobs \cup Runs

\* A definition X_... states a plausible bug of the X that follows it, to show
\* which property would catch it.  No action uses one.

VARIABLES
  redis,    \* the four keys of the queue
  mem,      \* the same, in the memory of each process
  run,      \* where each run is
  attempt,  \* its attempt
  looking,  \* the job the scheduler is about to dispatch
  pc,       \* where each slot and each API request stands
  on,       \* the run it works for
  id,       \* the request it creates or decides, 0 for none
  copy,     \* the row a decision has read
  used,     \* ids given out
  shown,    \* ids an operator has seen
  errors, crashes,
  cut,      \* history: requests with an operation that was cut short
  early,    \* history: requests decided before they held their job
  answered, \* history: runs that asked and have their request in Redis
  slipped   \* history: dispatches of a job since it is held

runs  == <<run, attempt, looking>>
actor == <<pc, on, id, copy>>
ghosts == <<cut, early, answered, slipped>>
vars  == <<redis, mem, runs, actor, used, shown, errors, crashes, ghosts>>

Actors == Slots \cup Clients
Processes == {"worker", "api"}
Proc(a) == IF a \in Slots THEN "worker" ELSE "api"
Ids == 1..MaxIds

NoRow == [status |-> "none", run |-> None]
Rows == [status : {"none", "pending", "decided"}, run : Runs \cup {None}]
Store == [row : [Ids -> Rows], index : [Runs -> 0..MaxIds], order : Seq(Ids), pending : [Jobs -> SUBSET Ids]]
Empty == [row |-> [a \in Ids |-> NoRow], index |-> [r \in Runs |-> 0], order |-> <<>>, pending |-> [j \in Jobs |-> {}]]

Init ==
  /\ redis = Empty /\ mem = [p \in Processes |-> Empty]
  /\ run = [r \in Runs |-> "new"] /\ attempt = [r \in Runs |-> 0] /\ looking = None
  /\ pc = [a \in Actors |-> "idle"] /\ on = [a \in Actors |-> None]
  /\ id = [a \in Actors |-> 0] /\ copy = [a \in Actors |-> NoRow]
  /\ used = 0 /\ shown = {} /\ errors = 0 /\ crashes = 0
  /\ cut = {} /\ early = {} /\ answered = {} /\ slipped = [j \in Jobs |-> 0]

Goto(a, l) == pc' = [pc EXCEPT ![a] = l]

\* The operation is over: the slot goes on to the retry, the request is answered.
Leave(a) ==
  /\ Goto(a, IF a \in Slots /\ on[a] # None THEN "retry" ELSE "idle")
  /\ on' = IF a \in Slots THEN on ELSE [on EXCEPT ![a] = None]
  /\ id' = [id EXCEPT ![a] = 0] /\ copy' = [copy EXCEPT ![a] = NoRow]

Refused == errors + crashes < MaxFaults /\ errors' = errors + 1

(***************************************************************************)
(* What each command writes, in Redis or in a memory                       *)
(***************************************************************************)
WithRow(s, a, status, r) == [s EXCEPT !.row[a] = [status |-> status, run |-> r]]
WithIndex(s, a, r) == [s EXCEPT !.index[r] = a]
Pushed(s, a) == [s EXCEPT !.order = <<a>> \o @]
Trimmed_OffByOne(s) == [s EXCEPT !.order = SubSeq(@, 1, Min({Len(@), ApprovalMax - 1}))]
Trimmed(s) == [s EXCEPT !.order = SubSeq(@, 1, Min({Len(@), ApprovalMax}))]
Held_ByRun(s, a, r) == [s EXCEPT !.pending[JobOf[r]] = @ \cup {r}]
Held(s, a, r) == [s EXCEPT !.pending[JobOf[r]] = @ \cup {a}]
Released_All(s, a, r) == [s EXCEPT !.pending[JobOf[r]] = {}]
Released(s, a, r) == [s EXCEPT !.pending[JobOf[r]] = @ \ {a}]

\* _ambil_approval_raw: a row that Redis does not have is looked for in memory.
RowSeen(p, a) == IF redis.row[a] # NoRow THEN redis.row[a] ELSE mem[p].row[a]

(***************************************************************************)
(* create_approval_request                                                 *)
(***************************************************************************)
Creating(a) == pc[a] \in {"set", "point", "push", "trim", "hold"}

\* The requests under way fit into the bound.
RoomForId == used + Cardinality({a \in Actors : pc[a] \in {"find", "load"}}) < MaxIds

NewId(a) == id' = [id EXCEPT ![a] = used + 1] /\ used' = used + 1 /\ Goto(a, "set")

\* The index, read from Redis or from memory, says which row to look at.
Found_Ignored(a, existing) == NewId(a)
Found(a, existing) ==
  IF existing # 0 THEN id' = [id EXCEPT ![a] = existing] /\ Goto(a, "load") /\ UNCHANGED used
                  ELSE NewId(a)

FindByRun(a) ==
  /\ pc[a] = "find"
  /\ \/ Found(a, redis.index[on[a]]) /\ UNCHANGED errors
     \/ Refused /\ Found(a, mem[Proc(a)].index[on[a]])
  /\ UNCHANGED <<redis, mem, runs, on, copy, shown, crashes, ghosts>>

\* An existing row ends the creation, a missing one does not.
LoadExisting(a) ==
  /\ pc[a] = "load"
  /\ \E row \in {RowSeen(Proc(a), id[a]), mem[Proc(a)].row[id[a]]} :
       /\ \/ row = RowSeen(Proc(a), id[a]) /\ UNCHANGED errors
          \/ row = mem[Proc(a)].row[id[a]] /\ Refused
       /\ \/ /\ row # NoRow /\ Leave(a) /\ UNCHANGED used
             /\ answered' = IF redis.row[id[a]] # NoRow THEN answered \cup {on[a]} ELSE answered
          \/ row = NoRow /\ NewId(a) /\ UNCHANGED <<on, copy, answered>>
  /\ UNCHANGED <<redis, mem, runs, shown, crashes, cut, early, slipped>>

SetRow(a) ==
  /\ pc[a] = "set"
  /\ redis' = WithRow(redis, id[a], "pending", on[a])
  /\ Goto(a, "point")
  /\ UNCHANGED <<mem, runs, on, id, copy, used, shown, errors, crashes, ghosts>>

SetRunIndex(a) ==
  /\ pc[a] = "point"
  /\ redis' = WithIndex(redis, id[a], on[a])
  /\ Goto(a, "push")
  /\ UNCHANGED <<mem, runs, on, id, copy, used, shown, errors, crashes, ghosts>>

PushOrder(a) ==
  /\ pc[a] = "push"
  /\ redis' = Pushed(redis, id[a])
  /\ shown' = shown \cup {id[a]}
  /\ Goto(a, "trim")
  /\ UNCHANGED <<mem, runs, on, id, copy, used, errors, crashes, ghosts>>

TrimOrder(a) ==
  /\ pc[a] = "trim"
  /\ redis' = Trimmed(redis)
  /\ Goto(a, "hold")
  /\ UNCHANGED <<mem, runs, on, id, copy, used, shown, errors, crashes, ghosts>>

HoldJob(a) ==
  /\ pc[a] = "hold"
  /\ redis' = Held(redis, id[a], on[a])
  /\ answered' = answered \cup {on[a]}
  /\ Leave(a)
  /\ UNCHANGED <<mem, runs, used, shown, errors, crashes, cut, early, slipped>>

\* Redis refuses one of the commands: the whole request goes to memory, and
\* its caller, who is told the id, cannot tell the difference.
CreateInMemory(a) ==
  /\ Creating(a) /\ Refused
  /\ LET s == WithIndex(WithRow(mem[Proc(a)], id[a], "pending", on[a]), id[a], on[a]) IN
       mem' = [mem EXCEPT ![Proc(a)] = Held(Trimmed(Pushed(s, id[a])), id[a], on[a])]
  /\ shown' = shown \cup {id[a]}
  /\ cut' = cut \cup {id[a]}
  /\ Leave(a)
  /\ UNCHANGED <<redis, runs, used, crashes, early, answered, slipped>>

(***************************************************************************)
(* decide_approval_request                                                 *)
(***************************************************************************)
\* An operator decides a request some page has shown, maybe long ago.
Decide(c, a) ==
  /\ c \in Clients /\ pc[c] = "idle" /\ a \in shown
  /\ id' = [id EXCEPT ![c] = a]
  /\ Goto(c, "fetch")
  /\ UNCHANGED <<redis, mem, runs, on, copy, used, shown, errors, crashes, ghosts>>

\* The row decides what the later steps do, whatever happens to it meanwhile.
FetchRow(c) ==
  /\ pc[c] = "fetch"
  /\ \E row \in {RowSeen("api", id[c]), mem["api"].row[id[c]]} :
       /\ \/ row = RowSeen("api", id[c]) /\ UNCHANGED errors
          \/ row = mem["api"].row[id[c]] /\ Refused
       /\ \/ row = NoRow /\ Leave(c)
          \/ row # NoRow /\ copy' = [copy EXCEPT ![c] = row] /\ Goto(c, "write") /\ UNCHANGED <<on, id>>
  /\ UNCHANGED <<redis, mem, runs, used, shown, crashes, ghosts>>

WriteDecision(c) ==
  /\ pc[c] = "write"
  /\ redis' = WithRow(redis, id[c], "decided", copy[c].run)
  /\ Goto(c, "repoint")
  /\ UNCHANGED <<mem, runs, on, id, copy, used, shown, errors, crashes, ghosts>>

\* Only the first decision goes on to release the job.
AfterIndex_Released(c) == Leave(c)
AfterIndex(c) ==
  IF copy[c].status = "pending" THEN Goto(c, "release") /\ UNCHANGED <<on, id, copy>>
                                ELSE Leave(c)

RewriteRunIndex(c) ==
  /\ pc[c] = "repoint"
  /\ redis' = WithIndex(redis, id[c], copy[c].run)
  /\ AfterIndex(c)
  /\ UNCHANGED <<mem, runs, used, shown, errors, crashes, ghosts>>

\* The pending set may not hold the request yet.
ReleaseJob(c) ==
  /\ pc[c] = "release"
  /\ redis' = Released(redis, id[c], copy[c].run)
  /\ early' = IF \E a \in Actors : Creating(a) /\ id[a] = id[c] THEN early \cup {id[c]} ELSE early
  /\ slipped' = [j \in Jobs |-> IF redis'.pending[j] = {} THEN 0 ELSE slipped[j]]
  /\ Leave(c)
  /\ UNCHANGED <<mem, runs, used, shown, errors, crashes, cut, answered>>

\* Redis refuses one of the commands: the decision goes to memory.
DecideInMemory(c) ==
  /\ pc[c] \in {"write", "repoint", "release"} /\ Refused
  /\ LET s == WithIndex(WithRow(mem["api"], id[c], "decided", copy[c].run), id[c], copy[c].run) IN
       mem' = [mem EXCEPT !["api"] = IF copy[c].status = "pending" THEN Released(s, id[c], copy[c].run) ELSE s]
  /\ cut' = cut \cup {id[c]}
  /\ Leave(c)
  /\ UNCHANGED <<redis, runs, used, shown, crashes, early, answered, slipped>>

(***************************************************************************)
(* The scheduler: _boleh_dispatch_job and the retries                      *)
(***************************************************************************)
Active(j) == {r \in Runs : JobOf[r] = j /\ run[r] \in {"queued", "active"}}

\* has_pending_approval_for_job; a refused SCARD reads the scheduler's own
\* memory, where nothing is ever held.
HasPending_OffByOne(j) == Cardinality(redis.pending[j]) > 1
HasPending(j) == redis.pending[j] # {}

LookAtApprovals(j) ==
  /\ looking = None
  /\ \/ ~HasPending(j) /\ UNCHANGED errors
     \/ Refused
  /\ looking' = j
  /\ UNCHANGED <<redis, mem, run, attempt, actor, used, shown, crashes, ghosts>>

\* The overlap clause of the guard, and the dispatch.
Dispatch(r) ==
  /\ looking = JobOf[r] /\ run[r] = "new"
  /\ looking \in AllowOverlap \/ Active(looking) = {}
  /\ run' = [run EXCEPT ![r] = "queued"]
  /\ looking' = None
  /\ slipped' = IF redis.pending[looking] # {} THEN [slipped EXCEPT ![looking] = @ + 1] ELSE slipped
  /\ UNCHANGED <<redis, mem, attempt, actor, used, shown, errors, crashes, cut, early, answered>>

Skip ==
  /\ looking \in Jobs \ AllowOverlap /\ Active(looking) # {}
  /\ looking' = None
  /\ UNCHANGED <<redis, mem, run, attempt, actor, used, shown, errors, crashes, ghosts>>

\* process_due_jobs asks no guard.
QueueRetry(r) ==
  /\ run[r] = "delayed"
  /\ run' = [run EXCEPT ![r] = "queued"]
  /\ UNCHANGED <<redis, mem, attempt, looking, actor, used, shown, errors, crashes, ghosts>>

(***************************************************************************)
(* Worker slots: process_job_event                                         *)
(***************************************************************************)
Start(w, r) ==
  /\ w \in Slots /\ pc[w] = "idle" /\ run[r] = "queued"
  /\ run' = [run EXCEPT ![r] = "active"]
  /\ on' = [on EXCEPT ![w] = r]
  /\ Goto(w, "exec")
  /\ UNCHANGED <<redis, mem, attempt, looking, id, copy, used, shown, errors, crashes, ghosts>>

\* A run that no request mentions is forgotten: its id stands for a later run.
Mentioned(r) == r \in {s.row[a].run : a \in Ids, s \in {redis} \cup {mem[p] : p \in Processes}}

Succeed(w) ==
  /\ pc[w] = "exec"
  /\ run' = [run EXCEPT ![on[w]] = IF Mentioned(on[w]) THEN "ended" ELSE "new"]
  /\ attempt' = [attempt EXCEPT ![on[w]] = IF Mentioned(on[w]) THEN @ ELSE 0]
  /\ on' = [on EXCEPT ![w] = None]
  /\ Goto(w, "idle")
  /\ UNCHANGED <<redis, mem, looking, id, copy, used, shown, errors, crashes, ghosts>>

\* The attempt failed and is saved, so the run is no longer active.  If the
\* handler requires approval, the request comes only now
\* (_coba_simpan_approval_dari_output); then, in any case, the retry.
Fail(w, asks) ==
  /\ pc[w] = "exec" /\ (asks => RoomForId)
  /\ run' = [run EXCEPT ![on[w]] = "ended"]
  /\ Goto(w, IF asks THEN "find" ELSE "retry")
  /\ UNCHANGED <<redis, mem, attempt, looking, on, id, copy, used, shown, errors, crashes, ghosts>>

\* handle_retry
Retry(w) ==
  /\ pc[w] = "retry"
  /\ IF attempt[on[w]] < MaxRetry
       THEN /\ run' = [run EXCEPT ![on[w]] = "delayed"]
            /\ attempt' = [attempt EXCEPT ![on[w]] = @ + 1]
       ELSE UNCHANGED <<run, attempt>>
  /\ on' = [on EXCEPT ![w] = None]
  /\ Goto(w, "idle")
  /\ UNCHANGED <<redis, mem, looking, id, copy, used, shown, errors, crashes, ghosts>>

(***************************************************************************)
(* Clients and crashes                                                     *)
(***************************************************************************)
\* trigger_job: a manual run asks no guard.
ManualRun(r) ==
  /\ run[r] = "new"
  /\ run' = [run EXCEPT ![r] = "queued"]
  /\ UNCHANGED <<redis, mem, attempt, looking, actor, used, shown, errors, crashes, ghosts>>

\* fire_trigger with requires_approval: the run exists only in the request.
TriggerAsks(c, r) ==
  /\ c \in Clients /\ pc[c] = "idle" /\ run[r] = "new" /\ RoomForId
  /\ run' = [run EXCEPT ![r] = "ended"]
  /\ on' = [on EXCEPT ![c] = r]
  /\ Goto(c, "find")
  /\ UNCHANGED <<redis, mem, attempt, looking, id, copy, used, shown, errors, crashes, ghosts>>

\* A process dies: its operations stop where they are, its memory is gone.
Crash(p) ==
  /\ errors + crashes < MaxFaults /\ crashes' = crashes + 1
  /\ mem' = [mem EXCEPT ![p] = Empty]
  /\ LET mine == {a \in Actors : Proc(a) = p}
         stops(a) == Creating(a) \/ pc[a] \in {"write", "repoint", "release"} IN
       /\ cut' = cut \cup {id[a] : a \in {b \in mine : stops(b)}}
       /\ pc' = [a \in Actors |-> IF a \in mine THEN "idle" ELSE pc[a]]
       /\ on' = [a \in Actors |-> IF a \in mine THEN None ELSE on[a]]
       /\ id' = [a \in Actors |-> IF a \in mine THEN 0 ELSE id[a]]
       /\ copy' = [a \in Actors |-> IF a \in mine THEN NoRow ELSE copy[a]]
  /\ UNCHANGED <<redis, runs, used, shown, errors, early, answered, slipped>>

Create(a) ==
  \/ FindByRun(a) \/ LoadExisting(a) \/ SetRow(a) \/ SetRunIndex(a) \/ PushOrder(a)
  \/ TrimOrder(a) \/ HoldJob(a) \/ CreateInMemory(a)

Deciding(c) ==
  \/ \E a \in Ids : Decide(c, a)
  \/ FetchRow(c) \/ WriteDecision(c) \/ RewriteRunIndex(c) \/ ReleaseJob(c) \/ DecideInMemory(c)

Next ==
  \/ \E a \in Actors : Create(a)
  \/ \E c \in Clients : Deciding(c) \/ \E r \in Runs : TriggerAsks(c, r)
  \/ \E j \in Jobs : LookAtApprovals(j)
  \/ Skip
  \/ \E r \in Runs : Dispatch(r) \/ QueueRetry(r) \/ ManualRun(r)
  \/ \E w \in Slots :
       \/ \E r \in Runs : Start(w, r)
       \/ Succeed(w) \/ Retry(w) \/ \E asks \in BOOLEAN : Fail(w, asks)
  \/ \E p \in Processes : Crash(p)

Spec == Init /\ [][Next]_vars

(***************************************************************************)
(* Properties                                                              *)
(***************************************************************************)

\* Every variable has its type.
TypeOK ==
  /\ redis \in Store /\ mem \in [Processes -> Store]
  /\ run \in [Runs -> {"new", "queued", "active", "delayed", "ended"}]
  /\ attempt \in [Runs -> 0..MaxRetry] /\ looking \in Jobs \cup {None}
  /\ pc \in [Actors -> {"idle", "exec", "retry", "find", "load", "set", "point", "push", "trim", "hold",
                        "fetch", "write", "repoint", "release"}]
  /\ on \in [Actors -> Runs \cup {None}] /\ id \in [Actors -> 0..MaxIds] /\ copy \in [Actors -> Rows]
  /\ used \in 0..MaxIds /\ shown \subseteq 1..used /\ (cut \cup early) \subseteq 1..used
  /\ errors \in Nat /\ crashes \in Nat /\ errors + crashes <= MaxFaults
  /\ answered \subseteq Runs /\ slipped \in [Jobs -> Nat]

\* A request some operation of which is under way.
InProgress(a) ==
  \/ \E b \in Actors : Creating(b) /\ id[b] = a
  \/ \E c \in Clients : pc[c] \in {"repoint", "release"} /\ id[c] = a /\ copy[c].status = "pending"

\* A job is held back by a request that has been decided only in three cases:
\* its decision is still being written, it was cut short by a crash or by
\* Redis, or it came before the creation had put the request into the set.
HeldByUndecided ==
  \A j \in Jobs : \A a \in redis.pending[j] :
    redis.row[a].status = "pending" \/ InProgress(a) \/ a \in cut \cup early

\* The other way: a request nobody has decided holds its job back, however
\* decisions and creations cross and however long the list has become.
UndecidedHolds ==
  \A a \in Ids : redis.row[a].status = "pending" =>
    a \in redis.pending[JobOf[redis.row[a].run]] \/ InProgress(a) \/ a \in cut

\* A job is held back by its undecided requests, and by no others.
HoldsAreRequests == TypeOK /\ HeldByUndecided /\ UndecidedHolds

\* One run creates at most one request, over all its attempts; each command
\* that Redis refused can cost one more.
OnePerRun ==
  \A r \in Runs :
    Cardinality({a \in Ids : r \in {redis.row[a].run} \cup {mem[p].row[a].run : p \in Processes}}) <= 1 + errors

\* A run that asked and met no error has a request in Redis that operators
\* can see, unless APPROVAL_MAX newer ones have pushed it off the list or it is
\* the part of one that an error cut short and the run asked again.
AskIsAnswered ==
  \A r \in answered : \E a \in Ids :
    redis.row[a].run = r /\ (a \in ToSet(redis.order) \/ Len(redis.order) >= ApprovalMax \/ a \in cut)

\* A run that asks has its request, and has it once.
OneRequestPerAsk == OnePerRun /\ AskIsAnswered

\* Once a job is held, the schedule starts it at most once more, by a guard
\* that looked before, and once per look that Redis refused.
HoldStopsSchedule == \A j \in Jobs : slipped[j] <= 1 + errors

\* "Scheduler skips dispatch when approval for that job is still pending":
\* when no operation is under way, what holds a job back is pending.
HoldEndsWithDecision ==
  (\A a \in Actors : pc[a] \in {"idle", "exec"}) =>
    \A j \in Jobs : \A a \in redis.pending[j] : redis.row[a].status = "pending"
================================================================================

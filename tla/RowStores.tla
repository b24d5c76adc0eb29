--------------------------------- MODULE RowStores ---------------------------------
(***************************************************************************)
(* One row of a store that several requests change: app/core/triggers.py,  *)
(* experiments.py and connector_accounts.py.                               *)
(*                                                                         *)
(* The three are written alike.  A row is a JSON value under a key of its  *)
(* own, and its id is in a set that is listed.  A save reads the row, puts *)
(* its fields over those it read, and writes all of them back; so does a   *)
(* use of the row (a trigger that fires, an experiment whose variant was   *)
(* run).  A deletion removes the key, then the id.  Nothing holds the row  *)
(* meanwhile.  When a command fails, a dictionary of the process takes its *)
(* place, for this command only.                                           *)
(***************************************************************************)
EXTENDS Naturals, FiniteSets

CONSTANTS
  Editors, Users,  \* requests that edit the row, and those that use it, one at a time each
  MaxBegun,        \* bound on operations that set fields, per store
  MaxFaults        \* bound on failing commands and processes that die

Stores == {"triggers", "experiments", "telegram"}

ASSUME RowAssumption == Editors \cap Users = {} /\ MaxBegun \in [Stores -> Nat] /\ MaxFaults \in Nat

VARIABLES
  store,    \* which of the stores the row is in
  row,      \* the key in Redis
  listed,   \* is the id in the set?
  offset,   \* Telegram only: the key of the last update id
  mem,      \* per process, the row in its dictionary
  op,       \* per request, the operation it works on
  begun, faults,
  meant,    \* history: per field, what was written last by an operation that sets it
  undone,   \* history: fields that an operation wrote back as it had read them before
            \* they changed, or whose last write went to a dictionary
  torn,     \* history: did the last to write the set cross another operation, or fail?
  runs      \* history: runs that triggers issued

rowVars == <<store, row, listed, offset, mem, op, begun, faults, meant, undone, torn, runs>>

\* A definition X_... states a plausible bug of the X that follows it.  No action uses one.

Processes == {"api", "other"}     \* the API; a worker or the connector
Requests == Editors \cup Users
Home(r) == IF r \in Editors \/ store = "triggers" THEN "api" ELSE "other"

(***************************************************************************)
(* Rows.  Numbers stand for what an operation wrote: text for the fields a *)
(* save always sets, secret for the secret or token, which a save may leave*)
(* out, used for the last run.                                             *)
(***************************************************************************)
Fields == {"text", "on", "secret", "used"}
NoRow == [text |-> 0, on |-> FALSE, secret |-> 0, used |-> 0]
Exists(r) == r.text # 0

Idle == [at |-> "idle", new |-> NoRow, gives |-> {}, behind |-> {}, cut |-> FALSE]
Quiet == \A r \in Requests : op[r].at = "idle"

\* What a request reads: the key, or the dictionary when the command fails.
Read(r, failed) == IF failed THEN mem[Home(r)] ELSE row
Spend(failed) == faults' = IF failed THEN faults + 1 ELSE faults
MayFail(failed) == failed => faults < MaxFaults

\* The row was read, and what is to be written back is known.
Start(r, at, new, gives, failed) ==
  /\ op[r].at \in {"idle", "resolved"} /\ begun < MaxBegun[store] /\ begun' = begun + 1
  /\ MayFail(failed) /\ Spend(failed)
  /\ op' = [op EXCEPT ![r] = [Idle EXCEPT !.at = at, !.new = new, !.gives = gives,
                              !.behind = {f \in Fields : Read(r, failed)[f] # row[f]}]]
  /\ UNCHANGED <<store, row, listed, offset, mem, meant, undone, torn, runs>>

(***************************************************************************)
(* upsert_trigger, upsert_experiment, upsert_telegram_account              *)
(***************************************************************************)
SavedRow_NewSecret(existing, n, on, secret) ==
  [text |-> n, on |-> on, secret |-> IF secret THEN n ELSE 0, used |-> existing.used]
SavedRow(existing, n, on, secret) ==
  [text |-> n, on |-> on, secret |-> IF secret THEN n ELSE existing.secret, used |-> existing.used]

\* A bot is refused without a token; an experiment has nothing a request leaves out.
Save(r, on, secret, failed) ==
  LET new == SavedRow(Read(r, failed), begun + 1, on, secret)
  IN /\ r \in Editors
     /\ store = "experiments" => secret
     /\ store = "telegram" => new.secret # 0
     /\ Start(r, "write", new, {"text", "on"} \cup (IF secret THEN {"secret"} ELSE {}), failed)

\* set_experiment_enabled
SetEnabled(r, on, failed) ==
  /\ store = "experiments" /\ r \in Editors /\ Exists(Read(r, failed))
  /\ Start(r, "write", [Read(r, failed) EXCEPT !.on = on], {"on"}, failed)

(***************************************************************************)
(* fire_trigger: the row is read, the run (or the request for an approval) *)
(* is issued, and the row is written back.                                 *)
(***************************************************************************)
MayFire_IfStored(r) == Exists(r)
MayFire(r) == Exists(r) /\ r.on

Fire(r, failed) ==
  /\ store = "triggers" /\ r \in Users /\ MayFire(Read(r, failed))
  /\ Start(r, "issue", [Read(r, failed) EXCEPT !.used = begun + 1], {"used"}, failed)

IssueRun(r) ==
  /\ op[r].at = "issue"
  /\ op' = [op EXCEPT ![r].at = "write"]
  /\ runs' = runs + 1
  /\ UNCHANGED <<store, row, listed, offset, mem, begun, faults, meant, undone, torn>>

\* The job of the trigger is not there.
NoJob(r) ==
  /\ op[r].at = "issue"
  /\ op' = [op EXCEPT ![r] = Idle]
  /\ UNCHANGED <<store, row, listed, offset, mem, begun, faults, meant, undone, torn, runs>>

(***************************************************************************)
(* resolve_experiment_prompt_for_job finds an enabled experiment;          *)
(* record_experiment_variant_run then reads its row anew.                  *)
(***************************************************************************)
ResolveExperiment(r, failed) ==
  /\ store = "experiments" /\ r \in Users /\ op[r].at = "idle" /\ begun < MaxBegun[store]
  /\ MayFire(Read(r, failed)) /\ MayFail(failed) /\ Spend(failed)
  /\ op' = [op EXCEPT ![r].at = "resolved"]
  /\ UNCHANGED <<store, row, listed, offset, mem, begun, meant, undone, torn, runs>>

RecordVariant(r, failed) ==
  /\ op[r].at = "resolved" /\ Exists(Read(r, failed))
  /\ Start(r, "write", [Read(r, failed) EXCEPT !.used = begun + 1], {"used"}, failed)

RecordNothing(r, failed) ==
  /\ op[r].at = "resolved" /\ ~Exists(Read(r, failed))
  /\ MayFail(failed) /\ Spend(failed)
  /\ op' = [op EXCEPT ![r] = Idle]
  /\ UNCHANGED <<store, row, listed, offset, mem, begun, meant, undone, torn, runs>>

(***************************************************************************)
(* The commands that write                                                 *)
(***************************************************************************)
\* How a command fares: done; done and its answer lost; not done.
Fares == {"done", "unanswered", "failed"}
Happens(fare) == fare # "failed"

\* The others with a copy of the row fall behind, and those between their two
\* commands are crossed if the row comes or goes.
Overtaken(r, new) ==
  [x \in Requests |->
    IF x = r THEN op[x]
    ELSE [op[x] EXCEPT !.behind = IF op[x].at \in {"issue", "write"} THEN @ \cup {f \in Fields : new[f] # row[f]} ELSE @,
                       !.cut = @ \/ (op[x].at \in {"index", "unindex"} /\ Exists(new) # (op[x].at = "index"))]]

Put(r, new, gives, fare, next) ==
  /\ MayFail(fare # "done") /\ Spend(fare # "done")
  /\ row' = IF Happens(fare) THEN new ELSE row
  /\ mem' = IF fare = "done" THEN mem ELSE [mem EXCEPT ![Home(r)] = new]
  /\ op' = [(IF Happens(fare) THEN Overtaken(r, new) ELSE op)
              EXCEPT ![r] = IF fare = "done" THEN [op[r] EXCEPT !.at = next, !.new = new] ELSE Idle]
  /\ meant' = [f \in Fields |-> IF f \in gives THEN new[f] ELSE meant[f]]
  /\ undone' = IF Happens(fare) THEN (undone \ gives) \cup (op[r].behind \ gives) ELSE undone \cup gives
  /\ torn' = (torn \/ fare = "unanswered")
  /\ UNCHANGED <<store, listed, offset, begun, runs>>

\* SET
WriteRow(r, fare) == op[r].at = "write" /\ Put(r, op[r].new, op[r].gives, fare, "index")

\* DEL
DeleteRow(r, fare) ==
  /\ store \in Stores /\ r \in Editors /\ op[r].at = "idle"
  /\ Put(r, NoRow, Fields, fare, "unindex")

\* SADD and SREM
AfterSrem_Kept == listed
AfterSrem == FALSE
Second(r, value, fare, next) ==
  /\ MayFail(fare # "done") /\ Spend(fare # "done")
  /\ listed' = IF Happens(fare) THEN value ELSE listed
  /\ mem' = IF fare = "done" THEN mem ELSE [mem EXCEPT ![Home(r)] = op[r].new]
  /\ op' = [op EXCEPT ![r] = IF fare = "done" THEN [Idle EXCEPT !.at = next] ELSE Idle]
  /\ torn' = (op[r].cut \/ fare = "failed")
  /\ UNCHANGED <<store, row, offset, begun, meant, undone, runs>>
AddToSet(r, fare) == op[r].at = "index" /\ Second(r, TRUE, fare, "idle")
RemoveFromSet(r, fare) ==
  op[r].at = "unindex" /\ Second(r, AfterSrem, fare, IF store = "telegram" THEN "forget" ELSE "idle")

\* delete_telegram_account: the last update id goes too.
ForgetOffset(r, fare) ==
  /\ op[r].at = "forget"
  /\ MayFail(fare # "done") /\ Spend(fare # "done")
  /\ offset' = IF Happens(fare) THEN 0 ELSE offset
  /\ mem' = IF fare = "done" THEN mem ELSE [mem EXCEPT ![Home(r)] = NoRow]
  /\ op' = [op EXCEPT ![r] = Idle]
  /\ UNCHANGED <<store, row, listed, begun, meant, undone, torn, runs>>

\* A process dies and is started again: its requests and its dictionary are gone.
Die(p) ==
  /\ faults < MaxFaults /\ faults' = faults + 1
  /\ op' = [r \in Requests |-> IF Home(r) = p THEN Idle ELSE op[r]]
  /\ mem' = [mem EXCEPT ![p] = NoRow]
  /\ torn' = (torn \/ \E r \in Requests : Home(r) = p /\ op[r].at \in {"index", "unindex"})
  /\ UNCHANGED <<store, row, listed, offset, begun, meant, undone, runs>>

(***************************************************************************)
(* A store that is empty                                                   *)
(***************************************************************************)
RowInit ==
  /\ row = NoRow /\ listed = FALSE /\ offset = 0
  /\ mem = [p \in Processes |-> NoRow] /\ op = [r \in Requests |-> Idle]
  /\ begun = 0 /\ faults = 0
  /\ meant = NoRow /\ undone = {} /\ torn = FALSE /\ runs = 0

RowNext ==
  \E r \in Requests :
    \/ \E failed \in BOOLEAN :
         \/ \E on, secret \in BOOLEAN : Save(r, on, secret, failed)
         \/ \E on \in BOOLEAN : SetEnabled(r, on, failed)
         \/ Fire(r, failed) \/ ResolveExperiment(r, failed) \/ RecordVariant(r, failed) \/ RecordNothing(r, failed)
    \/ IssueRun(r) \/ NoJob(r)
    \/ \E fare \in Fares :
         WriteRow(r, fare) \/ DeleteRow(r, fare) \/ AddToSet(r, fare) \/ RemoveFromSet(r, fare) \/ ForgetOffset(r, fare)

RowOf == [text : Nat, on : BOOLEAN, secret : Nat, used : Nat]
Places == {"idle", "resolved", "issue", "write", "index", "unindex", "forget"}
RowTypeOK ==
  /\ row \in RowOf /\ listed \in BOOLEAN /\ mem \in [Processes -> RowOf]
  /\ op \in [Requests -> [at : Places, new : RowOf, gives : SUBSET Fields, behind : SUBSET Fields, cut : BOOLEAN]]
  /\ begun \in Nat /\ faults \in 0..MaxFaults /\ runs \in 0..begun
  /\ meant \in RowOf /\ undone \subseteq Fields /\ torn \in BOOLEAN

(***************************************************************************)
(* Properties                                                              *)
(***************************************************************************)
\* Every field of a row says what the last operation that set it said: the others
\* carry it over.  It is undone only by one that had read the row before and wrote it
\* after, as a trigger does that fires while it is saved or deleted, and by a command
\* that failed: then the write is in a dictionary, or the row was read from one.
FieldsKept == \A f \in Fields \ undone : row[f] = meant[f]

\* When nothing is under way, a row is listed if and only if it is stored, but for a
\* deletion that crossed a save, and commands that failed between the two writes.
RowsListed == Quiet /\ ~torn => (Exists(row) <=> listed)

\* A trigger issues a run only if it is stored and enabled, by the last edit or by the
\* one that was in force when it was read.
OnlyEnabledFire ==
  [][runs' # runs => \A r \in Users : op[r].at = "issue" /\ op'[r].at = "write" =>
       meant.on \/ "on" \in op[r].behind \cup undone]_rowVars
====================================================================================

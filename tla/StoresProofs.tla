------------------------------- MODULE StoresProofs -------------------------------
(***************************************************************************)
(* Proofs about the stores of rows (RowStores, TelegramConnector) and the  *)
(* accounts of the armory (Armory), for every number of requests, workers, *)
(* operations, updates, expiries and failures, and each of the stores.     *)
(***************************************************************************)
EXTENDS Stores, FiniteSetTheorems, SequenceTheorems, TLAPS

USE RowAssumption, ArmoryAssumption

(***************************************************************************)
(* Types of what the proofs look at                                        *)
(***************************************************************************)
OpOf == [at : Places, new : RowOf, gives : SUBSET Fields, behind : SUBSET Fields, cut : BOOLEAN]
CopyType ==
  /\ row \in RowOf /\ mem \in [Processes -> RowOf] /\ op \in [Requests -> OpOf]
  /\ begun \in Nat

LEMMA NoRowType == NoRow \in RowOf
  BY DEF NoRow, RowOf

LEMMA IdleType == Idle \in OpOf
  BY NoRowType DEF Idle, OpOf, Places, Fields

\* A request reads a row of the right type.
LEMMA ReadType ==
  ASSUME CopyType, NEW r \in Requests, NEW failed \in BOOLEAN
  PROVE  Read(r, failed) \in RowOf
  BY DEF Read, Home, CopyType, Processes

\* What a save makes of a row is a row; it keeps the last use, and the secret unless
\* it was given.
LEMMA SavedRowType ==
  ASSUME NEW existing \in RowOf, NEW n \in Nat, NEW on \in BOOLEAN, NEW secret \in BOOLEAN
  PROVE  /\ SavedRow(existing, n, on, secret) \in RowOf
         /\ \A f \in Fields \ ({"text", "on"} \cup (IF secret THEN {"secret"} ELSE {})) :
              SavedRow(existing, n, on, secret)[f] = existing[f]
  <1>1. /\ SavedRow(existing, n, on, secret) \in RowOf
        /\ SavedRow(existing, n, on, secret).used = existing.used
        /\ ~secret => SavedRow(existing, n, on, secret).secret = existing.secret
    BY DEF SavedRow, RowOf
  <1>. QED
    BY <1>1 DEF Fields

\* To put one's row in the way of the others keeps the types.
LEMMA OvertakenType ==
  ASSUME CopyType, NEW r \in Requests, NEW new \in RowOf
  PROVE  Overtaken(r, new) \in [Requests -> OpOf]
  BY DEF Overtaken, CopyType, OpOf, Fields

(***************************************************************************)
(* The invariant                                                           *)
(***************************************************************************)
\* A request about to write has, in the fields it neither sets nor has fallen behind
\* in, what the row has now; a trigger about to issue a run was enabled when read.
CopiesAgree ==
  \A r \in Requests :
    /\ op[r].at \in {"issue", "write"} =>
         \A f \in Fields \ (op[r].gives \cup op[r].behind) : op[r].new[f] = row[f]
    /\ op[r].at = "issue" => op[r].new.on /\ op[r].gives = {"used"}

RowInv == CopyType /\ FieldsKept /\ CopiesAgree

LEMMA RowInvInit == RowInit => RowInv
  <1> SUFFICES ASSUME RowInit PROVE RowInv
    OBVIOUS
  <1>1. CopyType
    BY NoRowType, IdleType DEF RowInit, CopyType
  <1>2. FieldsKept
    BY DEF RowInit, FieldsKept
  <1>3. CopiesAgree
    BY DEF RowInit, CopiesAgree, Idle
  <1>. QED
    BY <1>1, <1>2, <1>3 DEF RowInv

\* A request that has read a row, and sets gives of it, agrees with the row.
LEMMA StartKeeps ==
  ASSUME RowInv, NEW r \in Requests, NEW at \in {"issue", "write"}, NEW new \in RowOf,
         NEW gives \in SUBSET Fields, NEW failed \in BOOLEAN,
         \A f \in Fields \ gives : new[f] = Read(r, failed)[f],
         at = "issue" => new.on /\ gives = {"used"},
         Start(r, at, new, gives, failed)
  PROVE  RowInv'
  <1> DEFINE started == [Idle EXCEPT !.at = at, !.new = new, !.gives = gives,
                                     !.behind = {f \in Fields : Read(r, failed)[f] # row[f]}]
  <1>1. /\ started.at = at /\ started.new = new /\ started.gives = gives
        /\ started.behind = {f \in Fields : Read(r, failed)[f] # row[f]}
        /\ started \in OpOf
    BY IdleType DEF Idle, OpOf, Places, Fields
  <1>2. op' = [op EXCEPT ![r] = started] /\ row' = row /\ mem' = mem /\ begun' = begun + 1
    BY DEF Start
  <1> HIDE DEF started
  <1>3. CopyType'
    BY <1>1, <1>2 DEF RowInv, CopyType
  <1>4. FieldsKept'
    BY DEF Start, RowInv, FieldsKept
  <1>5. CopiesAgree'
    BY <1>1, <1>2 DEF RowInv, CopyType, CopiesAgree
  <1>. QED
    BY <1>3, <1>4, <1>5 DEF RowInv

\* Writing a row that agrees with the one it replaces, but for the fields it sets and
\* those it has fallen behind in, keeps the invariant: the others fall behind.
LEMMA PutKeeps ==
  ASSUME RowInv, NEW r \in Requests, NEW new \in RowOf, NEW gives \in SUBSET Fields,
         NEW fare \in Fares, NEW next \in {"index", "unindex"},
         \A f \in Fields \ (gives \cup op[r].behind) : new[f] = row[f],
         Put(r, new, gives, fare, next)
  PROVE  RowInv'
  <1> DEFINE base == IF Happens(fare) THEN Overtaken(r, new) ELSE op
             mine == IF fare = "done" THEN [op[r] EXCEPT !.at = next, !.new = new] ELSE Idle
  <1>1. base \in [Requests -> OpOf]
    BY OvertakenType DEF RowInv, CopyType
  <1>2. mine \in OpOf /\ mine.at \notin {"issue", "write"}
    BY IdleType DEF RowInv, CopyType, OpOf, Places, Idle
  <1>3. op' = [base EXCEPT ![r] = mine] /\ row' = IF Happens(fare) THEN new ELSE row
    BY DEF Put
  <1>4. /\ meant' = [f \in Fields |-> IF f \in gives THEN new[f] ELSE meant[f]]
        /\ undone' = IF Happens(fare) THEN (undone \ gives) \cup (op[r].behind \ gives) ELSE undone \cup gives
        /\ mem' = (IF fare = "done" THEN mem ELSE [mem EXCEPT ![Home(r)] = new]) /\ begun' = begun
    BY DEF Put
  <1>5. \A x \in Requests \ {r} :
          /\ base[x].at = op[x].at /\ base[x].new = op[x].new /\ base[x].gives = op[x].gives
          /\ op[x].behind \subseteq base[x].behind
          /\ Happens(fare) /\ op[x].at \in {"issue", "write"} =>
               \A f \in Fields : new[f] # row[f] => f \in base[x].behind
    BY DEF Overtaken, RowInv, CopyType, OpOf
  <1> HIDE DEF base, mine
  <1>6. CopyType'
    BY <1>1, <1>2, <1>3, <1>4 DEF RowInv, CopyType
  <1>7. FieldsKept'
    BY <1>3, <1>4 DEF RowInv, FieldsKept
  <1>8. CopiesAgree'
    <2> SUFFICES ASSUME NEW x \in Requests, op'[x].at \in {"issue", "write"}
                 PROVE  /\ \A f \in Fields \ (op'[x].gives \cup op'[x].behind) : op'[x].new[f] = row'[f]
                        /\ op'[x].at = "issue" => op'[x].new.on /\ op'[x].gives = {"used"}
      BY DEF CopiesAgree
    <2>1. x # r /\ op'[x] = base[x]
      BY <1>1, <1>2, <1>3
    <2>2. /\ op[x].at \in {"issue", "write"}
          /\ \A f \in Fields \ (op[x].gives \cup op[x].behind) : op[x].new[f] = row[f]
      BY <1>5, <2>1 DEF RowInv, CopiesAgree
    <2>. QED
      BY <1>3, <1>5, <2>1, <2>2 DEF RowInv, CopiesAgree
  <1>. QED
    BY <1>6, <1>7, <1>8 DEF RowInv

\* A step that leaves the row and what was meant alone, and of a request only moves it
\* on or ends it, keeps the invariant.
LEMMA MoveKeeps ==
  ASSUME RowInv, UNCHANGED <<row, begun, meant, undone>>, mem' \in [Processes -> RowOf],
         op' \in [Requests -> OpOf],
         \A r \in Requests : \/ op'[r].at \notin {"issue", "write"}
                             \/ op'[r] = op[r]
                             \/ /\ op[r].at = "issue" /\ op'[r].at = "write"
                                /\ op'[r].new = op[r].new /\ op'[r].gives = op[r].gives /\ op'[r].behind = op[r].behind
  PROVE  RowInv'
  BY DEF RowInv, CopyType, FieldsKept, CopiesAgree

(***************************************************************************)
(* Every step keeps the invariant                                          *)
(***************************************************************************)
LEMMA SaveKeeps ==
  ASSUME RowInv, NEW r \in Requests, NEW on \in BOOLEAN, NEW secret \in BOOLEAN, NEW failed \in BOOLEAN,
         Save(r, on, secret, failed)
  PROVE  RowInv'
  <1> DEFINE new == SavedRow(Read(r, failed), begun + 1, on, secret)
             gives == {"text", "on"} \cup (IF secret THEN {"secret"} ELSE {})
  <1>1. Read(r, failed) \in RowOf /\ begun + 1 \in Nat
    BY ReadType DEF RowInv, CopyType
  <1>2. new \in RowOf /\ \A f \in Fields \ gives : new[f] = Read(r, failed)[f]
    <2> DEFINE existing == Read(r, failed)
               n == begun + 1
    <2>1. existing \in RowOf /\ n \in Nat
      BY <1>1
    <2> HIDE DEF existing, n
    <2>2. /\ SavedRow(existing, n, on, secret) \in RowOf
          /\ \A f \in Fields \ ({"text", "on"} \cup (IF secret THEN {"secret"} ELSE {})) :
               SavedRow(existing, n, on, secret)[f] = existing[f]
      BY <2>1, SavedRowType
    <2>. QED
      BY <2>2 DEF existing, n
  <1>3. Start(r, "write", new, gives, failed) /\ gives \in SUBSET Fields
    BY DEF Save, Fields
  <1> HIDE DEF new, gives
  <1>. QED
    BY <1>2, <1>3, StartKeeps

LEMMA SetEnabledKeeps ==
  ASSUME RowInv, NEW r \in Requests, NEW on \in BOOLEAN, NEW failed \in BOOLEAN, SetEnabled(r, on, failed)
  PROVE  RowInv'
  <1> DEFINE new == [Read(r, failed) EXCEPT !.on = on]
  <1>1. Read(r, failed) \in RowOf
    BY ReadType DEF RowInv
  <1>2. new \in RowOf /\ \A f \in Fields \ {"on"} : new[f] = Read(r, failed)[f]
    BY <1>1 DEF RowOf, Fields
  <1>3. Start(r, "write", new, {"on"}, failed) /\ {"on"} \in SUBSET Fields
    BY DEF SetEnabled, Fields
  <1> HIDE DEF new
  <1>. QED
    BY <1>2, <1>3, StartKeeps

\* A use of the row sets the last use only; a trigger has found it enabled.
LEMMA UseKeeps ==
  ASSUME RowInv, NEW r \in Requests, NEW failed \in BOOLEAN,
         Fire(r, failed) \/ RecordVariant(r, failed)
  PROVE  RowInv'
  <1> DEFINE new == [Read(r, failed) EXCEPT !.used = begun + 1]
  <1>1. Read(r, failed) \in RowOf /\ begun + 1 \in Nat
    BY ReadType DEF RowInv, CopyType
  <1>2. new \in RowOf /\ new.on = Read(r, failed).on /\ \A f \in Fields \ {"used"} : new[f] = Read(r, failed)[f]
    BY <1>1 DEF RowOf, Fields
  <1>3. {"used"} \in SUBSET Fields
    BY DEF Fields
  <1>4. CASE Fire(r, failed)
    <2>1. new.on /\ Start(r, "issue", new, {"used"}, failed)
      BY <1>2, <1>4 DEF Fire, MayFire
    <2> HIDE DEF new
    <2>. QED
      BY <1>2, <1>3, <2>1, StartKeeps
  <1>5. CASE RecordVariant(r, failed)
    <2>1. Start(r, "write", new, {"used"}, failed)
      BY <1>5 DEF RecordVariant
    <2> HIDE DEF new
    <2>. QED
      BY <1>2, <1>3, <2>1, StartKeeps
  <1>. QED
    BY <1>4, <1>5

LEMMA WriteKeeps ==
  ASSUME RowInv, NEW r \in Requests, NEW fare \in Fares, WriteRow(r, fare) \/ DeleteRow(r, fare)
  PROVE  RowInv'
  <1>1. CASE WriteRow(r, fare)
    <2>1. op[r].new \in RowOf /\ op[r].gives \in SUBSET Fields
      BY DEF RowInv, CopyType, OpOf
    <2>2. \A f \in Fields \ (op[r].gives \cup op[r].behind) : op[r].new[f] = row[f]
      BY <1>1 DEF WriteRow, RowInv, CopiesAgree
    <2>3. Put(r, op[r].new, op[r].gives, fare, "index")
      BY <1>1 DEF WriteRow
    <2>. QED
      BY <2>1, <2>2, <2>3, PutKeeps
  <1>2. CASE DeleteRow(r, fare)
    <2>1. Put(r, NoRow, Fields, fare, "unindex")
      BY <1>2 DEF DeleteRow
    <2>. QED
      BY <2>1, NoRowType, PutKeeps
  <1>. QED
    BY <1>1, <1>2

\* The second commands, and a request that ends without writing.
LEMMA RestKeeps ==
  ASSUME RowInv, NEW r \in Requests, NEW fare \in Fares, NEW failed \in BOOLEAN,
         \/ AddToSet(r, fare) \/ RemoveFromSet(r, fare) \/ ForgetOffset(r, fare)
         \/ IssueRun(r) \/ NoJob(r) \/ ResolveExperiment(r, failed) \/ RecordNothing(r, failed)
  PROVE  RowInv'
  <1>1. /\ mem \in [Processes -> RowOf] /\ op \in [Requests -> OpOf]
        /\ op[r] \in OpOf /\ op[r].new \in RowOf
    BY DEF RowInv, CopyType, OpOf
  <1>2. UNCHANGED <<row, begun, meant, undone>>
    BY DEF AddToSet, RemoveFromSet, Second, ForgetOffset, IssueRun, NoJob, ResolveExperiment, RecordNothing
  <1>3. mem' \in [Processes -> RowOf]
    BY <1>1, NoRowType DEF AddToSet, RemoveFromSet, Second, ForgetOffset, IssueRun, NoJob, ResolveExperiment, RecordNothing
  <1>4. \/ \E after \in {"idle", "forget", "resolved"} : op' = [op EXCEPT ![r] = [Idle EXCEPT !.at = after]]
        \/ op' = [op EXCEPT ![r] = Idle]
        \/ op' = [op EXCEPT ![r].at = "resolved"]
        \/ op[r].at = "issue" /\ op' = [op EXCEPT ![r].at = "write"]
    <2>1. ASSUME NEW value, NEW after \in {"idle", "forget"}, Second(r, value, fare, after)
          PROVE  \/ op' = [op EXCEPT ![r] = [Idle EXCEPT !.at = after]]
                 \/ op' = [op EXCEPT ![r] = Idle]
      BY <2>1 DEF Second
    <2>. QED
      BY <2>1 DEF AddToSet, RemoveFromSet, ForgetOffset, IssueRun, NoJob, ResolveExperiment, RecordNothing
  <1>5. /\ op' \in [Requests -> OpOf]
        /\ \A x \in Requests : \/ op'[x].at \notin {"issue", "write"}
                              \/ op'[x] = op[x]
                              \/ /\ op[x].at = "issue" /\ op'[x].at = "write"
                                 /\ op'[x].new = op[x].new /\ op'[x].gives = op[x].gives /\ op'[x].behind = op[x].behind
    <2>1. ASSUME NEW after \in {"idle", "forget", "resolved"}
          PROVE  [Idle EXCEPT !.at = after] \in OpOf /\ [Idle EXCEPT !.at = after].at = after
      BY IdleType DEF OpOf, Places, Idle
    <2>3. CASE op' = [op EXCEPT ![r].at = "resolved"]
      BY <1>1, <2>3 DEF OpOf, Places
    <2>4. CASE op[r].at = "issue" /\ op' = [op EXCEPT ![r].at = "write"]
      BY <1>1, <2>4 DEF OpOf, Places
    <2>5. CASE op' = [op EXCEPT ![r] = Idle]
      BY <1>1, <2>5, IdleType DEF Idle
    <2>6. ASSUME NEW after \in {"idle", "forget", "resolved"}, op' = [op EXCEPT ![r] = [Idle EXCEPT !.at = after]]
          PROVE  /\ op' \in [Requests -> OpOf]
                 /\ op'[r].at \notin {"issue", "write"} /\ \A x \in Requests \ {r} : op'[x] = op[x]
      BY <1>1, <2>1, <2>6
    <2>. QED
      BY <1>4, <2>3, <2>4, <2>5, <2>6
  <1>. QED
    BY <1>2, <1>3, <1>5, MoveKeeps

LEMMA DieKeeps ==
  ASSUME RowInv, NEW p \in Processes, Die(p)
  PROVE  RowInv'
  <1>1. UNCHANGED <<row, begun, meant, undone>> /\ mem' \in [Processes -> RowOf]
    BY NoRowType DEF Die, RowInv, CopyType
  <1>2. op' \in [Requests -> OpOf] /\ \A r \in Requests : op'[r] = op[r] \/ op'[r] = Idle
    BY IdleType DEF Die, RowInv, CopyType
  <1>. QED
    BY <1>1, <1>2, MoveKeeps DEF Idle

Step == RowNext \/ \E p \in Processes : Die(p)

LEMMA RowInvStep == RowInv /\ [Step]_rowVars => RowInv'
  <1> SUFFICES ASSUME RowInv, [Step]_rowVars PROVE RowInv'
    OBVIOUS
  <1>1. CASE UNCHANGED rowVars
    BY <1>1 DEF rowVars, RowInv, CopyType, FieldsKept, CopiesAgree
  <1>2. ASSUME NEW p \in Processes, Die(p) PROVE RowInv'
    BY <1>2, DieKeeps
  <1>3. CASE RowNext
    <2>1. ASSUME NEW r \in Requests, NEW failed \in BOOLEAN, NEW on \in BOOLEAN, NEW secret \in BOOLEAN,
                 Save(r, on, secret, failed) PROVE RowInv'
      BY <2>1, SaveKeeps
    <2>2. ASSUME NEW r \in Requests, NEW failed \in BOOLEAN, NEW on \in BOOLEAN, SetEnabled(r, on, failed)
          PROVE RowInv'
      BY <2>2, SetEnabledKeeps
    <2>3. ASSUME NEW r \in Requests, NEW failed \in BOOLEAN, Fire(r, failed) \/ RecordVariant(r, failed)
          PROVE RowInv'
      BY <2>3, UseKeeps
    <2>4. ASSUME NEW r \in Requests, NEW fare \in Fares, WriteRow(r, fare) \/ DeleteRow(r, fare) PROVE RowInv'
      BY <2>4, WriteKeeps
    <2>5. ASSUME NEW r \in Requests, NEW fare \in Fares,
                 AddToSet(r, fare) \/ RemoveFromSet(r, fare) \/ ForgetOffset(r, fare) PROVE RowInv'
      BY <2>5, RestKeeps
    <2>6. ASSUME NEW r \in Requests, NEW failed \in BOOLEAN,
                 IssueRun(r) \/ NoJob(r) \/ ResolveExperiment(r, failed) \/ RecordNothing(r, failed) PROVE RowInv'
      <3>1. "done" \in Fares
        BY DEF Fares
      <3>. QED
        BY <2>6, <3>1, RestKeeps
    <2>. QED
      BY <1>3, <2>1, <2>2, <2>3, <2>4, <2>5, <2>6 DEF RowNext
  <1>. QED
    BY <1>1, <1>2, <1>3 DEF Step

(***************************************************************************)
(* The row and the set                                                     *)
(***************************************************************************)
\* A request between its two commands finds the row as it left it, unless it was
\* crossed; with none between them the set agrees with the row.
IndexInv ==
  /\ \A r \in Requests :
       /\ op[r].at = "index" /\ ~op[r].cut => Exists(row)
       /\ op[r].at = "unindex" /\ ~op[r].cut => ~Exists(row)
       /\ op[r].at \notin {"index", "unindex"} => ~op[r].cut
       /\ op[r].at \in {"issue", "write"} => Exists(op[r].new)
       /\ op[r].at \in {"unindex", "forget"} => r \in Editors
  /\ ~torn /\ (\A r \in Requests : op[r].at \notin {"index", "unindex"}) => (Exists(row) <=> listed)

\* A run is issued by a request that began.
Issuing == {r \in Requests : op[r].at = "issue"}
CountInv == IsFiniteSet(Issuing) /\ runs \in Nat /\ runs + Cardinality(Issuing) <= begun

RestTypes ==
  /\ listed \in BOOLEAN /\ torn \in BOOLEAN
  /\ meant \in RowOf /\ undone \subseteq Fields /\ faults \in 0..MaxFaults

RowsInv == RowInv /\ IndexInv /\ CountInv /\ RestTypes

LEMMA NoRowIsNone == ~Exists(NoRow)
  BY DEF Exists, NoRow

LEMMA IdleIs == Idle.at = "idle" /\ Idle.cut = FALSE
  BY DEF Idle

LEMMA RowsInvInit == RowInit => RowsInv
  <1> SUFFICES ASSUME RowInit PROVE RowsInv
    OBVIOUS
  <1>1. \A r \in Requests : op[r] = Idle
    BY DEF RowInit
  <1>2. IndexInv
    BY <1>1, IdleIs, NoRowIsNone DEF RowInit, IndexInv
  <1>3. CountInv
    <2>1. Issuing = {}
      BY <1>1, IdleIs DEF Issuing
    <2>2. IsFiniteSet({}) /\ Cardinality({}) = 0
      BY FS_EmptySet
    <2>. QED
      BY <2>1, <2>2 DEF CountInv, RowInit
  <1>4. RestTypes
    <2>1. faults \in 0..MaxFaults
      BY RowAssumption DEF RowInit
    <2>. QED
      BY <2>1, NoRowType DEF RowInit, RestTypes
  <1>. QED
    BY <1>2, <1>3, <1>4, RowInvInit DEF RowsInv

\* A request that begins.
LEMMA StartIndex ==
  ASSUME RowInv, IndexInv, NEW r \in Requests, NEW at \in {"issue", "write"}, NEW new, Exists(new),
         NEW gives, NEW failed \in BOOLEAN, Start(r, at, new, gives, failed)
  PROVE  IndexInv'
  <1>1. PICK x : /\ x.at = at /\ x.new = new /\ x.cut = FALSE /\ op' = [op EXCEPT ![r] = x]
    <2> DEFINE x == [Idle EXCEPT !.at = at, !.new = new, !.gives = gives,
                                 !.behind = {f \in Fields : Read(r, failed)[f] # row[f]}]
    <2>1. x.at = at /\ x.new = new /\ x.cut = FALSE
      BY DEF Idle
    <2>2. op' = [op EXCEPT ![r] = x]
      BY DEF Start
    <2> HIDE DEF x
    <2>. QED
      BY <2>1, <2>2
  <1>2. \A y \in Requests : op'[y] = IF y = r THEN x ELSE op[y]
    BY <1>1 DEF RowInv, CopyType
  <1>3. UNCHANGED <<row, listed, torn>> /\ op[r].at \in {"idle", "resolved"}
    BY DEF Start
  <1>4. \A y \in Requests : op'[y].at \in {"index", "unindex"} <=> op[y].at \in {"index", "unindex"}
    BY <1>1, <1>2, <1>3
  <1>5. \A y \in Requests :
          /\ op'[y].at = "index" /\ ~op'[y].cut => Exists(row)
          /\ op'[y].at = "unindex" /\ ~op'[y].cut => ~Exists(row)
          /\ op'[y].at \notin {"index", "unindex"} => ~op'[y].cut
          /\ op'[y].at \in {"issue", "write"} => Exists(op'[y].new)
          /\ op'[y].at \in {"unindex", "forget"} => y \in Editors
    BY <1>1, <1>2 DEF IndexInv
  <1>. QED
    BY <1>3, <1>4, <1>5 DEF IndexInv

\* The first command: those between their two commands are crossed if the row comes
\* or goes.
LEMMA PutIndex ==
  ASSUME RowInv, IndexInv, NEW r \in Requests, NEW new \in RowOf, NEW gives, NEW fare \in Fares,
         NEW next \in {"index", "unindex"}, Exists(new) <=> next = "index", next = "unindex" => r \in Editors,
         op[r].at \notin {"index", "unindex"}, Put(r, new, gives, fare, next)
  PROVE  IndexInv'
  <1>1. PICK base : base = IF Happens(fare) THEN Overtaken(r, new) ELSE op
    OBVIOUS
  <1>2. PICK mine : mine = IF fare = "done" THEN [op[r] EXCEPT !.at = next, !.new = new] ELSE Idle
    OBVIOUS
  <1>3. base \in [Requests -> OpOf]
    BY <1>1, OvertakenType DEF RowInv, CopyType
  <1>4. op' = [base EXCEPT ![r] = mine] /\ row' = (IF Happens(fare) THEN new ELSE row)
        /\ torn' = (torn \/ fare = "unanswered") /\ listed' = listed
    BY <1>1, <1>2 DEF Put
  <1>5. \A y \in Requests : op'[y] = IF y = r THEN mine ELSE base[y]
    BY <1>3, <1>4
  <1>6. /\ fare = "done" => mine.at = next /\ ~mine.cut
        /\ fare # "done" => mine.at = "idle" /\ ~mine.cut
    <2>1. op[r] \in OpOf /\ ~op[r].cut
      BY DEF RowInv, CopyType, IndexInv
    <2>. QED
      BY <1>2, <2>1, IdleIs DEF OpOf
  <1>7. ASSUME NEW y \in Requests \ {r}
        PROVE  /\ base[y].at = op[y].at /\ base[y].new = op[y].new
               /\ ~base[y].cut /\ op[y].at \in {"index", "unindex"} => ~op[y].cut /\ (Exists(row') <=> op[y].at = "index")
               /\ op[y].at \notin {"index", "unindex"} => ~base[y].cut
    <2>1. op[y] \in OpOf
      BY DEF RowInv, CopyType
    <2>2. CASE Happens(fare)
      <3>1. base[y] = [op[y] EXCEPT !.behind = IF op[y].at \in {"issue", "write"} THEN @ \cup {f \in Fields : new[f] # row[f]} ELSE @,
                          !.cut = @ \/ (op[y].at \in {"index", "unindex"} /\ Exists(new) # (op[y].at = "index"))]
        BY <1>1, <2>2 DEF Overtaken
      <3>2. /\ base[y].at = op[y].at /\ base[y].new = op[y].new
            /\ base[y].cut = (op[y].cut \/ (op[y].at \in {"index", "unindex"} /\ Exists(new) # (op[y].at = "index")))
        BY <2>1, <3>1 DEF OpOf
      <3>3. row' = new
        BY <1>4, <2>2
      <3>. QED
        BY <3>2, <3>3, Zenon DEF IndexInv
    <2>3. CASE ~Happens(fare)
      <3>1. base[y] = op[y] /\ row' = row
        BY <1>1, <1>4, <2>3
      <3>. QED
        BY <3>1 DEF IndexInv
    <2>. QED
      BY <2>2, <2>3
  <1>8. fare = "done" => row' = new
    BY <1>4 DEF Happens
  <1>9. \A y \in Requests :
          /\ op'[y].at = "index" /\ ~op'[y].cut => Exists(row')
          /\ op'[y].at = "unindex" /\ ~op'[y].cut => ~Exists(row')
          /\ op'[y].at \notin {"index", "unindex"} => ~op'[y].cut
          /\ op'[y].at \in {"issue", "write"} => Exists(op'[y].new)
          /\ op'[y].at \in {"unindex", "forget"} => y \in Editors
    <2> SUFFICES ASSUME NEW y \in Requests
                 PROVE  /\ op'[y].at = "index" /\ ~op'[y].cut => Exists(row')
                        /\ op'[y].at = "unindex" /\ ~op'[y].cut => ~Exists(row')
                        /\ op'[y].at \notin {"index", "unindex"} => ~op'[y].cut
                        /\ op'[y].at \in {"issue", "write"} => Exists(op'[y].new)
                        /\ op'[y].at \in {"unindex", "forget"} => y \in Editors
      OBVIOUS
    <2>1. CASE y = r
      BY <1>5, <1>6, <1>8, <2>1
    <2>2. CASE y # r
      BY <1>5, <1>7, <2>2 DEF IndexInv
    <2>. QED
      BY <2>1, <2>2
  <1>10. ASSUME ~torn', \A y \in Requests : op'[y].at \notin {"index", "unindex"} PROVE Exists(row') <=> listed'
    <2>1. fare # "done" /\ fare # "unanswered" /\ ~torn
      BY <1>4, <1>5, <1>6, <1>10
    <2>2. row' = row
      BY <1>4, <2>1 DEF Fares, Happens
    <2>3. \A y \in Requests : op[y].at \notin {"index", "unindex"}
      BY <1>5, <1>7, <1>10
    <2>. QED
      BY <1>4, <2>1, <2>2, <2>3 DEF IndexInv
  <1>. QED
    BY <1>9, <1>10 DEF IndexInv

\* The second command.
LEMMA SecondIndex ==
  ASSUME RowInv, IndexInv, NEW r \in Requests, op[r].at \in {"index", "unindex"}, NEW value, value = (op[r].at = "index"),
         NEW fare \in Fares, NEW next \in {"idle", "forget"}, next = "forget" => r \in Editors,
         Second(r, value, fare, next)
  PROVE  IndexInv'
  <1>1. PICK x : x.at \in {"idle", "forget"} /\ (x.at = "forget" => r \in Editors) /\ ~x.cut /\ op' = [op EXCEPT ![r] = x]
    <2> DEFINE x == IF fare = "done" THEN [Idle EXCEPT !.at = next] ELSE Idle
    <2>1. x.at \in {"idle", "forget"} /\ (x.at = "forget" => r \in Editors) /\ ~x.cut
      BY DEF Idle
    <2>2. op' = [op EXCEPT ![r] = x]
      BY DEF Second
    <2> HIDE DEF x
    <2>. QED
      BY <2>1, <2>2
  <1>2. \A y \in Requests : op'[y] = IF y = r THEN x ELSE op[y]
    BY <1>1 DEF RowInv, CopyType
  <1>3. row' = row /\ torn' = (op[r].cut \/ fare = "failed") /\ listed' = IF Happens(fare) THEN value ELSE listed
    BY DEF Second
  <1>4. ~torn' => (Exists(row') <=> listed')
    <2>1. SUFFICES ASSUME ~torn' PROVE Exists(row) <=> listed'
      BY <1>3
    <2>2. ~op[r].cut /\ listed' = value
      BY <1>3, <2>1 DEF Happens
    <2>3. Exists(row) <=> op[r].at = "index"
      BY <2>2 DEF IndexInv
    <2>. QED
      BY <2>2, <2>3
  <1>5. \A y \in Requests :
          /\ op'[y].at = "index" /\ ~op'[y].cut => Exists(row)
          /\ op'[y].at = "unindex" /\ ~op'[y].cut => ~Exists(row)
          /\ op'[y].at \notin {"index", "unindex"} => ~op'[y].cut
          /\ op'[y].at \in {"issue", "write"} => Exists(op'[y].new)
          /\ op'[y].at \in {"unindex", "forget"} => y \in Editors
    BY <1>1, <1>2 DEF IndexInv
  <1>. QED
    BY <1>3, <1>4, <1>5 DEF IndexInv

\* Requests that are not between their two commands move on or end.
LEMMA MoveIndex ==
  ASSUME IndexInv, UNCHANGED <<row, listed, torn>>,
         \A y \in Requests : \/ op'[y] = op[y]
                             \/ /\ op[y].at \notin {"index", "unindex"} /\ op'[y].at \in {"idle", "resolved", "write"}
                                /\ ~op'[y].cut /\ (op'[y].at = "write" => Exists(op'[y].new))
  PROVE  IndexInv'
  <1>1. \A y \in Requests : op'[y].at \in {"index", "unindex"} <=> op[y].at \in {"index", "unindex"}
    OBVIOUS
  <1>2. \A y \in Requests :
          /\ op'[y].at = "index" /\ ~op'[y].cut => Exists(row)
          /\ op'[y].at = "unindex" /\ ~op'[y].cut => ~Exists(row)
          /\ op'[y].at \notin {"index", "unindex"} => ~op'[y].cut
          /\ op'[y].at \in {"issue", "write"} => Exists(op'[y].new)
          /\ op'[y].at \in {"unindex", "forget"} => y \in Editors
    BY DEF IndexInv
  <1>. QED
    BY <1>1, <1>2 DEF IndexInv

LEMMA RequestsAre == ASSUME NEW r \in Editors \cup Users PROVE r \in Requests
  BY DEF Requests

\* What begins a request makes a row.
LEMMA Begins ==
  ASSUME RowInv, NEW r \in Requests, NEW failed \in BOOLEAN, NEW on \in BOOLEAN, NEW secret \in BOOLEAN,
         Save(r, on, secret, failed) \/ SetEnabled(r, on, failed) \/ Fire(r, failed) \/ RecordVariant(r, failed)
  PROVE  \E at \in {"issue", "write"}, new \in RowOf, gives \in SUBSET Fields :
           Exists(new) /\ Start(r, at, new, gives, failed)
  <1>1. PICK b \in Nat : b = begun
    BY DEF RowInv, CopyType
  <1>2. PICK old \in RowOf : old = Read(r, failed)
    BY ReadType DEF RowInv
  <1>3. {"on"} \in SUBSET Fields /\ {"used"} \in SUBSET Fields /\ {"text", "on"} \cup (IF secret THEN {"secret"} ELSE {}) \in SUBSET Fields
    BY DEF Fields
  <1>4. CASE Save(r, on, secret, failed)
    <2>1. PICK new : new = SavedRow(old, b + 1, on, secret)
      OBVIOUS
    <2>2. new \in RowOf
      BY <2>1, SavedRowType
    <2>3. new.text = b + 1 /\ b + 1 # 0
      BY <2>1 DEF SavedRow
    <2>4. Start(r, "write", new, {"text", "on"} \cup (IF secret THEN {"secret"} ELSE {}), failed)
      BY <1>1, <1>2, <1>4, <2>1 DEF Save
    <2>. QED
      BY <1>3, <2>2, <2>3, <2>4 DEF Exists
  <1>5. CASE SetEnabled(r, on, failed)
    <2>1. PICK new : new = [old EXCEPT !.on = on]
      OBVIOUS
    <2>2. new \in RowOf /\ new.text = old.text
      BY <2>1 DEF RowOf
    <2>3. Exists(old) /\ Start(r, "write", new, {"on"}, failed)
      BY <1>2, <1>5, <2>1 DEF SetEnabled
    <2>. QED
      BY <1>3, <2>2, <2>3 DEF Exists
  <1>6. CASE Fire(r, failed) \/ RecordVariant(r, failed)
    <2>1. PICK new : new = [old EXCEPT !.used = b + 1]
      OBVIOUS
    <2>2. new \in RowOf /\ new.text = old.text
      BY <2>1 DEF RowOf
    <2>3. Exists(old) /\ \E at \in {"issue", "write"} : Start(r, at, new, {"used"}, failed)
      BY <1>1, <1>2, <1>6, <2>1 DEF Fire, MayFire, RecordVariant
    <2>. QED
      BY <1>3, <2>2, <2>3 DEF Exists
  <1>. QED
    BY <1>4, <1>5, <1>6

\* A request that neither writes nor begins.
Moves(r, failed) == IssueRun(r) \/ NoJob(r) \/ ResolveExperiment(r, failed) \/ RecordNothing(r, failed)

LEMMA MovesTo ==
  ASSUME RowInv, IndexInv, NEW r \in Requests, NEW fare \in Fares, NEW failed \in BOOLEAN,
         Moves(r, failed) \/ ForgetOffset(r, fare)
  PROVE  /\ UNCHANGED <<row, listed, torn, begun, meant, undone>> /\ op[r].at \notin {"index", "unindex"}
         /\ \E x : /\ op' = [op EXCEPT ![r] = x] /\ x.at \in {"idle", "resolved", "write"} /\ ~x.cut
                   /\ x.at = "write" => Exists(x.new)
  <1>1. /\ UNCHANGED <<row, listed, torn, begun, meant, undone>> /\ op[r].at \notin {"index", "unindex"}
    BY DEF Moves, IssueRun, NoJob, ResolveExperiment, RecordNothing, ForgetOffset
  <1>2. op[r] \in OpOf /\ ~op[r].cut
    BY <1>1 DEF RowInv, CopyType, IndexInv
  <1>3. CASE op' = [op EXCEPT ![r] = Idle]
    BY <1>1, <1>3, IdleIs
  <1>4. CASE op[r].at = "issue" /\ op' = [op EXCEPT ![r].at = "write"]
    <2>1. PICK x : x = [op[r] EXCEPT !.at = "write"]
      OBVIOUS
    <2>2. x.at = "write" /\ x.cut = op[r].cut /\ x.new = op[r].new
      BY <1>2, <2>1 DEF OpOf
    <2>3. op' = [op EXCEPT ![r] = x]
      BY <1>4, <2>1
    <2>4. Exists(op[r].new)
      BY <1>4 DEF IndexInv
    <2>. QED
      BY <1>1, <1>2, <2>2, <2>3, <2>4
  <1>5. CASE op' = [op EXCEPT ![r].at = "resolved"]
    <2>1. PICK x : x = [op[r] EXCEPT !.at = "resolved"]
      OBVIOUS
    <2>2. x.at = "resolved" /\ x.cut = op[r].cut
      BY <1>2, <2>1 DEF OpOf
    <2>3. op' = [op EXCEPT ![r] = x]
      BY <1>5, <2>1
    <2>. QED
      BY <1>1, <1>2, <2>2, <2>3
  <1>. QED
    BY <1>3, <1>4, <1>5 DEF Moves, IssueRun, NoJob, ResolveExperiment, RecordNothing, ForgetOffset

LEMMA MovesIndex ==
  ASSUME RowInv, IndexInv, NEW r \in Requests, NEW fare \in Fares, NEW failed \in BOOLEAN,
         Moves(r, failed) \/ ForgetOffset(r, fare)
  PROVE  IndexInv'
  <1>1. PICK x : /\ op' = [op EXCEPT ![r] = x] /\ x.at \in {"idle", "resolved", "write"} /\ ~x.cut
                 /\ x.at = "write" => Exists(x.new)
    BY MovesTo
  <1>2. \A y \in Requests : op'[y] = IF y = r THEN x ELSE op[y]
    BY <1>1 DEF RowInv, CopyType
  <1>3. UNCHANGED <<row, listed, torn>> /\ op[r].at \notin {"index", "unindex"}
    BY MovesTo
  <1>. QED
    BY <1>1, <1>2, <1>3, MoveIndex

LEMMA WriteIndex ==
  ASSUME RowInv, IndexInv, NEW r \in Requests, NEW fare \in Fares,
         WriteRow(r, fare) \/ DeleteRow(r, fare) \/ AddToSet(r, fare) \/ RemoveFromSet(r, fare)
  PROVE  IndexInv'
  <1>1. CASE WriteRow(r, fare)
    <2>1. op[r].new \in RowOf /\ Exists(op[r].new) /\ op[r].at \notin {"index", "unindex"}
      BY <1>1 DEF WriteRow, RowInv, CopyType, OpOf, IndexInv
    <2>2. Put(r, op[r].new, op[r].gives, fare, "index")
      BY <1>1 DEF WriteRow
    <2>. QED
      BY <2>1, <2>2, PutIndex
  <1>2. CASE DeleteRow(r, fare)
    <2>1. Put(r, NoRow, Fields, fare, "unindex") /\ r \in Editors /\ op[r].at \notin {"index", "unindex"}
      BY <1>2 DEF DeleteRow
    <2>. QED
      BY <2>1, NoRowType, NoRowIsNone, PutIndex
  <1>3. CASE AddToSet(r, fare)
    <2>1. op[r].at = "index" /\ Second(r, TRUE, fare, "idle")
      BY <1>3 DEF AddToSet
    <2>. QED
      BY <2>1, SecondIndex
  <1>4. CASE RemoveFromSet(r, fare)
    <2>1. PICK next \in {"idle", "forget"} : op[r].at = "unindex" /\ Second(r, FALSE, fare, next) /\ r \in Editors
      BY <1>4 DEF RemoveFromSet, AfterSrem, IndexInv
    <2>2. FALSE = (op[r].at = "index")
      BY <2>1
    <2>. QED
      BY <2>1, <2>2, SecondIndex
  <1>. QED
    BY <1>1, <1>2, <1>3, <1>4

LEMMA DieIndex ==
  ASSUME RowInv, IndexInv, NEW p \in Processes, Die(p)
  PROVE  IndexInv'
  <1>1. \A r \in Requests : op'[r] = IF Home(r) = p THEN Idle ELSE op[r]
    BY DEF Die
  <1>2. UNCHANGED <<row, listed>> /\ torn' = (torn \/ \E r \in Requests : Home(r) = p /\ op[r].at \in {"index", "unindex"})
    BY DEF Die
  <1>3. \A y \in Requests :
          /\ op'[y].at = "index" /\ ~op'[y].cut => Exists(row)
          /\ op'[y].at = "unindex" /\ ~op'[y].cut => ~Exists(row)
          /\ op'[y].at \notin {"index", "unindex"} => ~op'[y].cut
          /\ op'[y].at \in {"issue", "write"} => Exists(op'[y].new)
          /\ op'[y].at \in {"unindex", "forget"} => y \in Editors
    BY <1>1, IdleIs DEF IndexInv
  <1>4. ASSUME ~torn', \A y \in Requests : op'[y].at \notin {"index", "unindex"} PROVE Exists(row) <=> listed
    <2>1. ~torn /\ \A y \in Requests : op[y].at \notin {"index", "unindex"}
      BY <1>1, <1>2, <1>4
    <2>. QED
      BY <2>1 DEF IndexInv
  <1>. QED
    BY <1>2, <1>3, <1>4 DEF IndexInv

(***************************************************************************)
(* The runs that triggers issue, and the other types                       *)
(***************************************************************************)
LEMMA CountMore ==
  ASSUME CountInv, NEW r, Issuing' \subseteq Issuing \cup {r}, NEW n \in Nat, begun = n, begun' = n + 1, runs' = runs
  PROVE  CountInv'
  <1>1. PICK I : I = Issuing' /\ I \subseteq Issuing \cup {r}
    OBVIOUS
  <1>2. IsFiniteSet(Issuing \cup {r}) /\ Cardinality(Issuing \cup {r}) <= Cardinality(Issuing) + 1
        /\ Cardinality(Issuing) \in Nat /\ Cardinality(Issuing \cup {r}) \in Nat
    <2>1. IsFiniteSet(Issuing) /\ IsFiniteSet(Issuing \cup {r})
      BY FS_AddElement DEF CountInv
    <2>2. Cardinality(Issuing) \in Nat /\ Cardinality(Issuing \cup {r}) \in Nat
      BY <2>1, FS_CardinalityType
    <2>3. Cardinality(Issuing \cup {r}) = Cardinality(Issuing) \/ Cardinality(Issuing \cup {r}) = Cardinality(Issuing) + 1
      BY <2>1, FS_AddElement, Zenon
    <2>. QED
      BY <2>1, <2>2, <2>3
  <1>3. IsFiniteSet(I) /\ Cardinality(I) <= Cardinality(Issuing \cup {r}) /\ Cardinality(I) \in Nat
    BY <1>1, <1>2, FS_Subset, FS_CardinalityType
  <1>4. runs + Cardinality(I) <= n + 1
    BY <1>2, <1>3 DEF CountInv
  <1>. QED
    BY <1>1, <1>3, <1>4 DEF CountInv

LEMMA CountLess ==
  ASSUME CountInv, Issuing' \subseteq Issuing, NEW n \in Nat, begun = n, begun' = n, runs' = runs
  PROVE  CountInv'
  <1>1. PICK I : I = Issuing' /\ I \subseteq Issuing
    OBVIOUS
  <1>2. IsFiniteSet(I) /\ Cardinality(I) <= Cardinality(Issuing) /\ Cardinality(I) \in Nat /\ Cardinality(Issuing) \in Nat
    BY <1>1, FS_Subset, FS_CardinalityType DEF CountInv
  <1>3. runs + Cardinality(I) <= n
    BY <1>2 DEF CountInv
  <1>. QED
    BY <1>1, <1>2, <1>3 DEF CountInv

LEMMA CountRun ==
  ASSUME CountInv, NEW r \in Issuing, Issuing' = Issuing \ {r}, NEW n \in Nat, begun = n, begun' = n, runs' = runs + 1
  PROVE  CountInv'
  <1>1. PICK I : I = Issuing' /\ I = Issuing \ {r}
    OBVIOUS
  <1>2. IsFiniteSet(I) /\ Cardinality(I) = Cardinality(Issuing) - 1 /\ Cardinality(I) \in Nat /\ Cardinality(Issuing) \in Nat
    BY <1>1, FS_RemoveElement, FS_CardinalityType DEF CountInv
  <1>3. runs' \in Nat /\ runs' + Cardinality(I) <= n
    BY <1>2 DEF CountInv
  <1>. QED
    BY <1>1, <1>2, <1>3 DEF CountInv

\* At most one command fails in a step.
LEMMA SpendType ==
  ASSUME faults \in 0..MaxFaults, NEW failed \in BOOLEAN, MayFail(failed), Spend(failed)
  PROVE  faults' \in 0..MaxFaults
  BY RowAssumption DEF MayFail, Spend

LEMMA StartRest ==
  ASSUME RowsInv, NEW r \in Requests, NEW at \in {"issue", "write"}, NEW new \in RowOf, NEW gives, NEW failed \in BOOLEAN,
         Start(r, at, new, gives, failed)
  PROVE  CountInv' /\ RestTypes'
  <1>1. PICK n \in Nat : n = begun /\ begun' = n + 1 /\ runs' = runs
    BY DEF Start, RowsInv, RowInv, CopyType
  <1>2. \A y \in Requests \ {r} : op'[y] = op[y]
    BY DEF Start, RowsInv, RowInv, CopyType
  <1>3. Issuing' \subseteq Issuing \cup {r}
    BY <1>2 DEF Issuing
  <1>4. CountInv'
    BY <1>1, <1>3, CountMore DEF RowsInv
  <1>5. faults' \in 0..MaxFaults
    BY SpendType DEF Start, RowsInv, RestTypes
  <1>6. RestTypes'
    BY <1>5 DEF Start, RowsInv, RestTypes
  <1>. QED
    BY <1>4, <1>6

LEMMA PutRest ==
  ASSUME RowsInv, NEW r \in Requests, NEW new \in RowOf, NEW gives \in SUBSET Fields, NEW fare \in Fares,
         NEW next \in {"index", "unindex"}, op[r].at # "issue", Put(r, new, gives, fare, next)
  PROVE  CountInv' /\ RestTypes'
  <1>1. PICK n \in Nat : n = begun /\ begun' = n /\ runs' = runs
    BY DEF Put, RowsInv, RowInv, CopyType
  <1>2. PICK base : base = (IF Happens(fare) THEN Overtaken(r, new) ELSE op) /\ base \in [Requests -> OpOf]
    BY OvertakenType DEF RowsInv, RowInv, CopyType
  <1>3. \A y \in Requests \ {r} : base[y].at = op[y].at
    BY <1>2 DEF Overtaken, RowsInv, RowInv, CopyType, OpOf
  <1>4. PICK mine : mine = IF fare = "done" THEN [op[r] EXCEPT !.at = next, !.new = new] ELSE Idle
    OBVIOUS
  <1>12. mine.at \in {"idle", "index", "unindex"}
    BY <1>4, IdleIs DEF RowsInv, RowInv, CopyType, OpOf
  <1>13. op' = [base EXCEPT ![r] = mine]
    BY <1>2, <1>4 DEF Put
  <1>5. \A y \in Requests : op'[y] = IF y = r THEN mine ELSE base[y]
    BY <1>2, <1>13
  <1>6. Issuing' \subseteq Issuing
    BY <1>3, <1>12, <1>5 DEF Issuing
  <1>7. CountInv'
    BY <1>1, <1>6, CountLess DEF RowsInv
  <1>8. faults' \in 0..MaxFaults
    BY SpendType DEF Put, RowsInv, RestTypes
  <1>9. meant' \in RowOf
    <2>1. meant' = [f \in Fields |-> IF f \in gives THEN new[f] ELSE meant[f]] /\ meant \in RowOf
      BY DEF Put, RowsInv, RestTypes
    <2>2. PICK m : m = meant' /\ m = [f \in Fields |-> IF f \in gives THEN new[f] ELSE meant[f]]
      BY <2>1
    <2>3. m = [text |-> m.text, on |-> m.on, secret |-> m.secret, used |-> m.used]
      BY <2>2 DEF Fields
    <2>4. m.text \in Nat /\ m.on \in BOOLEAN /\ m.secret \in Nat /\ m.used \in Nat
      BY <2>1, <2>2 DEF Fields, RowOf
    <2>. QED
      BY <2>2, <2>3, <2>4 DEF RowOf
  <1>10. undone' \subseteq Fields
    BY DEF Put, RowsInv, RestTypes, RowInv, CopyType, OpOf
  <1>11. listed' \in BOOLEAN /\ torn' \in BOOLEAN
    <2>1. torn' = (torn \/ fare = "unanswered") /\ listed' = listed
      BY DEF Put
    <2>. QED
      BY <2>1, Zenon DEF RowsInv, RestTypes
  <1>. QED
    BY <1>7, <1>8, <1>9, <1>10, <1>11 DEF RestTypes

LEMMA SecondRest ==
  ASSUME RowsInv, NEW r \in Requests, NEW value \in BOOLEAN, NEW fare \in Fares, NEW next \in {"idle", "forget"},
         Second(r, value, fare, next)
  PROVE  CountInv' /\ RestTypes'
  <1>1. PICK n \in Nat : n = begun /\ begun' = n /\ runs' = runs
    BY DEF Second, RowsInv, RowInv, CopyType
  <1>2. PICK x : x = IF fare = "done" THEN [Idle EXCEPT !.at = next] ELSE Idle
    OBVIOUS
  <1>9. x.at \in {"idle", "forget"}
    BY <1>2 DEF Idle
  <1>10. op' = [op EXCEPT ![r] = x]
    BY <1>2 DEF Second
  <1>3. \A y \in Requests : op'[y] = IF y = r THEN x ELSE op[y]
    BY <1>10 DEF RowsInv, RowInv, CopyType
  <1>4. Issuing' \subseteq Issuing
    BY <1>3, <1>9 DEF Issuing
  <1>5. CountInv'
    BY <1>1, <1>4, CountLess DEF RowsInv
  <1>6. faults' \in 0..MaxFaults
    BY SpendType DEF Second, RowsInv, RestTypes
  <1>7. meant' = meant /\ undone' = undone /\ torn' = (op[r].cut \/ fare = "failed") /\ listed' \in {value, listed}
    BY DEF Second
  <1>8. torn' \in BOOLEAN
    BY <1>7, Zenon
  <1>. QED
    BY <1>5, <1>6, <1>7, <1>8 DEF RestTypes, RowsInv

LEMMA MovesRest ==
  ASSUME RowsInv, NEW r \in Requests, NEW fare \in Fares, NEW failed \in BOOLEAN,
         Moves(r, failed) \/ ForgetOffset(r, fare)
  PROVE  CountInv' /\ RestTypes'
  <1>1. PICK n \in Nat : n = begun /\ begun' = n
    BY MovesTo DEF RowsInv, RowInv, CopyType
  <1>2. PICK x : op' = [op EXCEPT ![r] = x] /\ x.at \in {"idle", "resolved", "write"}
    BY MovesTo DEF RowsInv
  <1>3. \A y \in Requests : op'[y] = IF y = r THEN x ELSE op[y]
    BY <1>2 DEF RowsInv, RowInv, CopyType
  <1>4. Issuing' = Issuing \ {r}
    BY <1>2, <1>3 DEF Issuing
  <1>5. CountInv'
    <2>1. CASE IssueRun(r)
      <3>1. r \in Issuing /\ runs' = runs + 1
        BY <2>1 DEF IssueRun, Issuing
      <3>. QED
        BY <1>1, <1>4, <3>1, CountRun DEF RowsInv
    <2>2. CASE ~IssueRun(r)
      <3>1. runs' = runs
        BY <2>2 DEF Moves, NoJob, ResolveExperiment, RecordNothing, ForgetOffset
      <3>. QED
        BY <1>1, <1>4, <3>1, CountLess DEF RowsInv
    <2>. QED
      BY <2>1, <2>2
  <1>6. faults' \in 0..MaxFaults
    BY SpendType DEF Moves, IssueRun, NoJob, ResolveExperiment, RecordNothing, ForgetOffset, RowsInv, RestTypes
  <1>7. UNCHANGED <<listed, torn, meant, undone>>
    BY MovesTo DEF RowsInv
  <1>. QED
    BY <1>5, <1>6, <1>7 DEF RestTypes, RowsInv

LEMMA DieRest ==
  ASSUME RowsInv, NEW p \in Processes, Die(p)
  PROVE  CountInv' /\ RestTypes'
  <1>1. PICK n \in Nat : n = begun /\ begun' = n /\ runs' = runs
    BY DEF Die, RowsInv, RowInv, CopyType
  <1>2. \A r \in Requests : op'[r] = IF Home(r) = p THEN Idle ELSE op[r]
    BY DEF Die
  <1>3. Issuing' \subseteq Issuing
    BY <1>2, IdleIs DEF Issuing
  <1>4. CountInv'
    BY <1>1, <1>3, CountLess DEF RowsInv
  <1>5. faults' \in 0..MaxFaults
    BY RowAssumption DEF Die, RowsInv, RestTypes
  <1>6. torn' \in BOOLEAN
    <2>1. torn' = (torn \/ \E r \in Requests : Home(r) = p /\ op[r].at \in {"index", "unindex"})
      BY DEF Die
    <2>. QED
      BY <2>1, Zenon
  <1>. QED
    BY <1>4, <1>5, <1>6 DEF Die, RestTypes, RowsInv

\* Every step of the requests keeps the whole invariant, and so does one of the
\* connector, which leaves the row and the requests alone.
Aside == UNCHANGED <<store, row, listed, mem, op, begun, meant, undone, torn, runs>> /\ faults' \in 0..MaxFaults

LEMMA AsideKeeps == RowsInv /\ Aside => RowsInv'
  BY DEF RowsInv, Aside, RowInv, CopyType, FieldsKept, CopiesAgree, IndexInv, CountInv, Issuing, RestTypes

LEMMA RowsInvStep == RowsInv /\ [Step]_rowVars => RowsInv'
  <1> SUFFICES ASSUME RowsInv, [Step]_rowVars PROVE RowsInv'
    OBVIOUS
  <1>0. RowInv'
    BY RowInvStep DEF RowsInv
  <1>1. CASE UNCHANGED rowVars
    BY <1>1, AsideKeeps DEF rowVars, Aside, RowsInv, RestTypes
  <1>2. ASSUME NEW p \in Processes, Die(p) PROVE RowsInv'
    BY <1>0, <1>2, DieIndex, DieRest DEF RowsInv
  <1>3. ASSUME NEW r \in Requests, NEW failed \in BOOLEAN, NEW on \in BOOLEAN, NEW secret \in BOOLEAN,
               Save(r, on, secret, failed) \/ SetEnabled(r, on, failed) \/ Fire(r, failed) \/ RecordVariant(r, failed)
        PROVE  RowsInv'
    <2>1. PICK at \in {"issue", "write"}, new \in RowOf, gives \in SUBSET Fields :
             Exists(new) /\ Start(r, at, new, gives, failed)
      BY <1>3, Begins DEF RowsInv
    <2>2. IndexInv'
      BY <2>1, StartIndex DEF RowsInv
    <2>3. CountInv' /\ RestTypes'
      BY <2>1, StartRest
    <2>. QED
      BY <1>0, <2>2, <2>3 DEF RowsInv
  <1>4. ASSUME NEW r \in Requests, NEW fare \in Fares,
               WriteRow(r, fare) \/ DeleteRow(r, fare) \/ AddToSet(r, fare) \/ RemoveFromSet(r, fare)
        PROVE  RowsInv'
    <2>1. IndexInv'
      BY <1>4, WriteIndex DEF RowsInv
    <2>2. CASE WriteRow(r, fare)
      <3>1. op[r].new \in RowOf /\ op[r].gives \in SUBSET Fields /\ op[r].at # "issue"
        BY <2>2 DEF WriteRow, RowsInv, RowInv, CopyType, OpOf
      <3>2. Put(r, op[r].new, op[r].gives, fare, "index")
        BY <2>2 DEF WriteRow
      <3>. QED
        BY <1>0, <2>1, <3>1, <3>2, PutRest DEF RowsInv
    <2>3. CASE DeleteRow(r, fare)
      <3>1. Put(r, NoRow, Fields, fare, "unindex") /\ op[r].at # "issue"
        BY <2>3 DEF DeleteRow
      <3>. QED
        BY <1>0, <2>1, <3>1, NoRowType, PutRest DEF RowsInv
    <2>4. CASE AddToSet(r, fare) \/ RemoveFromSet(r, fare)
      <3>1. \E value \in BOOLEAN, next \in {"idle", "forget"} : Second(r, value, fare, next)
        BY <2>4 DEF AddToSet, RemoveFromSet, AfterSrem
      <3>. QED
        BY <1>0, <2>1, <3>1, SecondRest DEF RowsInv
    <2>. QED
      BY <1>4, <2>2, <2>3, <2>4
  <1>5. ASSUME NEW r \in Requests, NEW fare \in Fares, NEW failed \in BOOLEAN,
               Moves(r, failed) \/ ForgetOffset(r, fare)
        PROVE  RowsInv'
    <2>1. IndexInv'
      BY <1>5, MovesIndex DEF RowsInv
    <2>2. CountInv' /\ RestTypes'
      BY <1>5, MovesRest
    <2>. QED
      BY <1>0, <2>1, <2>2 DEF RowsInv
  <1>6. "done" \in Fares /\ TRUE \in BOOLEAN
    BY DEF Fares
  <1>. QED
    BY <1>1, <1>2, <1>3, <1>4, <1>5, <1>6 DEF Step, RowNext, Moves

(***************************************************************************)
(* The connector                                                           *)
(***************************************************************************)
ConnOf == [at : {"idle", "listed", "poll", "store", "handle"}, last : Nat, batch : Seq(Nat)]
AtWork == conn.at \in {"store", "handle"}
ConnTypes ==
  /\ arrived \in 0..MaxUpdates /\ confirmed \in 0..arrived /\ memOffset \in 0..arrived /\ offset \in 0..arrived
  /\ conn \in ConnOf /\ conn.last \in 0..arrived
  /\ handled \in [Updates -> Nat] /\ forgotten \subseteq 1..arrived /\ rewound \in BOOLEAN

\* The updates at hand follow each other, and those before them are done.
BatchInv ==
  /\ ~AtWork => conn.batch = <<>>
  /\ AtWork => /\ conn.batch # <<>>
               /\ \A i \in 1..Len(conn.batch) : conn.batch[i] \in 1..arrived /\ conn.batch[i] = conn.batch[1] + (i - 1)

\* What Telegram has forgotten, and what any last update id that is kept or at hand
\* vouches for, is done, but for the one that is being handled.
Done(u) == handled[u] > 0 \/ u \in forgotten
Under(u) == conn.at = "handle" /\ u = conn.batch[1]
Upto(n) == \A u \in 1..n : Done(u) \/ Under(u)
DoneInv ==
  /\ Upto(confirmed) /\ Upto(offset) /\ Upto(memOffset) /\ Upto(conn.last)
  /\ AtWork => \A u \in 1..(conn.batch[1] - 1) : Done(u)

\* While the last update id is in Redis, nothing after it was handled.
OnceInv ==
  ~rewound =>
    /\ \A u \in Updates : handled[u] <= 1 /\ (handled[u] > 0 => u <= offset)
    /\ conn.at = "poll" => conn.last = offset
    /\ conn.at = "store" => offset < conn.batch[1]
    /\ conn.at = "handle" => offset = conn.batch[1] /\ handled[offset] = 0

LostInv == IsFiniteSet(forgotten) /\ Cardinality(forgotten) <= faults /\ faults \in Nat
ConnInv == ConnTypes /\ BatchInv /\ DoneInv /\ OnceInv /\ LostInv

LEMMA RestingIs == Resting \in ConnOf /\ Resting.at = "idle" /\ Resting.last = 0 /\ Resting.batch = <<>>
  <1>1. Resting.batch = <<>>
    BY DEF Resting
  <1>2. Resting.at = "idle" /\ Resting.last = 0
    BY DEF Resting
  <1>3. Resting \in ConnOf
    BY DEF Resting, ConnOf
  <1>. QED
    BY <1>1, <1>2, <1>3

LEMMA ConnInvInit == RowInit /\ ConnInit => ConnInv
  <1> SUFFICES ASSUME RowInit, ConnInit PROVE ConnInv
    OBVIOUS
  <1>1. /\ arrived = 0 /\ confirmed = 0 /\ memOffset = 0 /\ offset = 0 /\ conn = Resting /\ faults = 0
        /\ handled = [u \in Updates |-> 0] /\ forgotten = {} /\ rewound = FALSE
    BY DEF RowInit, ConnInit
  <1>2. ~AtWork
    BY <1>1, RestingIs DEF AtWork
  <1>3. ConnTypes
    <2>1. 0 \in 0..MaxUpdates /\ 0 \in 0..0
      BY UpdatesAssumption
    <2>2. handled \in [Updates -> Nat] /\ forgotten \subseteq 1..0 /\ rewound \in BOOLEAN
      BY <1>1
    <2>3. conn \in ConnOf /\ conn.last = 0
      BY <1>1, RestingIs
    <2>. QED
      BY <1>1, <2>1, <2>2, <2>3 DEF ConnTypes
  <1>4. BatchInv
    BY <1>1, <1>2, RestingIs DEF BatchInv
  <1>5. DoneInv
    BY <1>1, <1>2, RestingIs DEF DoneInv, Upto
  <1>6. OnceInv
    BY <1>1, RestingIs DEF OnceInv
  <1>7. LostInv
    BY <1>1, FS_EmptySet DEF LostInv
  <1>. QED
    BY <1>3, <1>4, <1>5, <1>6, <1>7 DEF ConnInv

\* The requests of the row take the last update id away only where it shows.
LEMMA RowStepOffset ==
  ASSUME RowsInv, Step
  PROVE  /\ offset' = offset \/ (offset' = 0 /\ \E r \in Editors : op[r].at = "forget" /\ op'[r].at = "idle")
         /\ faults' \in Nat /\ faults' >= faults
  <1>1. faults \in Nat
    BY RowAssumption DEF RowsInv, RestTypes
  <1>2. faults' \in Nat /\ faults' >= faults
    <2>1. ASSUME NEW r \in Requests, NEW failed \in BOOLEAN, NEW on \in BOOLEAN, NEW secret \in BOOLEAN,
                 \/ Save(r, on, secret, failed) \/ SetEnabled(r, on, failed) \/ Fire(r, failed)
                 \/ RecordVariant(r, failed) \/ ResolveExperiment(r, failed) \/ RecordNothing(r, failed)
          PROVE  Spend(failed)
      BY <2>1 DEF Save, SetEnabled, Fire, ResolveExperiment, RecordVariant, RecordNothing, Start
    <2>2. ASSUME NEW r \in Requests, NEW fare \in Fares,
                 \/ WriteRow(r, fare) \/ DeleteRow(r, fare) \/ AddToSet(r, fare) \/ RemoveFromSet(r, fare)
                 \/ ForgetOffset(r, fare)
          PROVE  Spend(fare # "done")
      BY <2>2 DEF WriteRow, DeleteRow, AddToSet, RemoveFromSet, ForgetOffset, Put, Second
    <2>3. ASSUME NEW r \in Requests, IssueRun(r) \/ NoJob(r) PROVE faults' = faults
      BY <2>3 DEF IssueRun, NoJob
    <2>4. ASSUME NEW p \in Processes, Die(p) PROVE faults' = faults + 1
      BY <2>4 DEF Die
    <2>5. (\E failed \in BOOLEAN : Spend(failed)) \/ faults' = faults \/ faults' = faults + 1
      BY <2>1, <2>2, <2>3, <2>4 DEF Step, RowNext
    <2>6. ASSUME NEW failed \in BOOLEAN, Spend(failed) PROVE faults' = faults \/ faults' = faults + 1
      BY <2>6 DEF Spend
    <2>. QED
      BY <1>1, <2>5, <2>6
  <1>3. ASSUME NEW r \in Requests, NEW fare \in Fares, ForgetOffset(r, fare)
        PROVE  offset' \in {offset, 0} /\ r \in Editors /\ op[r].at = "forget" /\ op'[r].at = "idle"
    <2>1. op' = [op EXCEPT ![r] = Idle] /\ op[r].at = "forget" /\ offset' \in {offset, 0}
      BY <1>3 DEF ForgetOffset
    <2>2. op'[r] = Idle
      BY <2>1 DEF RowsInv, RowInv, CopyType
    <2>3. r \in Editors
      BY <2>1 DEF RowsInv, IndexInv
    <2>. QED
      BY <2>1, <2>2, <2>3, IdleIs
  <1>4. offset' = offset \/ \E r \in Requests, fare \in Fares : ForgetOffset(r, fare)
    <2>1. ASSUME NEW r \in Requests, NEW failed \in BOOLEAN, NEW on \in BOOLEAN, NEW secret \in BOOLEAN,
                 \/ Save(r, on, secret, failed) \/ SetEnabled(r, on, failed) \/ Fire(r, failed)
                 \/ RecordVariant(r, failed) \/ ResolveExperiment(r, failed) \/ RecordNothing(r, failed)
          PROVE  offset' = offset
      BY <2>1 DEF Save, SetEnabled, Fire, ResolveExperiment, RecordVariant, RecordNothing, Start
    <2>2. ASSUME NEW r \in Requests, NEW fare \in Fares,
                 WriteRow(r, fare) \/ DeleteRow(r, fare) \/ AddToSet(r, fare) \/ RemoveFromSet(r, fare)
          PROVE  offset' = offset
      BY <2>2 DEF WriteRow, DeleteRow, AddToSet, RemoveFromSet, Put, Second
    <2>3. ASSUME NEW r \in Requests, IssueRun(r) \/ NoJob(r) PROVE offset' = offset
      BY <2>3 DEF IssueRun, NoJob
    <2>4. ASSUME NEW p \in Processes, Die(p) PROVE offset' = offset
      BY <2>4 DEF Die
    <2>. QED
      BY <2>1, <2>2, <2>3, <2>4 DEF Step, RowNext
  <1>. QED
    BY <1>2, <1>3, <1>4

\* Steps that leave the connector alone.
LEMMA ConnStays ==
  ASSUME ConnInv, UNCHANGED <<arrived, confirmed, memOffset, conn, handled, forgotten>>, faults' \in Nat, faults' >= faults,
         rewound' \in BOOLEAN, rewound => rewound', offset' = offset \/ (offset' = 0 /\ rewound')
  PROVE  ConnInv'
  <1>1. ConnTypes'
    <2>1. offset' \in 0..arrived
      BY DEF ConnInv, ConnTypes
    <2>. QED
      BY <2>1 DEF ConnInv, ConnTypes
  <1>2. BatchInv'
    BY DEF ConnInv, BatchInv, AtWork
  <1>3. \A u : (Done(u) => Done(u)') /\ (Under(u) => Under(u)')
    BY DEF Done, Under
  <1>4. DoneInv'
    <2>1. Upto(confirmed)' /\ Upto(memOffset)' /\ Upto(conn.last)'
      BY <1>3 DEF ConnInv, DoneInv, Upto
    <2>2. Upto(offset)'
      BY <1>3 DEF ConnInv, DoneInv, Upto
    <2>3. AtWork' => \A u \in 1..(conn'.batch[1] - 1) : Done(u)'
      BY <1>3 DEF ConnInv, DoneInv, AtWork
    <2>. QED
      BY <2>1, <2>2, <2>3 DEF DoneInv
  <1>5. OnceInv'
    BY DEF ConnInv, OnceInv
  <1>6. LostInv'
    <2>1. Cardinality(forgotten) \in Nat
      BY FS_CardinalityType DEF ConnInv, LostInv
    <2>. QED
      BY <2>1 DEF ConnInv, LostInv
  <1>. QED
    BY <1>1, <1>2, <1>4, <1>5, <1>6 DEF ConnInv

LEMMA ArriveKeeps == ASSUME ConnInv, Arrive PROVE ConnInv'
  <1>1. PICK a \in Nat : a = arrived /\ arrived' = a + 1 /\ a + 1 \in 0..MaxUpdates
    BY UpdatesAssumption DEF Arrive, ConnInv, ConnTypes
  <1>2. UNCHANGED <<rowVars, confirmed, memOffset, conn, handled, forgotten, rewound>>
    BY DEF Arrive
  <1>3. 0..a \subseteq 0..(a + 1) /\ 1..a \subseteq 1..(a + 1)
    BY <1>1
  <1>4. offset' = offset /\ faults' = faults
    BY <1>2 DEF rowVars
  <1>5. ConnTypes'
    BY <1>1, <1>2, <1>3, <1>4 DEF ConnInv, ConnTypes
  <1>6. BatchInv'
    BY <1>1, <1>2, <1>3 DEF ConnInv, BatchInv, AtWork
  <1>7. DoneInv' /\ OnceInv' /\ LostInv'
    BY <1>2, <1>4 DEF ConnInv, DoneInv, Upto, Done, Under, AtWork, OnceInv, LostInv
  <1>. QED
    BY <1>5, <1>6, <1>7 DEF ConnInv

\* It lists the accounts, and reads the last update id.
LEMMA ReadLastKeeps ==
  ASSUME ConnInv, ListAccounts \/ \E failed \in BOOLEAN : ReadLast(failed)
  PROVE  ConnInv'
  <1>1. UNCHANGED <<arrived, confirmed, memOffset, offset, handled, forgotten>>
    BY DEF ListAccounts, ReadLast, rowVars
  <1>2. PICK x : /\ conn' = x /\ x \in ConnOf /\ x.batch = <<>> /\ x.at \in {"listed", "poll"}
                 /\ x.last \in {0, memOffset, offset}
                 /\ ~rewound' /\ x.at = "poll" => x.last = offset
    <2>1. CASE ListAccounts
      <3>1. PICK x : x = [Resting EXCEPT !.at = "listed"]
        OBVIOUS
      <3>2. x \in ConnOf /\ x.batch = <<>> /\ x.at = "listed" /\ x.last = 0
        BY <3>1, RestingIs DEF ConnOf
      <3>. QED
        BY <2>1, <3>1, <3>2 DEF ListAccounts
    <2>2. ASSUME NEW failed \in BOOLEAN, ReadLast(failed)
          PROVE  \E x : /\ conn' = x /\ x \in ConnOf /\ x.batch = <<>> /\ x.at \in {"listed", "poll"}
                        /\ x.last \in {0, memOffset, offset}
                        /\ ~rewound' /\ x.at = "poll" => x.last = offset
      <3>1. PICK l \in Nat : l = IF failed THEN memOffset ELSE offset
        BY DEF ConnInv, ConnTypes
      <3>2. PICK x : x = [conn EXCEPT !.at = "poll", !.last = l]
        OBVIOUS
      <3>3. conn.batch = <<>> /\ conn \in ConnOf
        BY <2>2 DEF ReadLast, ConnInv, ConnTypes, BatchInv, AtWork
      <3>4. x \in ConnOf /\ x.batch = <<>> /\ x.at = "poll" /\ x.last = l
        BY <3>2, <3>3 DEF ConnOf
      <3>5. conn' = x /\ rewound' = (rewound \/ failed)
        BY <2>2, <3>1, <3>2 DEF ReadLast
      <3>. QED
        BY <3>1, <3>4, <3>5
    <2>. QED
      BY <2>1, <2>2
  <1>3. rewound' \in BOOLEAN /\ (rewound => rewound')
    <2>1. rewound \in BOOLEAN
      BY DEF ConnInv, ConnTypes
    <2>2. CASE ListAccounts
      BY <2>1, <2>2 DEF ListAccounts
    <2>3. ASSUME NEW failed \in BOOLEAN, ReadLast(failed) PROVE rewound' \in BOOLEAN /\ (rewound => rewound')
      <3>1. rewound' = (rewound \/ failed)
        BY <2>3 DEF ReadLast
      <3>. QED
        BY <2>1, <3>1, Zenon
    <2>. QED
      BY <2>2, <2>3
  <1>4. faults' \in Nat /\ faults' >= faults
    <2>1. faults' = faults \/ \E failed \in BOOLEAN : Spend(failed)
      BY DEF ListAccounts, ReadLast, rowVars
    <2>2. faults' = faults \/ faults' = faults + 1
      BY <2>1 DEF Spend
    <2>. QED
      BY <2>2 DEF ConnInv, LostInv
  <1>5. conn.at \in {"idle", "listed"}
    BY DEF ListAccounts, ReadLast
  <1>6. ConnTypes'
    BY <1>1, <1>2, <1>3 DEF ConnInv, ConnTypes
  <1>7. BatchInv' /\ ~AtWork'
    BY <1>2 DEF BatchInv, AtWork
  <1>8. \A u : (Done(u) => Done(u)') /\ ~Under(u)
    BY <1>1, <1>5 DEF Done, Under
  <1>9. DoneInv'
    <2>1. \A n \in {confirmed, offset, memOffset} : \A u \in 1..n : Done(u)'
      BY <1>8 DEF ConnInv, DoneInv, Upto
    <2>2. \A u \in 1..x.last : Done(u)'
      BY <1>2, <2>1
    <2>. QED
      BY <1>1, <1>2, <1>7, <2>1, <2>2 DEF DoneInv, Upto
  <1>10. OnceInv'
    BY <1>1, <1>2, <1>3 DEF ConnInv, OnceInv
  <1>11. LostInv'
    <2>1. Cardinality(forgotten) \in Nat
      BY FS_CardinalityType DEF ConnInv, LostInv
    <2>. QED
      BY <1>1, <1>4, <2>1 DEF ConnInv, LostInv
  <1>. QED
    BY <1>6, <1>7, <1>9, <1>10, <1>11 DEF ConnInv

\* Asking for what comes after an update vouches for no more than was done.
LEMMA PollKeeps ==
  ASSUME ConnInv, NEW lost \in BOOLEAN, Poll(lost)
  PROVE  ConnInv'
  <1>1. PICK a \in Nat : a = arrived
    BY UpdatesAssumption DEF ConnInv, ConnTypes
  <1>2. PICK l \in 0..a : l = conn.last
    BY <1>1 DEF ConnInv, ConnTypes
  <1>3. PICK c \in 0..a : c = confirmed
    BY <1>1 DEF ConnInv, ConnTypes
  <1>4. PICK m \in 0..a : m = confirmed' /\ m \in {c, l} /\ c <= m /\ l <= m
    <2>1. confirmed' = IF l = 0 THEN c ELSE IF c > l + 1 - 1 THEN c ELSE l + 1 - 1
      BY <1>2, <1>3 DEF Poll, Larger, Offset
    <2>. QED
      BY <1>1, <2>1
  <1>17. m \in Nat /\ a - m \in Nat
    <2>1. \A i \in Nat : \A j \in 0..i : j \in Nat /\ i - j \in Nat
      OBVIOUS
    <2>2. a \in Nat /\ m \in 0..a
      BY <1>1, <1>4, Zenon
    <2>. QED
      BY <2>1, <2>2, Zenon
  <1>5. PICK news : news = [i \in 1..(a - m) |-> m + i]
    OBVIOUS
  <1>6. conn' = IF lost \/ news = <<>> THEN Resting ELSE [conn EXCEPT !.at = "store", !.batch = news]
    BY <1>1, <1>4, <1>5 DEF Poll
  <1>7. news \in Seq(Nat) /\ Len(news) = a - m /\ \A i \in 1..(a - m) : news[i] = m + i
    <2>1. PICK d \in Nat : d = a - m
      BY <1>17
    <2>2. \A i \in 1..d : m + i \in Nat
      BY <1>17
    <2>3. news \in [1..d -> Nat] /\ \A i \in 1..d : news[i] = m + i
      BY <1>5, <2>1, <2>2
    <2>4. news \in Seq(Nat) /\ Len(news) = d
      BY <2>3
    <2>. QED
      BY <2>1, <2>3, <2>4
  <1>8. UNCHANGED <<rowVars, arrived, memOffset, handled, forgotten, rewound>> /\ conn.at = "poll"
    BY DEF Poll
  <1>9. offset' = offset /\ faults' = faults
    BY <1>8 DEF rowVars
  <1>10. ~AtWork /\ conn \in ConnOf
    BY <1>8 DEF AtWork, ConnInv, ConnTypes
  <1>11. \A u : (Done(u) => Done(u)') /\ ~Under(u)
    BY <1>8 DEF Done, Under
  <1>12. \A n \in {c, l, memOffset, offset, m} : \A u \in 1..n : Done(u)'
    BY <1>2, <1>3, <1>4, <1>11 DEF ConnInv, DoneInv, Upto
  <1>13. LostInv'
    BY <1>8, <1>9 DEF ConnInv, LostInv
  <1>14. CASE conn' = Resting
    <2>1. ConnTypes'
      BY <1>1, <1>4, <1>8, <1>9, <1>14, RestingIs DEF ConnInv, ConnTypes
    <2>2. ~AtWork' /\ BatchInv'
      BY <1>14, RestingIs DEF AtWork, BatchInv
    <2>3. DoneInv'
      <3>1. conn'.last = 0 /\ confirmed' = m /\ memOffset' = memOffset
        BY <1>4, <1>8, <1>14, RestingIs
      <3>2. \A u \in 1..0 : FALSE
        OBVIOUS
      <3>. QED
        BY <1>9, <1>12, <2>2, <3>1, <3>2 DEF DoneInv, Upto
    <2>4. OnceInv'
      BY <1>8, <1>9, <1>14, RestingIs DEF ConnInv, OnceInv
    <2>. QED
      BY <1>13, <2>1, <2>2, <2>3, <2>4 DEF ConnInv
  <1>15. CASE news # <<>> /\ conn' = [conn EXCEPT !.at = "store", !.batch = news]
    <2>1. PICK x \in ConnOf : conn' = x /\ x.at = "store" /\ x.batch = news /\ x.last = l
      <3>1. PICK x : x = [conn EXCEPT !.at = "store", !.batch = news]
        OBVIOUS
      <3>2. x \in ConnOf /\ x.at = "store" /\ x.batch = news /\ x.last = l
        BY <1>2, <1>7, <1>10, <3>1 DEF ConnOf
      <3>3. conn' = x
        BY <1>15, <3>1
      <3>. QED
        BY <3>2, <3>3
    <2>2. a - m \in Nat /\ 1 <= a - m /\ news[1] = m + 1
      <3>1. Len(news) # 0
        BY <1>7, <1>15
      <3>. QED
        BY <1>7, <1>17, <3>1
    <2>3. ConnTypes'
      BY <1>1, <1>2, <1>4, <1>8, <1>9, <2>1 DEF ConnInv, ConnTypes
    <2>4. BatchInv'
      <3>1. \A i \in 1..(a - m) : news[i] \in 1..a /\ news[i] = news[1] + (i - 1)
        BY <1>1, <1>7, <1>17, <2>2
      <3>2. AtWork'
        BY <2>1 DEF AtWork
      <3>. QED
        BY <1>1, <1>7, <1>8, <1>15, <1>17, <2>1, <3>1, <3>2 DEF BatchInv
    <2>5. DoneInv'
      <3>1. \A u \in 1..(news[1] - 1) : Done(u)'
        <4>1. news[1] - 1 = m
          BY <1>17, <2>2
        <4>. QED
          BY <1>12, <4>1
      <3>2. confirmed' = m /\ memOffset' = memOffset /\ offset' = offset /\ conn'.last = l /\ conn'.batch = news
        BY <1>4, <1>8, <1>9, <2>1
      <3>. QED
        BY <1>12, <3>1, <3>2 DEF DoneInv, Upto
    <2>6. OnceInv'
      <3>1. ~rewound => offset = l
        BY <1>2, <1>8 DEF ConnInv, OnceInv
      <3>2. l < m + 1
        BY <1>1, <1>2, <1>4
      <3>. QED
        BY <1>8, <1>9, <2>1, <2>2, <3>1, <3>2 DEF ConnInv, OnceInv
    <2>. QED
      BY <1>13, <2>3, <2>4, <2>5, <2>6 DEF ConnInv
  <1>. QED
    BY <1>6, <1>14, <1>15

\* The id is stored before the update is handled.
LEMMA StoreLastKeeps ==
  ASSUME ConnInv, NEW fare \in Fares, StoreLast(fare)
  PROVE  ConnInv'
  <1>1. PICK a \in Nat : a = arrived
    BY UpdatesAssumption DEF ConnInv, ConnTypes
  <1>2. conn.at = "store" /\ AtWork /\ conn \in ConnOf
    BY DEF StoreLast, AtWork, ConnInv, ConnTypes
  <1>3. PICK b \in 1..a : b = conn.batch[1]
    <2>1. conn.batch \in Seq(Nat) /\ conn.batch # <<>>
      BY <1>2 DEF ConnOf, ConnInv, BatchInv
    <2>2. 1 \in 1..Len(conn.batch)
      BY <2>1
    <2>. QED
      BY <1>1, <1>2, <2>2 DEF ConnInv, BatchInv
  <1>4. /\ offset' = (IF Happens(fare) THEN b ELSE offset) /\ memOffset' = (IF fare = "done" THEN memOffset ELSE b)
        /\ conn' = [conn EXCEPT !.at = "handle"] /\ rewound' = (rewound \/ fare = "failed")
        /\ UNCHANGED <<arrived, confirmed, handled, forgotten>> /\ Spend(fare # "done")
    BY <1>3 DEF StoreLast, Stored
  <1>5. PICK x \in ConnOf : conn' = x /\ x.at = "handle" /\ x.batch = conn.batch /\ x.last = conn.last
    BY <1>2, <1>4 DEF ConnOf
  <1>6. faults' \in Nat /\ faults' >= faults
    BY <1>4 DEF Spend, ConnInv, LostInv
  <1>7. ConnTypes'
    <2>1. rewound' \in BOOLEAN
      BY <1>4, Zenon
    <2>2. offset' \in 0..a /\ memOffset' \in 0..a
      BY <1>1, <1>3, <1>4 DEF ConnInv, ConnTypes
    <2>. QED
      BY <1>1, <1>4, <1>5, <2>1, <2>2 DEF ConnInv, ConnTypes
  <1>8. BatchInv' /\ AtWork'
    BY <1>2, <1>4, <1>5 DEF ConnInv, BatchInv, AtWork
  <1>9. (\A u : (Done(u) => Done(u)') /\ ~Under(u)) /\ Under(b)'
    BY <1>2, <1>3, <1>4, <1>5 DEF Done, Under
  <1>10. DoneInv'
    <2>1. \A u \in 1..(b - 1) : Done(u)'
      BY <1>2, <1>3, <1>9 DEF ConnInv, DoneInv
    <2>2. \A u \in 1..b : Done(u)' \/ Under(u)'
      <3>1. \A u \in 1..b : u \in 1..(b - 1) \/ u = b
        BY <1>3
      <3>. QED
        BY <1>9, <2>1, <3>1
    <2>3. \A n \in {confirmed, offset, memOffset, conn.last} : \A u \in 1..n : Done(u)'
      BY <1>9 DEF ConnInv, DoneInv, Upto
    <2>4. offset' \in {offset, b} /\ memOffset' \in {memOffset, b} /\ confirmed' = confirmed /\ conn'.last = conn.last
          /\ conn'.batch[1] = b
      BY <1>3, <1>4, <1>5
    <2>. QED
      BY <2>1, <2>2, <2>3, <2>4 DEF DoneInv, Upto
  <1>11. OnceInv'
    <2>1. SUFFICES ASSUME ~rewound' PROVE /\ \A u \in Updates : handled[u] <= 1 /\ (handled[u] > 0 => u <= b)
                                          /\ offset' = b /\ handled[b] = 0
      BY <1>3, <1>4, <1>5 DEF OnceInv
    <2>2. ~rewound /\ fare # "failed"
      BY <1>4, <2>1
    <2>3. offset' = b
      BY <1>4, <2>2 DEF Happens
    <2>4. /\ \A u \in Updates : handled[u] <= 1 /\ (handled[u] > 0 => u <= offset)
          /\ offset < b /\ offset \in Nat
      BY <1>1, <1>2, <1>3, <2>2 DEF ConnInv, OnceInv, ConnTypes
    <2>5. b \in Updates /\ handled[b] \in Nat /\ \A u \in Updates : u \in Nat
      BY <1>1, <1>3, UpdatesAssumption DEF ConnInv, ConnTypes, Updates
    <2>. QED
      BY <2>3, <2>4, <2>5
  <1>12. LostInv'
    <2>1. Cardinality(forgotten) \in Nat
      BY FS_CardinalityType DEF ConnInv, LostInv
    <2>. QED
      BY <1>4, <1>6, <2>1 DEF ConnInv, LostInv
  <1>. QED
    BY <1>7, <1>8, <1>10, <1>11, <1>12 DEF ConnInv

LEMMA HandleKeeps ==
  ASSUME ConnInv, Handle
  PROVE  ConnInv'
  <1>1. PICK a \in Nat : a = arrived /\ a <= MaxUpdates /\ MaxUpdates \in Nat
    BY UpdatesAssumption DEF ConnInv, ConnTypes
  <1>2. conn.at = "handle" /\ AtWork /\ conn \in ConnOf
    BY DEF Handle, AtWork, ConnInv, ConnTypes
  <1>3. PICK q \in Seq(Nat) : q = conn.batch /\ q # <<>>
    BY <1>2 DEF ConnOf, ConnInv, BatchInv
  <1>4. PICK k \in Nat : k = Len(q) /\ k >= 1
    BY <1>3
  <1>5. PICK b \in 1..a : b = q[1] /\ b = Head(q)
    <2>1. 1 \in 1..Len(q)
      BY <1>4
    <2>2. q[1] \in 1..a
      BY <1>1, <1>2, <1>3, <2>1 DEF ConnInv, BatchInv
    <2>3. Head(q) = q[1]
      BY <1>3
    <2>. QED
      BY <2>2, <2>3
  <1>6. \A i \in 1..k : q[i] \in 1..a /\ q[i] = b + (i - 1)
    BY <1>1, <1>2, <1>3, <1>4, <1>5 DEF ConnInv, BatchInv
  <1>7. b \in Updates /\ handled \in [Updates -> Nat]
    BY <1>1, <1>5 DEF Updates, ConnInv, ConnTypes
  <1>8. /\ handled' = [handled EXCEPT ![b] = @ + 1]
        /\ conn' = IF k = 1 THEN Resting ELSE [conn EXCEPT !.at = "store", !.batch = Tail(q)]
    BY <1>3, <1>4, <1>5 DEF Handle
  <1>9. UNCHANGED <<rowVars, arrived, confirmed, memOffset, forgotten, rewound>>
    BY DEF Handle
  <1>10. offset' = offset /\ faults' = faults
    BY <1>9 DEF rowVars
  <1>11. handled' \in [Updates -> Nat] /\ \A u \in Updates : handled'[u] = IF u = b THEN handled[b] + 1 ELSE handled[u]
    BY <1>7, <1>8
  <1>12. ASSUME NEW u \in 1..a, Done(u) \/ u = b PROVE Done(u)'
    <2>1. u \in Updates /\ handled[u] \in Nat
      BY <1>1, <1>7 DEF Updates
    <2>. QED
      BY <1>9, <1>11, <1>12, <2>1 DEF Done
  <1>13. ASSUME NEW n \in 0..a, Upto(n) PROVE \A u \in 1..n : Done(u)'
    <2> SUFFICES ASSUME NEW u \in 1..n PROVE Done(u)'
      OBVIOUS
    <2>1. u \in 1..a /\ (Done(u) \/ u = b)
      BY <1>1, <1>3, <1>5, <1>13 DEF Upto, Under
    <2>. QED
      BY <1>12, <2>1
  <1>14. \A n \in {confirmed, offset, memOffset, conn.last} : n \in 0..a /\ \A u \in 1..n : Done(u)'
    <2>1. \A n \in {confirmed, offset, memOffset, conn.last} : n \in 0..a /\ Upto(n)
      BY <1>1 DEF ConnInv, ConnTypes, DoneInv
    <2>. QED
      BY <1>13, <2>1
  <1>15. ~rewound => /\ \A u \in Updates : handled'[u] <= 1 /\ (handled'[u] > 0 => u <= offset)
                     /\ offset = b
    <2>1. SUFFICES ASSUME ~rewound PROVE /\ \A u \in Updates : handled'[u] <= 1 /\ (handled'[u] > 0 => u <= offset)
                                         /\ offset = b
      OBVIOUS
    <2>2. /\ \A u \in Updates : handled[u] <= 1 /\ (handled[u] > 0 => u <= offset)
          /\ offset = b /\ handled[b] = 0
      BY <1>2, <1>3, <1>5, <2>1 DEF ConnInv, OnceInv
    <2>. QED
      BY <1>5, <1>11, <2>2
  <1>16. LostInv'
    BY <1>9, <1>10 DEF ConnInv, LostInv
  <1>17. CASE k = 1
    <2>1. conn' = Resting
      BY <1>8, <1>17
    <2>2. ConnTypes'
      BY <1>1, <1>9, <1>10, <1>11, <2>1, RestingIs DEF ConnInv, ConnTypes
    <2>3. ~AtWork' /\ BatchInv'
      BY <2>1, RestingIs DEF AtWork, BatchInv
    <2>4. DoneInv'
      <3>1. conn'.last = 0 /\ confirmed' = confirmed /\ memOffset' = memOffset
        BY <1>9, <2>1, RestingIs
      <3>2. \A u \in 1..0 : FALSE
        OBVIOUS
      <3>. QED
        BY <1>10, <1>14, <2>3, <3>1, <3>2 DEF DoneInv, Upto
    <2>5. OnceInv'
      BY <1>9, <1>10, <1>15, <2>1, RestingIs DEF OnceInv
    <2>. QED
      BY <1>16, <2>2, <2>3, <2>4, <2>5 DEF ConnInv
  <1>18. CASE k # 1
    <2>1. PICK t \in Seq(Nat) : t = Tail(q) /\ Len(t) = k - 1 /\ \A i \in 1..(k - 1) : t[i] = q[i + 1]
      <3>1. /\ Tail(q) \in Seq(Nat) /\ Len(Tail(q)) = Len(q) - 1
            /\ \A i \in 1..Len(Tail(q)) : Tail(q)[i] = q[i + 1]
        BY <1>3, HeadTailProperties
      <3>. QED
        BY <1>4, <3>1
    <2>2. PICK x \in ConnOf : conn' = x /\ x.at = "store" /\ x.batch = t /\ x.last = conn.last
      <3>1. PICK x : x = [conn EXCEPT !.at = "store", !.batch = t]
        OBVIOUS
      <3>2. x \in ConnOf /\ x.at = "store" /\ x.batch = t /\ x.last = conn.last
        BY <1>2, <2>1, <3>1 DEF ConnOf
      <3>3. conn' = x
        BY <1>8, <1>18, <2>1, <3>1
      <3>. QED
        BY <3>2, <3>3
    <2>3. k - 1 >= 1 /\ t[1] = b + 1 /\ t # <<>>
      <3>1. k >= 2 /\ 1 \in 1..(k - 1) /\ 2 \in 1..k
        BY <1>4, <1>18
      <3>2. t[1] = q[2] /\ q[2] = b + (2 - 1)
        BY <1>6, <2>1, <3>1
      <3>3. Len(t) # 0
        BY <1>4, <2>1, <3>1
      <3>. QED
        BY <1>4, <1>5, <3>1, <3>2, <3>3
    <2>4. ConnTypes'
      BY <1>1, <1>9, <1>10, <1>11, <2>2 DEF ConnInv, ConnTypes
    <2>5. BatchInv'
      <3>1. \A i \in 1..(k - 1) : t[i] \in 1..a /\ t[i] = t[1] + (i - 1)
        <4> SUFFICES ASSUME NEW i \in 1..(k - 1) PROVE t[i] \in 1..a /\ t[i] = t[1] + (i - 1)
          OBVIOUS
        <4>1. i + 1 \in 1..k /\ t[i] = q[i + 1]
          BY <1>4, <2>1
        <4>2. q[i + 1] \in 1..a /\ q[i + 1] = b + ((i + 1) - 1)
          BY <1>6, <4>1
        <4>. QED
          BY <1>5, <2>3, <4>1, <4>2
      <3>2. AtWork'
        BY <2>2 DEF AtWork
      <3>. QED
        BY <1>1, <1>9, <2>1, <2>2, <2>3, <3>1, <3>2 DEF BatchInv
    <2>6. DoneInv'
      <3>1. \A u \in 1..b : Done(u)'
        <4> SUFFICES ASSUME NEW u \in 1..b PROVE Done(u)'
          OBVIOUS
        <4>1. u \in 1..a /\ (u \in 1..(b - 1) \/ u = b)
          BY <1>1, <1>5
        <4>2. u \in 1..(b - 1) => Done(u)
          BY <1>2, <1>3, <1>5 DEF ConnInv, DoneInv
        <4>. QED
          BY <1>12, <4>1, <4>2
      <3>2. \A u \in 1..(t[1] - 1) : Done(u)'
        BY <1>5, <2>3, <3>1
      <3>3. confirmed' = confirmed /\ memOffset' = memOffset /\ conn'.last = conn.last /\ conn'.batch = t
        BY <1>9, <2>2
      <3>. QED
        BY <1>10, <1>14, <3>2, <3>3 DEF DoneInv, Upto
    <2>7. OnceInv'
      <3>1. b < b + 1
        BY <1>5
      <3>. QED
        BY <1>9, <1>10, <1>15, <2>2, <2>3, <3>1 DEF OnceInv
    <2>. QED
      BY <1>16, <2>4, <2>5, <2>6, <2>7 DEF ConnInv
  <1>. QED
    BY <1>17, <1>18

\* With the connector goes the one update it was handling.
LEMMA ProcessDiesKeeps ==
  ASSUME ConnInv, NEW p \in Processes, ProcessDies(p)
  PROVE  ConnInv'
  <1>1. Die(p) /\ UNCHANGED <<arrived, confirmed, handled, rewound>>
    BY DEF ProcessDies
  <1>2. offset' = offset /\ faults' = faults + 1 /\ faults \in Nat
    BY <1>1 DEF Die, ConnInv, LostInv
  <1>3. CASE p # "other"
    <2>1. UNCHANGED <<conn, memOffset, forgotten>>
      BY <1>3 DEF ProcessDies
    <2>2. rewound' \in BOOLEAN /\ (rewound => rewound')
      BY <1>1 DEF ConnInv, ConnTypes
    <2>3. faults' \in Nat /\ faults' >= faults
      BY <1>2
    <2>. QED
      BY <1>1, <1>2, <2>1, <2>2, <2>3, ConnStays
  <1>4. CASE p = "other"
    <2>1. PICK a \in Nat : a = arrived
      BY UpdatesAssumption DEF ConnInv, ConnTypes
    <2>2. PICK gone : /\ forgotten' = forgotten \cup gone
                      /\ gone = IF conn.at = "handle" THEN {conn.batch[1]} ELSE {}
      <3>1. conn.at = "handle" => Head(conn.batch) = conn.batch[1]
        BY DEF ConnInv, BatchInv, AtWork, ConnTypes, ConnOf
      <3>. QED
        BY <1>4, <3>1 DEF ProcessDies
    <2>3. conn' = Resting /\ memOffset' = 0
      BY <1>4 DEF ProcessDies
    <2>4. gone \subseteq 1..a
      <3>1. ASSUME conn.at = "handle" PROVE conn.batch[1] \in 1..a
        <4>1. AtWork /\ conn.batch \in Seq(Nat) /\ conn.batch # <<>>
          BY <3>1 DEF AtWork, ConnInv, ConnTypes, ConnOf, BatchInv
        <4>2. 1 \in 1..Len(conn.batch)
          BY <4>1
        <4>. QED
          BY <2>1, <4>1, <4>2 DEF ConnInv, BatchInv
      <3>. QED
        BY <2>2, <3>1
    <2>5. ConnTypes'
      <3>1. forgotten' \subseteq 1..a
        BY <2>1, <2>2, <2>4 DEF ConnInv, ConnTypes
      <3>2. 0 \in 0..a
        BY <2>1
      <3>. QED
        BY <1>1, <1>2, <2>1, <2>3, <3>1, <3>2, RestingIs DEF ConnInv, ConnTypes
    <2>6. ~AtWork' /\ BatchInv'
      BY <2>3, RestingIs DEF AtWork, BatchInv
    <2>7. \A u : Done(u) \/ Under(u) => Done(u)'
      BY <1>1, <2>2 DEF Done, Under
    <2>8. DoneInv'
      <3>1. \A n \in {confirmed, offset} : \A u \in 1..n : Done(u)'
        BY <2>7 DEF ConnInv, DoneInv, Upto
      <3>2. conn'.last = 0 /\ memOffset' = 0 /\ confirmed' = confirmed
        BY <1>1, <2>3, RestingIs
      <3>3. \A u \in 1..0 : FALSE
        OBVIOUS
      <3>. QED
        BY <1>2, <2>6, <3>1, <3>2, <3>3 DEF DoneInv, Upto
    <2>9. OnceInv'
      BY <1>1, <1>2, <2>3, RestingIs DEF ConnInv, OnceInv
    <2>10. LostInv'
      <3>1. IsFiniteSet(forgotten) /\ Cardinality(forgotten) \in Nat /\ Cardinality(forgotten) <= faults
        BY FS_CardinalityType DEF ConnInv, LostInv
      <3>2. PICK v : forgotten' \in {forgotten, forgotten \cup {v}}
        BY <2>2
      <3>3. /\ IsFiniteSet(forgotten \cup {v})
            /\ Cardinality(forgotten \cup {v}) = Cardinality(forgotten) \/ Cardinality(forgotten \cup {v}) = Cardinality(forgotten) + 1
        BY <3>1, FS_AddElement
      <3>4. PICK G : G = forgotten' /\ IsFiniteSet(G) /\ Cardinality(G) <= faults + 1
        BY <1>2, <3>1, <3>2, <3>3
      <3>. QED
        BY <1>2, <3>4 DEF LostInv
    <2>. QED
      BY <2>5, <2>6, <2>8, <2>9, <2>10 DEF ConnInv
  <1>. QED
    BY <1>3, <1>4

(***************************************************************************)
(* The accounts of the armory                                              *)
(***************************************************************************)
ToolType == [at : {"away", "chosen", "lock", "mark", "use", "freed", "unmark"}, read : Rows]

\* A step of a worker keeps the type of its call.
LEMMA ToType ==
  ASSUME tool \in [Workers -> ToolType], NEW w \in Workers,
         NEW at \in {"away", "chosen", "lock", "mark", "use", "freed", "unmark"}, To(w, at)
  PROVE  tool' \in [Workers -> ToolType]
  BY DEF To, ToolType

LEMMA ArmoryInitType == ArmoryInit => ArmoryTypeOK
  <1> SUFFICES ASSUME ArmoryInit PROVE ArmoryTypeOK
    OBVIOUS
  <1>1. New \in Rows
    BY DEF New, Rows
  <1>2. Away \in [at : {"away", "chosen", "lock", "mark", "use", "freed", "unmark"}, read : Rows]
    BY <1>1 DEF Away
  <1>3. deploy \in [at : {"away", "write"}, read : Rows, to : Branches \cup {"none"}]
    BY <1>1 DEF ArmoryInit
  <1>4. tool \in [Workers -> [at : {"away", "chosen", "lock", "mark", "use", "freed", "unmark"}, read : Rows]]
    BY <1>2 DEF ArmoryInit
  <1>5. overdue \in BOOLEAN /\ broke \in BOOLEAN /\ crossed \in BOOLEAN /\ lock \in BOOLEAN
    BY DEF ArmoryInit
  <1>6. deploys \in 0..MaxDeploys /\ breaks \in 0..MaxBreaks /\ expiries \in 0..MaxExpiries
    BY DEF ArmoryInit
  <1>. QED
    BY <1>1, <1>3, <1>4, <1>5, <1>6 DEF ArmoryInit, ArmoryTypeOK

LEMMA ArmoryStepType == ArmoryTypeOK /\ [ArmoryNext]_armoryVars => ArmoryTypeOK'
  <1> SUFFICES ASSUME ArmoryTypeOK, [ArmoryNext]_armoryVars PROVE ArmoryTypeOK'
    OBVIOUS
  <1> USE DEF ArmoryTypeOK
  <1>1. ASSUME NEW w \in Workers, NEW branch \in Branches \cup {"any"}, Choose(w, branch) PROVE ArmoryTypeOK'
    BY <1>1 DEF Choose, To, RestOf
  <1>2. ASSUME NEW w \in Workers, LockAccount(w) PROVE ArmoryTypeOK'
    <2>1. tool' \in [Workers -> ToolType]
      BY <1>2, ToType DEF LockAccount, ToolType
    <2>2. lock' \in BOOLEAN /\ holders' \subseteq Workers
      BY <1>2 DEF LockAccount
    <2>. QED
      BY <1>2, <2>1, <2>2 DEF LockAccount, RestOf, ToolType
  <1>3. ASSUME NEW w \in Workers, ReadAccount(w) PROVE ArmoryTypeOK'
    BY <1>3 DEF ReadAccount, RestOf
  <1>4. ASSUME NEW w \in Workers, WriteStatus(w) PROVE ArmoryTypeOK'
    <2>1. account' \in Rows
      BY <1>4 DEF WriteStatus, Marked, Rows
    <2>. QED
      BY <1>4, <2>1 DEF WriteStatus, To, RestOf
  <1>5. ASSUME NEW w \in Workers, UnlockAccount(w) PROVE ArmoryTypeOK'
    BY <1>5 DEF UnlockAccount, To, RestOf
  <1>6. ASSUME NEW w \in Workers, BreakOff(w) PROVE ArmoryTypeOK'
    BY <1>6 DEF BreakOff, To
  <1>7. CASE LockExpires
    <2>1. overdue' \in BOOLEAN /\ holders' \subseteq Workers /\ lock' \in BOOLEAN
      BY <1>7 DEF LockExpires
    <2>2. expiries' \in 0..MaxExpiries
      BY <1>7 DEF LockExpires
    <2>. QED
      BY <1>7, <2>1, <2>2 DEF LockExpires
  <1>8. ASSUME NEW branch \in Branches, BeginDeploy(branch) PROVE ArmoryTypeOK'
    BY <1>8 DEF BeginDeploy
  <1>9. CASE EndDeploy
    <2>1. account' \in Rows
      BY <1>9 DEF EndDeploy, Deployed, Rows
    <2>. QED
      BY <1>9, <2>1 DEF EndDeploy
  <1>10. CASE UNCHANGED armoryVars
    BY <1>10 DEF armoryVars
  <1>. QED
    BY <1>1, <1>2, <1>3, <1>4, <1>5, <1>6, <1>7, <1>8, <1>9, <1>10 DEF ArmoryNext

(***************************************************************************)
(* One user                                                                *)
(***************************************************************************)
\* Until a lock expires over its holder, those who use the account are its holders, the
\* lock is there as long as one of them is, and there is one at most.  A tool that broke
\* off leaves its lock without a holder: nobody enters until it expires.
OneHolder ==
  overdue \/ /\ \A w \in Workers : tool[w].at \in {"lock", "mark", "use"} <=> w \in holders
             /\ holders # {} => lock
             /\ \A v, w \in holders : v = w

LEMMA OneHolderInit == ArmoryInit => OneHolder
  BY DEF ArmoryInit, OneHolder, Away

LEMMA OneHolderStep == ArmoryTypeOK /\ OneHolder /\ [ArmoryNext]_armoryVars => OneHolder'
  <1> SUFFICES ASSUME ArmoryTypeOK, OneHolder, [ArmoryNext]_armoryVars PROVE OneHolder'
    OBVIOUS
  <1> USE DEF ArmoryTypeOK, OneHolder
  <1>1. ASSUME NEW w \in Workers, NEW branch \in Branches \cup {"any"}, Choose(w, branch) PROVE OneHolder'
    BY <1>1 DEF Choose, To, RestOf
  <1>2. ASSUME NEW w \in Workers, LockAccount(w) PROVE OneHolder'
    BY <1>2 DEF LockAccount, LockFree, To, RestOf
  <1>3. ASSUME NEW w \in Workers, ReadAccount(w) PROVE OneHolder'
    BY <1>3 DEF ReadAccount, RestOf
  <1>4. ASSUME NEW w \in Workers, WriteStatus(w) PROVE OneHolder'
    BY <1>4 DEF WriteStatus, To, RestOf
  <1>5. ASSUME NEW w \in Workers, UnlockAccount(w) PROVE OneHolder'
    BY <1>5 DEF UnlockAccount, To, RestOf
  <1>6. ASSUME NEW w \in Workers, BreakOff(w) PROVE OneHolder'
    BY <1>6 DEF BreakOff, To
  <1>7. CASE LockExpires
    BY <1>7 DEF LockExpires
  <1>8. ASSUME NEW branch \in Branches, BeginDeploy(branch) PROVE OneHolder'
    BY <1>8 DEF BeginDeploy
  <1>9. CASE EndDeploy
    BY <1>9 DEF EndDeploy
  <1>10. CASE UNCHANGED armoryVars
    BY <1>10 DEF armoryVars
  <1>. QED
    BY <1>1, <1>2, <1>3, <1>4, <1>5, <1>6, <1>7, <1>8, <1>9, <1>10 DEF ArmoryNext

(***************************************************************************)
(* What the row tells                                                      *)
(***************************************************************************)
\* As long as no write has crossed another, the branch is the one last assigned, and an
\* account that is marked as in use is used, or was by a tool that broke off.
RowTells ==
  crossed \/ /\ account.branch = assigned
             /\ account.status = "verifying" =>
                  broke \/ \E w \in Workers : tool[w].at \in {"use", "freed", "unmark"}

LEMMA RowTellsInit == ArmoryInit => RowTells
  BY DEF ArmoryInit, RowTells, New

LEMMA RowTellsStep == ArmoryTypeOK /\ RowTells /\ [ArmoryNext]_armoryVars => RowTells'
  <1> SUFFICES ASSUME ArmoryTypeOK, RowTells, [ArmoryNext]_armoryVars PROVE RowTells'
    OBVIOUS
  <1> USE DEF ArmoryTypeOK, Rows, RowTells
  <1>1. ASSUME NEW w \in Workers, NEW branch \in Branches \cup {"any"}, Choose(w, branch) PROVE RowTells'
    BY <1>1 DEF Choose, To, RestOf
  <1>2. ASSUME NEW w \in Workers, LockAccount(w) PROVE RowTells'
    BY <1>2 DEF LockAccount, LockFree, To, RestOf
  <1>3. ASSUME NEW w \in Workers, ReadAccount(w) PROVE RowTells'
    BY <1>3 DEF ReadAccount, RestOf
  <1>4. ASSUME NEW w \in Workers, WriteStatus(w) PROVE RowTells'
    <2>1. CASE tool[w].at = "mark"
      BY <1>4, <2>1 DEF WriteStatus, Marked, To, RestOf
    <2>2. CASE tool[w].at = "unmark"
      BY <1>4, <2>2 DEF WriteStatus, Marked, To, RestOf
    <2>. QED
      BY <1>4, <2>1, <2>2 DEF WriteStatus
  <1>5. ASSUME NEW w \in Workers, UnlockAccount(w) PROVE RowTells'
    BY <1>5 DEF UnlockAccount, To, RestOf
  <1>6. ASSUME NEW w \in Workers, BreakOff(w) PROVE RowTells'
    BY <1>6 DEF BreakOff, To, Working
  <1>7. CASE LockExpires
    BY <1>7 DEF LockExpires
  <1>8. ASSUME NEW branch \in Branches, BeginDeploy(branch) PROVE RowTells'
    BY <1>8 DEF BeginDeploy
  <1>9. CASE EndDeploy
    BY <1>9 DEF EndDeploy, Deployed
  <1>10. CASE UNCHANGED armoryVars
    BY <1>10 DEF armoryVars
  <1>. QED
    BY <1>1, <1>2, <1>3, <1>4, <1>5, <1>6, <1>7, <1>8, <1>9, <1>10 DEF ArmoryNext

(***************************************************************************)
(* The stores together                                                     *)
(***************************************************************************)
ArmoryInv == ArmoryTypeOK /\ OneHolder /\ RowTells
StoresInv == store \in Stores \cup {"armory"} /\ RowsInv /\ ConnInv /\ ArmoryInv

LEMMA StoresInvInit == Init => StoresInv
  BY RowsInvInit, ConnInvInit, ArmoryInitType, OneHolderInit, RowTellsInit DEF Init, StoresInv, ArmoryInv

LEMMA ArmoryInvStep == ArmoryInv /\ [ArmoryNext]_armoryVars => ArmoryInv'
  BY ArmoryStepType, OneHolderStep, RowTellsStep DEF ArmoryInv

\* What the steps of the connector leave alone.
LEMMA ConnIsAside ==
  ASSUME RowsInv,
         \/ Arrive \/ ListAccounts \/ Handle
         \/ \E failed \in BOOLEAN : ReadLast(failed) \/ Poll(failed)
         \/ \E fare \in Fares : StoreLast(fare)
  PROVE  Aside
  <1>1. faults \in 0..MaxFaults
    BY DEF RowsInv, RestTypes
  <1>2. CASE Arrive \/ ListAccounts \/ Handle \/ \E failed \in BOOLEAN : Poll(failed)
    <2>1. UNCHANGED rowVars
      BY <1>2 DEF Arrive, ListAccounts, Handle, Poll
    <2>. QED
      BY <1>1, <2>1 DEF Aside, rowVars
  <1>3. ASSUME NEW failed \in BOOLEAN, ReadLast(failed) PROVE Aside
    <2>1. faults' \in 0..MaxFaults
      BY <1>1, <1>3, SpendType DEF ReadLast
    <2>. QED
      BY <1>3, <2>1 DEF ReadLast, Aside
  <1>4. ASSUME NEW fare \in Fares, StoreLast(fare) PROVE Aside
    <2>1. faults' \in 0..MaxFaults
      BY <1>1, <1>4, SpendType DEF StoreLast
    <2>. QED
      BY <1>4, <2>1 DEF StoreLast, Aside
  <1>. QED
    BY <1>2, <1>3, <1>4

LEMMA StoreIsFixed == [Step]_rowVars => store' = store
  <1> SUFFICES ASSUME [Step]_rowVars PROVE store' = store
    OBVIOUS
  <1>1. ASSUME NEW r \in Requests, NEW failed \in BOOLEAN, NEW on \in BOOLEAN, NEW secret \in BOOLEAN,
               \/ Save(r, on, secret, failed) \/ SetEnabled(r, on, failed) \/ Fire(r, failed)
               \/ RecordVariant(r, failed) \/ ResolveExperiment(r, failed) \/ RecordNothing(r, failed)
        PROVE  store' = store
    BY <1>1 DEF Save, SetEnabled, Fire, ResolveExperiment, RecordVariant, RecordNothing, Start
  <1>2. ASSUME NEW r \in Requests, NEW fare \in Fares,
               \/ WriteRow(r, fare) \/ DeleteRow(r, fare) \/ AddToSet(r, fare) \/ RemoveFromSet(r, fare)
               \/ ForgetOffset(r, fare)
        PROVE  store' = store
    BY <1>2 DEF WriteRow, DeleteRow, AddToSet, RemoveFromSet, ForgetOffset, Put, Second
  <1>3. ASSUME NEW r \in Requests, IssueRun(r) \/ NoJob(r) PROVE store' = store
    BY <1>3 DEF IssueRun, NoJob
  <1>4. ASSUME NEW p \in Processes, Die(p) PROVE store' = store
    BY <1>4 DEF Die
  <1>5. CASE UNCHANGED rowVars
    BY <1>5 DEF rowVars
  <1>. QED
    BY <1>1, <1>2, <1>3, <1>4, <1>5 DEF Step, RowNext

\* A step of a request, or the death of a process that the connector does not see.
LEMMA RequestsKeep ==
  ASSUME StoresInv, RowStep \/ Restart
  PROVE  store' = store /\ RowsInv' /\ ConnInv'
  <1>1. Step
    BY DEF RowStep, Restart, Step
  <1>2. store' = store /\ RowsInv'
    BY <1>1, StoreIsFixed, RowsInvStep DEF StoresInv
  <1>3. UNCHANGED <<arrived, confirmed, memOffset, conn, handled, forgotten>>
    BY DEF RowStep, Restart, connVars
  <1>4. /\ offset' = offset \/ (offset' = 0 /\ \E r \in Editors : op[r].at = "forget" /\ op'[r].at = "idle")
        /\ faults' \in Nat /\ faults' >= faults
    BY <1>1, RowStepOffset DEF StoresInv
  <1>5. rewound \in BOOLEAN
    BY DEF StoresInv, ConnInv, ConnTypes
  <1>6. rewound' \in BOOLEAN /\ (rewound => rewound') /\ (offset' = offset \/ (offset' = 0 /\ rewound'))
    <2>1. CASE RowStep
      <3>1. rewound' = (rewound \/ \E r \in Editors : op[r].at = "forget" /\ op'[r].at = "idle")
        BY <2>1 DEF RowStep
      <3>. QED
        BY <1>4, <1>5, <3>1, Zenon
    <2>2. CASE Restart
      <3>1. rewound' = rewound /\ offset' = offset
        BY <2>2 DEF Restart, Die, connVars
      <3>. QED
        BY <1>5, <3>1
    <2>. QED
      BY <2>1, <2>2
  <1>. QED
    BY <1>2, <1>3, <1>4, <1>6, ConnStays DEF StoresInv

LEMMA ConnectorKeeps ==
  ASSUME StoresInv, ConnNext
  PROVE  store' = store /\ RowsInv' /\ ConnInv'
  <1>1. CASE \/ Arrive \/ ListAccounts \/ Handle
             \/ \E failed \in BOOLEAN : ReadLast(failed) \/ Poll(failed)
             \/ \E fare \in Fares : StoreLast(fare)
    <2>1. store' = store /\ RowsInv'
      BY <1>1, ConnIsAside, AsideKeeps DEF StoresInv, Aside
    <2>2. ConnInv'
      BY <1>1, ArriveKeeps, ReadLastKeeps, HandleKeeps, PollKeeps, StoreLastKeeps DEF StoresInv
    <2>. QED
      BY <2>1, <2>2
  <1>2. ASSUME NEW p \in Processes, ProcessDies(p) PROVE store' = store /\ RowsInv' /\ ConnInv'
    <2>1. Die(p) /\ Step
      BY <1>2 DEF ProcessDies, Step
    <2>2. store' = store /\ RowsInv'
      BY <2>1, StoreIsFixed, RowsInvStep DEF StoresInv
    <2>3. ConnInv'
      BY <1>2, ProcessDiesKeeps DEF StoresInv
    <2>. QED
      BY <2>2, <2>3
  <1>. QED
    BY <1>1, <1>2 DEF ConnNext

LEMMA StoresInvStep == StoresInv /\ [Next]_vars => StoresInv'
  <1> SUFFICES ASSUME StoresInv, [Next]_vars PROVE StoresInv'
    OBVIOUS
  <1>1. CASE store \in Stores /\ UNCHANGED armoryVars /\ (RowStep \/ ConnNext \/ Restart)
    <2>1. ArmoryInv'
      BY <1>1, ArmoryInvStep DEF StoresInv
    <2>. QED
      BY <1>1, <2>1, RequestsKeep, ConnectorKeeps DEF StoresInv
  <1>2. CASE UNCHANGED <<rowVars, connVars>> /\ [ArmoryNext]_armoryVars
    <2>1. ArmoryInv'
      BY <1>2, ArmoryInvStep DEF StoresInv
    <2>2. store' = store /\ RowsInv'
      BY <1>2, StoreIsFixed, RowsInvStep DEF StoresInv
    <2>3. ConnInv'
      <3>1. UNCHANGED <<arrived, confirmed, memOffset, conn, handled, forgotten, rewound, offset, faults>>
        BY <1>2 DEF rowVars, connVars
      <3>2. rewound \in BOOLEAN /\ faults \in Nat
        BY DEF StoresInv, ConnInv, ConnTypes, LostInv
      <3>3. faults' \in Nat /\ faults' >= faults
        BY <3>1, <3>2
      <3>. QED
        BY <3>1, <3>2, <3>3, ConnStays DEF StoresInv
    <2>. QED
      BY <2>1, <2>2, <2>3 DEF StoresInv
  <1>3. CASE UNCHANGED vars
    BY <1>2, <1>3 DEF vars
  <1>. QED
    BY <1>1, <1>2, <1>3 DEF Next

(***************************************************************************)
(* The theorems                                                            *)
(***************************************************************************)
\* The inductive invariant from which the others follow.
THEOREM StoresInvariant == Spec => []StoresInv
  BY StoresInvInit, StoresInvStep, PTL DEF Spec

LEMMA ConnTypesOK == ConnInv => ConnTypeOK
  <1> SUFFICES ASSUME ConnInv PROVE ConnTypeOK
    OBVIOUS
  <1>1. PICK a \in Nat : a = arrived
    BY UpdatesAssumption DEF ConnInv, ConnTypes
  <1>2. conn.batch \in Seq(1..a)
    <2>1. conn.batch \in Seq(Nat)
      BY DEF ConnInv, ConnTypes, ConnOf
    <2>2. \A i \in 1..Len(conn.batch) : conn.batch[i] \in 1..a
      <3>1. CASE AtWork
        BY <1>1, <3>1 DEF ConnInv, BatchInv
      <3>2. CASE ~AtWork
        BY <3>2 DEF ConnInv, BatchInv
      <3>. QED
        BY <3>1, <3>2
    <2>3. \A q \in Seq(Nat) : (\A i \in 1..Len(q) : q[i] \in 1..a) => q \in Seq(1..a)
      OBVIOUS
    <2>. QED
      BY <2>1, <2>2, <2>3
  <1>. QED
    BY <1>1, <1>2 DEF ConnInv, ConnTypes, ConnOf, ConnTypeOK

\* Every variable of the stores, the connector and the armory has its type: a run that
\* was issued belongs to a request that began, and the updates at hand have arrived.
THEOREM StoresTypes == Spec => []TypeOK
  <1>1. StoresInv => TypeOK
    <2> SUFFICES ASSUME StoresInv PROVE TypeOK
      OBVIOUS
    <2>1. RowTypeOK
      <3>1. Cardinality(Issuing) \in Nat /\ runs \in Nat /\ begun \in Nat /\ runs + Cardinality(Issuing) <= begun
        BY FS_CardinalityType DEF StoresInv, RowsInv, RowInv, CopyType, CountInv
      <3>2. runs \in 0..begun
        BY <3>1
      <3>. QED
        BY <3>2 DEF StoresInv, RowsInv, RowInv, CopyType, RestTypes, RowTypeOK, OpOf
    <2>. QED
      BY <2>1, ConnTypesOK DEF StoresInv, ArmoryInv, TypeOK
  <1>. QED
    BY <1>1, StoresInvariant, PTL

\* However saves, deletions, firings and recordings of a row cross, a field that says
\* something else than the last operation that set it was overwritten by one that had
\* read the row before, or a command failed: triggers.py, experiments.py and
\* connector_accounts.py.
THEOREM FieldsAreKept == Spec => []FieldsKept
  <1>1. StoresInv => FieldsKept
    BY DEF StoresInv, RowsInv, RowInv
  <1>. QED
    BY <1>1, StoresInvariant, PTL

\* The row and its id in the set of the list are written one after the other; when no
\* request is between the two they agree, unless two requests or a failed command tore
\* them apart.
THEOREM RowsAreListed == Spec => []RowsListed
  <1>1. StoresInv => RowsListed
    BY DEF StoresInv, RowsInv, IndexInv, RowsListed, Quiet
  <1>. QED
    BY <1>1, StoresInvariant, PTL

\* fire_trigger issues a run only of a trigger that was enabled by the last edit, or
\* when it was read.
THEOREM OnlyEnabledTriggersFire == Spec => OnlyEnabledFire
  <1>1. RowInv => [runs' # runs => \A r \in Users : op[r].at = "issue" /\ op'[r].at = "write" =>
             meant.on \/ "on" \in op[r].behind \cup undone]_rowVars
    <2> SUFFICES ASSUME RowInv, NEW r \in Users, op[r].at = "issue"
                 PROVE  meant.on \/ "on" \in op[r].behind \cup undone
      OBVIOUS
    <2>1. r \in Requests /\ "on" \in Fields
      BY DEF Requests, Fields
    <2>2. op[r].new.on /\ op[r].gives = {"used"}
      BY <2>1 DEF RowInv, CopiesAgree
    <2>3. "on" \notin op[r].behind => op[r].new["on"] = row["on"]
      BY <2>1, <2>2 DEF RowInv, CopiesAgree
    <2>4. "on" \notin undone => row["on"] = meant["on"]
      BY <2>1 DEF RowInv, FieldsKept
    <2>. QED
      BY <2>2, <2>3, <2>4
  <1>2. StoresInv => RowInv
    BY DEF StoresInv, RowsInv
  <1>. QED
    BY StoresInvariant, <1>1, <1>2, PTL DEF OnlyEnabledFire

\* Whatever the polls, answers, deletions of the account and deaths of the connector do,
\* an update is handled twice only after the last update id was deleted or diverted, and
\* one that Telegram has forgotten is handled, at hand, or was cut off by a death:
\* _polling_akun and _proses_update_telegram.
THEOREM UpdatesAreCounted == Spec => []UpdatesCounted
  <1>1. StoresInv => UpdatesCounted
    <2> SUFFICES ASSUME StoresInv PROVE UpdatesCounted
      OBVIOUS
    <2>1. ASSUME NEW u \in Updates, handled[u] > 1 PROVE rewound
      <3>1. handled[u] \in Nat
        BY DEF StoresInv, ConnInv, ConnTypes
      <3>2. ~(handled[u] <= 1)
        BY <2>1, <3>1
      <3>. QED
        BY <3>2 DEF StoresInv, ConnInv, OnceInv
    <2>2. Larger(confirmed, offset) \in {confirmed, offset}
      BY DEF Larger
    <2>3. ASSUME NEW u \in 1..Larger(confirmed, offset) PROVE handled[u] > 0 \/ u \in forgotten \cup AtHand
      <3>1. Done(u) \/ Under(u)
        BY <2>2 DEF StoresInv, ConnInv, DoneInv, Upto
      <3>2. ASSUME Under(u) PROVE u \in AtHand
        <4>1. conn.batch \in Seq(Nat) /\ conn.batch # <<>>
          BY <3>2 DEF Under, AtWork, StoresInv, ConnInv, ConnTypes, ConnOf, BatchInv
        <4>2. 1 \in 1..Len(conn.batch)
          BY <4>1
        <4>. QED
          BY <3>2, <4>2 DEF Under, AtHand
      <3>. QED
        BY <3>1, <3>2 DEF Done
    <2>4. Cardinality(forgotten) <= faults
      BY DEF StoresInv, ConnInv, LostInv
    <2>. QED
      BY <2>1, <2>3, <2>4 DEF UpdatesCounted
  <1>. QED
    BY <1>1, StoresInvariant, PTL

\* Whatever the tools, deployments and expiries do, two tools use the account at once
\* only after a lock expired over its holder, and an idle account is marked as in use
\* only if a tool broke off or writes crossed: core/armory.py with tools/messaging.py.
THEOREM AccountIsShared == Spec => []AccountShared
  <1>1. StoresInv => AccountShared
    BY DEF StoresInv, ArmoryInv, OneHolder, RowTells, AccountShared, OneUser, Using, AccountTells, Working
  <1>. QED
    BY <1>1, StoresInvariant, PTL
================================================================================

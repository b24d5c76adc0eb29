----------------------------- MODULE AgentRunsProofs ---------------------------
(***************************************************************************)
(* Proofs about AgentRuns, for every number of slots, of runs and of       *)
(* mishaps, every set of steps and every planner.                          *)
(*                                                                         *)
(* The invariant has three parts: what a memory is (MemOk), what a run is  *)
(* at each phase (RunOk), and that a run that has not been recorded is in  *)
(* no memory (Unrecorded).  MemOk carries the guardrail, the score of a    *)
(* step is no less than its failures since it last succeeded, and the      *)
(* bound of the scores: a run adds its results once, and has at most       *)
(* MaxSteps of them in each iteration.                                     *)
(***************************************************************************)
EXTENDS AgentRuns, FoldTheorems

Memory ==
  [runs : SUBSET Nat, score : [Signatures -> Nat], streak : [Steps -> 0..AvoidAt]]
Result == [step : Steps, success : BOOLEAN]
Endings == {"none", "refused", "no plan", "asked", "message"}
Run ==
  [phase : Phases, id : Nat, ask : BOOLEAN, known : SUBSET Sensitive, iteration : 0..MaxIterations,
   avoid : SUBSET Signatures, streaky : SUBSET Steps, todo : Seq(Steps \cup {Note}),
   results : Seq(Result), ending : Endings, memory : Memory \cup {None}]

\* The results that a run can have.
PerRun == MaxIterations * MaxSteps

\* A memory of runs among the first n.
MemOk(m, n) ==
  /\ m \in Memory /\ m.runs \subseteq 1..n
  /\ \A s \in Steps : m.streak[s] <= m.score[ResultSignature(s)]
  /\ \A g \in Signatures : m.score[g] <= Cardinality(m.runs) * PerRun

\* A run among the first n, when the commands in ok are approved.
RunOk(r, n, ok) ==
  /\ r \in Run /\ r.known \subseteq ok
  /\ r.phase # "idle" => r.id \in 1..n
  /\ r.phase # "act" => r.todo = <<>>
  /\ r.phase = "plan" => r.iteration < MaxIterations
  /\ Len(r.results) + Len(r.todo) <= r.iteration * MaxSteps
  /\ r.todo \in Seq(Allowed(r.avoid))
  /\ \A s \in r.streaky \ Rebased : PlanSignature(s) \in r.avoid
  /\ r.phase \in {"conclude", "save"} => r.ending # "none"
  /\ IF r.phase = "save" THEN MemOk(r.memory, n) ELSE r.memory = None

OtherTypes ==
  /\ issued \in 0..MaxRuns /\ deleting \in BOOLEAN
  /\ approved \subseteq asked /\ asked \subseteq Sensitive
  /\ faults \in Nat /\ restarts \in Nat
  /\ run \in [Slots -> Run] /\ copy \in [Processes -> Memory \cup {None}] /\ overtaken \in [Slots -> BOOLEAN]

\* The runs that go on are different ones, and no memory has one of them.
Live == {s \in Slots : run[s].phase # "idle"}
Missing(m) == \A s \in Live : run[s].id \notin m.runs
Unrecorded ==
  /\ \A s, t \in Live : s # t => run[s].id # run[t].id
  /\ row # None => Missing(row)
  /\ \A p \in Processes : copy[p] # None => Missing(copy[p])
  /\ \A s \in Slots : run[s].phase = "save" => Missing(run[s].memory)

\* A run that is about to write has read what it will overwrite.
ReadBeforeWrite ==
  faults = 0 =>
    \A s \in Slots : run[s].phase = "save" /\ ~overtaken[s] => row \in {None, run[s].memory}

MemoriesInv ==
  /\ row # None => MemOk(row, issued)
  /\ \A p \in Processes : copy[p] # None => MemOk(copy[p], issued)
RunsInv == \A s \in Slots : RunOk(run[s], issued, approved)
IInv == OtherTypes /\ MemoriesInv /\ RunsInv /\ Unrecorded /\ ReadBeforeWrite /\ OnlyApproved

(***************************************************************************)
(* Numbers                                                                 *)
(***************************************************************************)
LEMMA PerRunType == PerRun \in Nat
  BY AgentAssumption DEF PerRun

LEMMA ProductGrows ==
  ASSUME NEW k \in Nat, NEW a \in Nat, NEW b \in Nat, a <= b
  PROVE  a * k \in Nat /\ b * k \in Nat /\ a * k <= b * k
  <1> DEFINE T == {n \in Nat : a * k <= (a + n) * k}
  <1>1. 0 \in T
    OBVIOUS
  <1>2. ASSUME NEW n \in Nat, n \in T PROVE n + 1 \in T
    <2>1. PICK x \in Nat : x = (a + n) * k
      OBVIOUS
    <2>2. (a + (n + 1)) * k = x + k
      BY <2>1
    <2>3. a * k <= x /\ a * k \in Nat
      BY <1>2, <2>1
    <2>. QED
      BY <2>2, <2>3
  <1>3. Nat \subseteq T
    <2> HIDE DEF T
    <2>. QED
      BY <1>1, <1>2, NumbersFromZero
  <1>4. PICK n \in Nat : b = a + n
    <2>1. b - a \in Nat /\ b = a + (b - a)
      OBVIOUS
    <2>. QED
      BY <2>1
  <1>. QED
    BY <1>3, <1>4

LEMMA ProductOfNext == \A k, a \in Nat : (a + 1) * k = a * k + k /\ a * k \in Nat
  OBVIOUS

\* A signature names its step.
LEMMA SignaturesDiffer ==
  /\ \A s \in Steps : PlanSignature(s) \in Signatures /\ ResultSignature(s) \in Signatures
  /\ \A s, t \in Steps : ResultSignature(s) = ResultSignature(t) => s = t
  /\ \A s \in Steps \ Rebased : ResultSignature(s) = PlanSignature(s)
  BY DEF Signatures, PlanSignature, ResultSignature

(***************************************************************************)
(* The results of a run                                                    *)
(***************************************************************************)
\* One result changes one score by one.
LEMMA AddResultType ==
  ASSUME NEW m \in Memory, NEW x \in Result
  PROVE  /\ AddResult(m, x) \in Memory /\ AddResult(m, x).runs = m.runs
         /\ \A g \in Signatures : AddResult(m, x).score[g] <= m.score[g] + 1
         /\ (\A s \in Steps : m.streak[s] <= m.score[ResultSignature(s)])
              => \A s \in Steps : AddResult(m, x).streak[s] <= AddResult(m, x).score[ResultSignature(s)]
  <1>1. PICK st \in Steps : st = x.step
    BY DEF Result
  <1>2. PICK g \in Signatures : g = ResultSignature(st)
    BY SignaturesDiffer
  <1>3. PICK a \in Nat : a = m.score[g]
    BY DEF Memory
  <1>4. PICK b \in 0..AvoidAt : b = m.streak[st]
    BY DEF Memory
  <1>5. PICK c \in Nat : c = IF x.success THEN IF a > 0 THEN a - 1 ELSE 0 ELSE a + 1
    OBVIOUS
  <1>6. PICK d \in 0..AvoidAt : d = IF x.success THEN 0 ELSE IF b < AvoidAt THEN b + 1 ELSE b
    <2>1. AvoidAt \in Nat
      BY AgentAssumption
    <2>. QED
      BY <2>1
  <1>7. PICK y \in Memory : y = [m EXCEPT !.score = [m.score EXCEPT ![g] = c], !.streak = [m.streak EXCEPT ![st] = d]]
    BY DEF Memory
  <1>8. AddResult(m, x) = y
    BY <1>1, <1>2, <1>3, <1>4, <1>5, <1>6, <1>7 DEF AddResult
  <1>9. /\ y.runs = m.runs
        /\ \A i \in Signatures : y.score[i] = IF i = g THEN c ELSE m.score[i]
        /\ \A s \in Steps : y.streak[s] = IF s = st THEN d ELSE m.streak[s]
    BY <1>7 DEF Memory
  <1>10. \A i \in Signatures : y.score[i] <= m.score[i] + 1
    <2>1. c <= a + 1
      BY <1>5
    <2>2. \A i \in Signatures : m.score[i] \in Nat
      BY DEF Memory
    <2>. QED
      BY <1>3, <1>9, <2>1, <2>2
  <1>11. ASSUME \A s \in Steps : m.streak[s] <= m.score[ResultSignature(s)], NEW s \in Steps
         PROVE  y.streak[s] <= y.score[ResultSignature(s)]
    <2>1. CASE s = st
      <3>1. b <= a /\ AvoidAt \in Nat
        BY <1>2, <1>3, <1>4, <1>11, AgentAssumption
      <3>2. d <= c
        BY <1>5, <1>6, <3>1
      <3>. QED
        BY <1>2, <1>9, <2>1, <3>2
    <2>2. CASE s # st
      <3>1. ResultSignature(s) \in Signatures /\ ResultSignature(s) # g
        BY <1>2, <2>2, SignaturesDiffer
      <3>. QED
        BY <1>9, <1>11, <2>2, <3>1
    <2>. QED
      BY <2>1, <2>2
  <1>. QED
    BY <1>8, <1>9, <1>10, <1>11

Scored(m, q) == FoldLeft(AddResult, m, q)
NextScored(m, q, g, s) == IF s = {} THEN m ELSE AddResult(g[s \ {Max(s)}], q[Max(s)])
Scoreds(m, q) == CHOOSE g : g = [s \in SUBSET DOMAIN q |-> NextScored(m, q, g, s)]

LEMMA ScoredIsScoreds == \A m, q : Scored(m, q) = Scoreds(m, q)[DOMAIN q]
  BY DEF Scored, FoldLeft, MapThenFoldSet, Scoreds, NextScored

LEMMA IndexesFinite ==
  ASSUME NEW A, NEW q \in Seq(A)
  PROVE  DOMAIN q \in SUBSET Nat /\ IsFiniteSet(DOMAIN q) /\ Cardinality(DOMAIN q) = Len(q)
  <1>1. DOMAIN q = 1..Len(q) /\ Len(q) \in Nat
    OBVIOUS
  <1>2. IsFiniteSet(1..Len(q)) /\ Cardinality(1..Len(q)) = Len(q)
    BY <1>1, FS_Interval
  <1>. QED
    BY <1>1, <1>2

LEMMA ScoredsExist ==
  ASSUME NEW m \in Memory, NEW q \in Seq(Result)
  PROVE  \E g \in [SUBSET DOMAIN q -> Memory] : g = [s \in SUBSET DOMAIN q |-> NextScored(m, q, g, s)]
  <1> DEFINE D == DOMAIN q
             V == Memory
             pick == [s \in SUBSET D |-> Max(s)]
             step == [i \in D |-> [v \in V |-> AddResult(v, q[i])]]
  <1>1. D \in SUBSET Nat /\ IsFiniteSet(D)
    BY IndexesFinite
  <1>2. ASSUME NEW s \in SUBSET D, s # {} PROVE pick[s] \in s
    BY <1>1, <1>2, FS_Subset, GreatestIsIn
  <1>3. step \in [D -> [V -> V]] /\ m \in V
    <2>1. \A i \in D : \A v \in V : AddResult(v, q[i]) \in V
      BY AddResultType
    <2>. QED
      BY <2>1
  <1>4. PICK g \in [SUBSET D -> V] : IsFold(D, pick, m, step, g)
    <2>1. \A s \in SUBSET D : s # {} => pick[s] \in s
      BY <1>2
    <2> HIDE DEF D, V, pick, step
    <2>. QED
      BY <1>1, <1>3, <2>1, FoldExists
  <1>5. \A s \in SUBSET D : g[s] = IF s = {} THEN m ELSE step[pick[s]][g[s \ {pick[s]}]]
    <2> HIDE DEF D, V, pick, step
    <2>. QED
      BY <1>4 DEF IsFold
  <1>6. ASSUME NEW s \in SUBSET D PROVE g[s] = NextScored(m, q, g, s)
    <2>1. CASE s = {}
      BY <1>5, <2>1 DEF NextScored
    <2>2. CASE s # {}
      <3>1. PICK i \in D : i = Max(s) /\ i = pick[s]
        BY <1>2, <2>2
      <3>2. PICK v \in V : v = g[s \ {i}]
        BY <1>4
      <3>3. g[s] = step[i][v]
        BY <1>5, <2>2, <3>1, <3>2
      <3>4. g[s] = AddResult(v, q[i])
        BY <3>3
      <3>. QED
        BY <2>2, <3>1, <3>2, <3>4 DEF NextScored
    <2>. QED
      BY <2>1, <2>2
  <1>. QED
    BY <1>4, <1>6

\* The results of a run change a score by no more than they are many, and the score
\* of a step stays no less than its failures.
LEMMA ScoredType ==
  ASSUME NEW m \in Memory, NEW q \in Seq(Result),
         \A s \in Steps : m.streak[s] <= m.score[ResultSignature(s)]
  PROVE  /\ Scored(m, q) \in Memory /\ Scored(m, q).runs = m.runs
         /\ \A g \in Signatures : Scored(m, q).score[g] <= m.score[g] + Len(q)
         /\ \A s \in Steps : Scored(m, q).streak[s] <= Scored(m, q).score[ResultSignature(s)]
  <1> DEFINE P(g) == g = [s \in SUBSET DOMAIN q |-> NextScored(m, q, g, s)]
             h == Scoreds(m, q)
             Right(v, n) == /\ v \in Memory /\ v.runs = m.runs
                            /\ \A g \in Signatures : v.score[g] <= m.score[g] + n
                            /\ \A s \in Steps : v.streak[s] <= v.score[ResultSignature(s)]
  <1>1. \E g : P(g)
    BY ScoredsExist
  <1>2. Scoreds(m, q) = CHOOSE g : P(g)
    BY DEF Scoreds
  <1>3. P(h)
    <2> HIDE DEF P
    <2>. QED
      BY <1>1, <1>2
  <1>4. ASSUME NEW s \in SUBSET DOMAIN q PROVE h[s] = NextScored(m, q, h, s)
    <2> HIDE DEF h
    <2>. QED
      BY <1>3
  <1>5. DOMAIN q \in SUBSET Nat /\ IsFiniteSet(DOMAIN q) /\ Cardinality(DOMAIN q) = Len(q)
    BY IndexesFinite
  <1> DEFINE C == {s \in SUBSET DOMAIN q : Right(h[s], Cardinality(s))}
  <1>6. ASSUME NEW v, NEW n \in Nat, Right(v, n), NEW x \in Result PROVE Right(AddResult(v, x), n + 1)
    <2>1. PICK y : y = AddResult(v, x)
      OBVIOUS
    <2>2. /\ y \in Memory /\ y.runs = v.runs
          /\ \A g \in Signatures : y.score[g] <= v.score[g] + 1
          /\ \A s \in Steps : y.streak[s] <= y.score[ResultSignature(s)]
      BY <1>6, <2>1, AddResultType
    <2>3. \A g \in Signatures : m.score[g] \in Nat /\ v.score[g] \in Nat /\ y.score[g] \in Nat
      BY <1>6, <2>2 DEF Memory
    <2>4. \A g \in Signatures : y.score[g] <= m.score[g] + (n + 1)
      BY <1>6, <2>2, <2>3
    <2>. QED
      BY <1>6, <2>1, <2>2, <2>4
  <1>7. Right(m, 0)
    <2>1. \A g \in Signatures : m.score[g] \in Nat
      BY DEF Memory
    <2>. QED
      BY <2>1
  <1>8. ASSUME NEW s \in SUBSET DOMAIN q, \A t \in SUBSET s : t # s => t \in C PROVE s \in C
    <2> SUFFICES Right(h[s], Cardinality(s))
      OBVIOUS
    <2> HIDE DEF h, Right
    <2>1. CASE s = {}
      <3>1. h[s] = m
        BY <1>4, <2>1 DEF NextScored
      <3>2. Cardinality(s) = 0
        BY <2>1, FS_EmptySet
      <3>. QED
        BY <1>7, <3>1, <3>2
    <2>2. CASE s # {}
      <3>1. PICK i \in s : i = Max(s)
        BY <1>5, <2>2, FS_Subset, GreatestIsIn
      <3>2. PICK v : v = h[s \ {i}] /\ Right(v, Cardinality(s \ {i}))
        BY <1>8, <3>1
      <3>3. h[s] = AddResult(v, q[i])
        BY <1>4, <2>2, <3>1, <3>2 DEF NextScored
      <3>4. PICK n \in Nat : n = Cardinality(s \ {i}) /\ Cardinality(s) = n + 1
        <4>1. Cardinality(s) \in Nat /\ Cardinality(s \ {i}) = Cardinality(s) - 1 /\ Cardinality(s \ {i}) \in Nat
          BY <1>5, <3>1, FS_Subset, FS_RemoveElement, FS_CardinalityType
        <4>. QED
          BY <4>1
      <3>5. q[i] \in Result
        OBVIOUS
      <3>. QED
        BY <1>6, <3>2, <3>3, <3>4, <3>5
    <2>. QED
      BY <2>1, <2>2
  <1>9. SUBSET DOMAIN q \subseteq C
    <2> HIDE DEF C
    <2>. QED
      BY <1>5, <1>8, PartsBySize
  <1>10. Right(h[DOMAIN q], Len(q))
    <2> HIDE DEF h, Right
    <2>. QED
      BY <1>5, <1>9
  <1>. QED
    BY <1>10, ScoredIsScoreds

(***************************************************************************)
(* The memories                                                            *)
(***************************************************************************)
LEMMA RunsFinite ==
  ASSUME NEW n \in Nat, NEW R, R \subseteq 1..n
  PROVE  IsFiniteSet(R) /\ Cardinality(R) \in Nat /\ Cardinality(R) <= n
  <1>1. IsFiniteSet(1..n) /\ Cardinality(1..n) = n
    BY FS_Interval
  <1>. QED
    BY <1>1, FS_Subset, FS_CardinalityType

LEMMA MemOkGrows ==
  ASSUME NEW n \in Nat, NEW k \in Nat, n <= k, NEW m, MemOk(m, n)
  PROVE  MemOk(m, k)
  <1>1. 1..n \subseteq 1..k
    OBVIOUS
  <1>. QED
    BY <1>1 DEF MemOk

LEMMA DefaultOk == ASSUME NEW n \in Nat PROVE MemOk(DefaultMemory, n)
  <1>1. DefaultMemory \in Memory /\ DefaultMemory.runs = {}
    BY AgentAssumption DEF DefaultMemory, Memory
  <1>2. \A s \in Steps : DefaultMemory.streak[s] = 0
    BY DEF DefaultMemory
  <1>3. \A g \in Signatures : DefaultMemory.score[g] = 0
    BY DEF DefaultMemory
  <1>4. Cardinality({}) * PerRun = 0
    <2>1. Cardinality({}) = 0
      BY FS_EmptySet
    <2>. QED
      BY <2>1, PerRunType
  <1>. QED
    BY <1>1, <1>2, <1>3, <1>4, SignaturesDiffer DEF MemOk

\* Another run is recorded, and the scores stay within what its results allow.
LEMMA RecordedOk ==
  ASSUME NEW n \in Nat, NEW m, MemOk(m, n), NEW id \in 1..n, id \notin m.runs,
         NEW q \in Seq(Result), Len(q) <= PerRun
  PROVE  MemOk(Recorded(m, id, q), n) /\ Recorded(m, id, q).runs = m.runs \cup {id}
  <1>1. PICK v : v = Scored(m, q)
    OBVIOUS
  <1>2. /\ v \in Memory /\ v.runs = m.runs
        /\ \A g \in Signatures : v.score[g] <= m.score[g] + Len(q)
        /\ \A s \in Steps : v.streak[s] <= v.score[ResultSignature(s)]
    BY <1>1, ScoredType DEF MemOk
  <1>3. PICK y : y = [v EXCEPT !.runs = m.runs \cup {id}]
    OBVIOUS
  <1>4. Recorded(m, id, q) = y
    BY <1>1, <1>2, <1>3 DEF Recorded, Scored
  <1>5. /\ y \in Memory /\ y.runs = m.runs \cup {id} /\ y.score = v.score /\ y.streak = v.streak
    BY <1>2, <1>3 DEF Memory
  <1>6. y.runs \subseteq 1..n
    BY <1>5 DEF MemOk
  <1>7. PICK c \in Nat : c = Cardinality(m.runs) /\ Cardinality(y.runs) = c + 1
    <2>1. IsFiniteSet(m.runs) /\ Cardinality(m.runs) \in Nat
      BY RunsFinite DEF MemOk
    <2>2. Cardinality(m.runs \cup {id}) = Cardinality(m.runs) + 1
      BY <2>1, FS_AddElement
    <2>. QED
      BY <1>5, <2>1, <2>2
  <1>8. ASSUME NEW g \in Signatures PROVE y.score[g] <= Cardinality(y.runs) * PerRun
    <2>1. PICK a \in Nat : a = m.score[g]
      BY DEF MemOk, Memory
    <2>2. PICK b \in Nat : b = v.score[g]
      BY <1>2 DEF Memory
    <2>3. PICK k \in Nat : k = PerRun
      BY PerRunType
    <2>4. PICK e \in Nat : e = c * k /\ (c + 1) * k = e + k
      BY ProductOfNext
    <2>5. a <= e
      BY <1>7, <2>1, <2>3, <2>4 DEF MemOk
    <2>6. b <= a + Len(q) /\ Len(q) \in Nat /\ Len(q) <= k
      BY <1>2, <2>1, <2>2, <2>3
    <2>. QED
      BY <1>5, <1>7, <2>2, <2>3, <2>4, <2>5, <2>6
  <1>. QED
    BY <1>2, <1>4, <1>5, <1>6, <1>8 DEF MemOk

\* What a process loads is a memory, with no run that goes on.
LEMMA LoadedOk ==
  ASSUME OtherTypes, MemoriesInv, Unrecorded, NEW p \in Processes, NEW refused \in BOOLEAN
  PROVE  MemOk(Loaded(p, refused), issued) /\ Missing(Loaded(p, refused))
  <1>1. issued \in Nat
    BY AgentAssumption DEF OtherTypes
  <1>2. MemOk(DefaultMemory, issued)
    BY <1>1, DefaultOk
  <1>3. Missing(DefaultMemory)
    BY DEF Missing, DefaultMemory
  <1>. QED
    BY <1>2, <1>3 DEF Loaded, MemoriesInv, Unrecorded

\* A memory is within the bounds.
LEMMA MemoryBounds ==
  ASSUME NEW n \in 0..MaxRuns, NEW m, MemOk(m, n)
  PROVE  /\ m.runs \subseteq 1..n
         /\ m.score \in [Signatures -> 0..(MaxRuns * MaxIterations * MaxSteps)]
         /\ m.streak \in [Steps -> 0..AvoidAt]
  <1>1. MaxRuns \in Nat /\ n \in Nat /\ n <= MaxRuns
    BY AgentAssumption
  <1>2. PICK k \in Nat : k = PerRun
    BY PerRunType
  <1>3. MaxRuns * MaxIterations * MaxSteps = MaxRuns * k
    <2>1. MaxIterations \in Nat /\ MaxSteps \in Nat
      BY AgentAssumption
    <2>. QED
      BY <1>1, <1>2, <2>1 DEF PerRun
  <1>4. PICK c \in Nat : c = Cardinality(m.runs) /\ c <= MaxRuns
    <2>1. Cardinality(m.runs) \in Nat /\ Cardinality(m.runs) <= n
      BY <1>1, RunsFinite DEF MemOk
    <2>. QED
      BY <1>1, <2>1
  <1>5. c * k \in Nat /\ MaxRuns * k \in Nat /\ c * k <= MaxRuns * k
    BY <1>1, <1>4, ProductGrows
  <1>6. \A g \in Signatures : m.score[g] \in Nat /\ m.score[g] <= c * k
    BY <1>2, <1>4 DEF MemOk, Memory
  <1>7. \A g \in Signatures : m.score[g] \in 0..(MaxRuns * k)
    BY <1>5, <1>6
  <1>. QED
    BY <1>3, <1>7 DEF MemOk, Memory

(***************************************************************************)
(* The plans                                                               *)
(***************************************************************************)
LEMMA AllowedType == \A avoid : Allowed(avoid) \subseteq Steps \cup {Note} /\ Note \in Allowed(avoid)
  BY DEF Allowed

LEMMA AllowedSequences == ASSUME NEW avoid, NEW q \in Seq(Allowed(avoid)) PROVE q \in Seq(Steps \cup {Note})
  <1>1. \A i \in DOMAIN q : q[i] \in Steps \cup {Note}
    BY AllowedType
  <1>. QED
    BY <1>1

LEMMA SmallerOfTwo ==
  ASSUME NEW a \in Nat, NEW b \in Nat
  PROVE  Min({a, b}) \in {a, b} /\ Min({a, b}) <= a /\ Min({a, b}) <= b
  <1>1. \E x \in {a, b} : \A y \in {a, b} : x <= y
    <2>1. CASE a <= b
      BY <2>1
    <2>2. CASE b <= a
      BY <2>2
    <2>. QED
      BY <2>1, <2>2
  <1>2. Min({a, b}) \in {a, b} /\ \A y \in {a, b} : Min({a, b}) <= y
    <2> DEFINE P(x) == \A y \in {a, b} : x <= y
    <2>1. Min({a, b}) = CHOOSE x \in {a, b} : P(x)
      BY DEF Min
    <2>2. \E x \in {a, b} : P(x)
      BY <1>1
    <2>3. Min({a, b}) \in {a, b} /\ P(Min({a, b}))
      <3> HIDE DEF P
      <3>. QED
        BY <2>1, <2>2
    <2>. QED
      BY <2>3
  <1>. QED
    BY <1>2

LEMMA SanitisedType ==
  ASSUME NEW plan \in Plans
  PROVE  Sanitised(plan) \in Seq(Steps \cup {Note}) /\ Len(Sanitised(plan)) <= MaxSteps
  <1>1. MaxSteps \in Nat /\ MaxSteps >= 1 /\ plan \in Seq(Steps)
    BY AgentAssumption
  <1>2. CASE plan = <<>>
    <2>1. Sanitised(plan) = <<Note>>
      BY <1>2 DEF Sanitised
    <2>2. <<Note>> \in Seq(Steps \cup {Note}) /\ Len(<<Note>>) = 1
      OBVIOUS
    <2>. QED
      BY <1>1, <2>1, <2>2
  <1>3. CASE plan # <<>>
    <2>1. PICK n \in Nat : n = Min({Len(plan), MaxSteps}) /\ n <= Len(plan) /\ n <= MaxSteps
      <3>1. Len(plan) \in Nat
        BY <1>1
      <3>. QED
        BY <1>1, <3>1, SmallerOfTwo
    <2>2. Sanitised(plan) = SubSeq(plan, 1, n)
      BY <1>3, <2>1 DEF Sanitised
    <2>3. SubSeq(plan, 1, n) \in Seq(Steps) /\ Len(SubSeq(plan, 1, n)) = n
      <3>1. /\ 1 \in 1..(Len(plan) + 1) /\ n \in 0..Len(plan) /\ 1 \in Int /\ n \in Int
            /\ n - 1 + 1 = n /\ (n < 1 => n = 0)
        BY <1>1, <2>1
      <3>2. \A i \in 1..n : plan[i] \in Steps
        BY <1>1, <3>1
      <3>. QED
        BY <1>1, <3>1, <3>2, SubSeqProperties
    <2>4. \A q \in Seq(Steps) : q \in Seq(Steps \cup {Note})
      OBVIOUS
    <2>. QED
      BY <2>1, <2>2, <2>3, <2>4
  <1>. QED
    BY <1>2, <1>3

\* The guardrail keeps what it allows, and a plan is left.
LEMMA GuardedType ==
  ASSUME NEW plan \in Plans, NEW avoid
  PROVE  /\ Guarded(Sanitised(plan), avoid) \in Seq(Allowed(avoid))
         /\ Guarded(Sanitised(plan), avoid) # <<>>
         /\ Len(Guarded(Sanitised(plan), avoid)) <= MaxSteps
  <1>1. PICK q \in Seq(Steps \cup {Note}) : q = Sanitised(plan) /\ Len(q) <= MaxSteps
    BY SanitisedType
  <1>2. PICK k : k = Kept(q, Allowed(avoid))
    OBVIOUS
  <1>3. k = Sifted(q, Allowed(avoid))
    BY <1>2 DEF Kept, Sifted
  <1>4. k \in Seq(Allowed(avoid)) /\ Len(k) <= Len(q)
    BY <1>3, SiftedType
  <1>5. Len(k) <= MaxSteps
    <2>1. MaxSteps \in Nat /\ Len(k) \in Nat /\ Len(q) \in Nat
      BY <1>4, AgentAssumption
    <2>. QED
      BY <1>1, <1>4, <2>1
  <1>6. Guarded(Sanitised(plan), avoid) = IF k = <<>> THEN <<Note>> ELSE k
    BY <1>1, <1>2 DEF Guarded
  <1>7. <<Note>> \in Seq(Allowed(avoid)) /\ <<Note>> # <<>> /\ Len(<<Note>>) = 1
    BY AllowedType
  <1>8. MaxSteps \in Nat /\ 1 <= MaxSteps
    BY AgentAssumption
  <1>. QED
    BY <1>4, <1>5, <1>6, <1>7, <1>8

(***************************************************************************)
(* What a step makes of a run                                              *)
(***************************************************************************)
LEMMA RunOkGrows ==
  ASSUME NEW n \in Nat, NEW k \in Nat, n <= k, NEW ok, NEW more, ok \subseteq more, NEW r, RunOk(r, n, ok)
  PROVE  RunOk(r, k, more)
  <1>1. 1..n \subseteq 1..k
    OBVIOUS
  <1>2. r.phase = "save" => MemOk(r.memory, k)
    BY MemOkGrows DEF RunOk
  <1>. QED
    BY <1>1, <1>2 DEF RunOk

LEMMA Bounds == MaxIterations \in Nat \ {0} /\ MaxSteps \in Nat \ {0}
  BY AgentAssumption

LEMMA IdleOk == ASSUME NEW n, NEW ok PROVE RunOk(Idle, n, ok)
  <1>1. Idle \in Run
    BY Bounds DEF Idle, Run, Phases, Endings
  <1>2. 0 * MaxSteps = 0
    BY Bounds
  <1>3. Len(Idle.results) + Len(Idle.todo) <= Idle.iteration * MaxSteps
    BY <1>2 DEF Idle
  <1>. QED
    BY <1>1, <1>3 DEF RunOk, Idle

\* A run begins.
Began(id, ask, ok, ready) ==
  [Idle EXCEPT !.phase = IF ready THEN "plan" ELSE "conclude", !.ending = IF ready THEN "none" ELSE "refused",
               !.id = id, !.ask = ask, !.known = ok]

LEMMA BeginOk ==
  ASSUME NEW n \in Nat, NEW id \in 1..n, NEW ok \in SUBSET Sensitive, NEW ask \in BOOLEAN, NEW ready \in BOOLEAN,
         NEW r, r = Began(id, ask, ok, ready)
  PROVE  RunOk(r, n, ok) /\ r.todo = <<>> /\ r.phase \in {"plan", "conclude"} /\ r.id = id
  <1>1. PICK p \in Phases : p = IF ready THEN "plan" ELSE "conclude"
    BY DEF Phases
  <1>2. PICK e \in Endings : e = IF ready THEN "none" ELSE "refused"
    BY DEF Endings
  <1>3. PICK i \in Run : i = Idle
    <2>1. RunOk(Idle, n, ok)
      BY IdleOk
    <2>. QED
      BY <2>1 DEF RunOk
  <1>4. r = [i EXCEPT !.phase = p, !.ending = e, !.id = id, !.ask = ask, !.known = ok]
    BY <1>1, <1>2, <1>3 DEF Began
  <1>5. /\ r \in Run /\ r.phase = p /\ r.ending = e /\ r.id = id /\ r.known = ok
        /\ r.iteration = i.iteration /\ r.avoid = i.avoid /\ r.streaky = i.streaky /\ r.todo = i.todo
        /\ r.results = i.results /\ r.memory = i.memory
    <2>1. id \in Nat
      OBVIOUS
    <2>2. r \in Run
      BY <1>4, <2>1 DEF Run
    <2>3. r.phase = p /\ r.ending = e /\ r.id = id /\ r.known = ok
      BY <1>4 DEF Run
    <2>4. /\ r.iteration = i.iteration /\ r.avoid = i.avoid /\ r.streaky = i.streaky /\ r.todo = i.todo
          /\ r.results = i.results /\ r.memory = i.memory
      BY <1>4 DEF Run
    <2>. QED
      BY <2>2, <2>3, <2>4
  <1>6. /\ i.iteration = 0 /\ i.avoid = {} /\ i.streaky = {} /\ i.todo = <<>> /\ i.results = <<>> /\ i.memory = None
    <2>1. i.iteration = 0
      BY <1>3 DEF Idle
    <2>2. i.avoid = {} /\ i.streaky = {}
      BY <1>3 DEF Idle
    <2>3. i.todo = <<>>
      BY <1>3 DEF Idle
    <2>4. i.results = <<>>
      BY <1>3 DEF Idle
    <2>5. i.memory = None
      BY <1>3 DEF Idle
    <2>. QED
      BY <2>1, <2>2, <2>3, <2>4, <2>5
  <1>7. Len(r.results) + Len(r.todo) <= r.iteration * MaxSteps
    <2>1. r.iteration * MaxSteps = 0
      <3>1. r.iteration = 0
        BY <1>5, <1>6
      <3>2. 0 * MaxSteps = 0
        BY Bounds
      <3>. QED
        BY <3>1, <3>2
    <2>2. Len(r.results) = 0 /\ Len(r.todo) = 0
      BY <1>5, <1>6
    <2>3. 0 + 0 <= 0
      OBVIOUS
    <2>. QED
      BY <2>1, <2>2, <2>3, Zenon
  <1>8. r.phase = "plan" => r.iteration < MaxIterations
    BY <1>5, <1>6, Bounds
  <1>9. r.phase \in {"conclude", "save"} => r.ending # "none"
    BY <1>1, <1>2, <1>5
  <1>10. r.phase # "save" /\ r.phase # "act"
    BY <1>1, <1>5
  <1>11. <<>> \in Seq(Allowed({}))
    OBVIOUS
  <1>. QED
    BY <1>1, <1>5, <1>6, <1>7, <1>8, <1>9, <1>10, <1>11 DEF RunOk

\* The context of a memory: where the last executions of a step failed, the guardrail
\* knows the signature, unless the base URL has a path of its own.
LEMMA ContextOk ==
  ASSUME NEW n, NEW k, NEW ok, NEW r, RunOk(r, n, ok), r.todo = <<>>, NEW m, MemOk(m, k)
  PROVE  /\ RunOk(WithContext(r, m), n, ok)
         /\ WithContext(r, m).phase = r.phase /\ WithContext(r, m).id = r.id
         /\ WithContext(r, m).memory = r.memory
  <1>1. PICK w : w = WithContext(r, m)
    OBVIOUS
  <1>2. PICK a \in SUBSET Signatures : a = Avoided(m)
    BY DEF Avoided
  <1>3. PICK b \in SUBSET Steps : b = {s \in Steps : m.streak[s] >= AvoidAt}
    OBVIOUS
  <1>4. w = [r EXCEPT !.avoid = a, !.streaky = b]
    BY <1>1, <1>2, <1>3 DEF WithContext
  <1>5. /\ w \in Run /\ w.avoid = a /\ w.streaky = b
        /\ w.phase = r.phase /\ w.id = r.id /\ w.known = r.known /\ w.iteration = r.iteration
        /\ w.todo = r.todo /\ w.results = r.results /\ w.ending = r.ending /\ w.memory = r.memory
    BY <1>4 DEF RunOk, Run
  <1>6. ASSUME NEW s \in b \ Rebased PROVE PlanSignature(s) \in a
    <2>1. s \in Steps /\ m.streak[s] >= AvoidAt
      BY <1>3, <1>6
    <2>2. PICK g \in Signatures : g = PlanSignature(s) /\ g = ResultSignature(s)
      BY <1>6, <2>1, SignaturesDiffer
    <2>3. m.score[g] \in Nat /\ m.streak[s] \in Nat /\ m.streak[s] <= m.score[g] /\ AvoidAt \in Nat
      BY <2>1, <2>2, AgentAssumption DEF MemOk, Memory
    <2>4. m.score[g] >= AvoidAt
      BY <2>1, <2>3
    <2>. QED
      BY <1>2, <2>2, <2>4 DEF Avoided
  <1>7. <<>> \in Seq(Allowed(a))
    OBVIOUS
  <1>. QED
    BY <1>1, <1>5, <1>6, <1>7 DEF RunOk

\* What the actions make of a run.
Concluded(r, e) == [r EXCEPT !.phase = "conclude", !.ending = e]
Planned(r, q) == [r EXCEPT !.phase = "act", !.todo = q, !.iteration = r.iteration + 1]
PassedOver(r) == [r EXCEPT !.todo = Tail(r.todo)]
Executed(r, x, q) == [r EXCEPT !.results = Append(r.results, x), !.todo = q]
RoundDone(r) ==
  [r EXCEPT !.phase = IF r.iteration < MaxIterations THEN "plan" ELSE "conclude",
            !.ending = IF r.iteration < MaxIterations THEN "none" ELSE "message"]
HasRead(r, m) == [r EXCEPT !.phase = "save", !.memory = m]

\* The run comes to its end, with a reason.
LEMMA ConcludeOk ==
  ASSUME NEW n, NEW ok, NEW r, RunOk(r, n, ok), r.phase = "plan", NEW e \in Endings, e # "none",
         NEW w, w = Concluded(r, e)
  PROVE  RunOk(w, n, ok) /\ w.phase = "conclude" /\ w.id = r.id
  <1>1. r \in Run /\ "conclude" \in Phases
    BY DEF RunOk, Phases
  <1>2. w \in Run
    BY <1>1 DEF Run, Concluded
  <1>3. /\ w.phase = "conclude" /\ w.ending = e /\ w.id = r.id /\ w.known = r.known
        /\ w.iteration = r.iteration /\ w.avoid = r.avoid /\ w.streaky = r.streaky /\ w.todo = r.todo
        /\ w.results = r.results /\ w.memory = r.memory
    BY <1>1 DEF Run, Concluded
  <1>4. "conclude" \notin {"idle", "plan", "act", "save"}
    OBVIOUS
  <1>. QED
    BY <1>2, <1>3, <1>4 DEF RunOk

\* The run has a plan.
LEMMA PlanOk ==
  ASSUME NEW n, NEW ok, NEW r, RunOk(r, n, ok), r.phase = "plan",
         NEW q \in Seq(Allowed(r.avoid)), Len(q) <= MaxSteps,
         NEW w, w = Planned(r, q)
  PROVE  RunOk(w, n, ok) /\ w.phase = "act" /\ w.id = r.id
  <1>1. r \in Run /\ "act" \in Phases
    BY DEF RunOk, Phases
  <1>2. PICK i \in Nat : i = r.iteration /\ i + 1 \in 0..MaxIterations
    BY <1>1, Bounds DEF RunOk, Run
  <1>3. q \in Seq(Steps \cup {Note})
    BY AllowedType
  <1>4. w \in Run
    BY <1>1, <1>2, <1>3 DEF Run, Planned
  <1>5. /\ w.phase = "act" /\ w.ending = r.ending /\ w.id = r.id /\ w.known = r.known
        /\ w.iteration = i + 1 /\ w.avoid = r.avoid /\ w.streaky = r.streaky /\ w.todo = q
        /\ w.results = r.results /\ w.memory = r.memory
    BY <1>1, <1>2 DEF Run, Planned
  <1>6. Len(w.results) + Len(w.todo) <= w.iteration * MaxSteps
    <2>1. PICK k \in Nat : k = MaxSteps
      BY Bounds
    <2>2. PICK e \in Nat : e = i * k /\ (i + 1) * k = e + k
      BY <2>1, ProductOfNext
    <2>3. PICK a \in Nat : a = Len(r.results)
      BY <1>1 DEF Run, Planned
    <2>4. PICK b \in Nat : b = Len(r.todo)
      BY <1>1 DEF Run, Planned
    <2>5. PICK c \in Nat : c = Len(q) /\ c <= k
      BY <2>1
    <2>6. a + b <= e
      BY <1>2, <2>1, <2>2, <2>3, <2>4 DEF RunOk
    <2>7. a + c <= e + k
      BY <2>5, <2>6
    <2>. QED
      BY <1>5, <2>1, <2>2, <2>3, <2>5, <2>7, Zenon
  <1>7. "act" \notin {"idle", "plan", "conclude", "save"}
    OBVIOUS
  <1>. QED
    BY <1>4, <1>5, <1>6, <1>7 DEF RunOk

\* A note is passed over.
LEMMA NoteOk ==
  ASSUME NEW n, NEW ok, NEW r, RunOk(r, n, ok), r.phase = "act", r.todo # <<>>,
         NEW w, w = PassedOver(r)
  PROVE  RunOk(w, n, ok) /\ w.phase = "act" /\ w.id = r.id
  <1>1. r \in Run
    BY DEF RunOk
  <1>2. PICK q : q = Tail(r.todo) /\ q \in Seq(Allowed(r.avoid)) /\ Len(q) = Len(r.todo) - 1
    BY HeadTailProperties DEF RunOk
  <1>3. q \in Seq(Steps \cup {Note})
    BY <1>2, AllowedSequences
  <1>4. w \in Run
    BY <1>1, <1>2, <1>3 DEF Run, PassedOver
  <1>5. /\ w.phase = r.phase /\ w.ending = r.ending /\ w.id = r.id /\ w.known = r.known
        /\ w.iteration = r.iteration /\ w.avoid = r.avoid /\ w.streaky = r.streaky /\ w.todo = q
        /\ w.results = r.results /\ w.memory = r.memory
    BY <1>1, <1>2 DEF Run, PassedOver
  <1>6. Len(w.results) + Len(w.todo) <= w.iteration * MaxSteps
    <2>1. PICK a \in Nat : a = Len(r.results)
      BY <1>1 DEF Run, PassedOver
    <2>2. PICK b \in Nat : b = Len(r.todo)
      BY <1>1, SMTT(30) DEF Run, PassedOver
    <2>3. PICK e \in Nat : e = r.iteration * MaxSteps
      BY <1>1, Bounds DEF Run, PassedOver
    <2>4. a + b <= e
      BY <2>1, <2>2, <2>3 DEF RunOk
    <2>5. a + (b - 1) <= e
      BY <2>4
    <2>. QED
      BY <1>2, <1>5, <2>1, <2>2, <2>3, <2>5, Zenon
  <1>. QED
    BY <1>2, <1>4, <1>5, <1>6 DEF RunOk

\* A step is executed: its result is added, and the plan ends if it failed.
LEMMA StepOk ==
  ASSUME NEW n, NEW ok, NEW r, RunOk(r, n, ok), r.phase = "act", r.todo # <<>>,
         NEW x \in Result, NEW q \in {Tail(r.todo), <<>>},
         NEW w, w = Executed(r, x, q)
  PROVE  RunOk(w, n, ok) /\ w.phase = "act" /\ w.id = r.id
  <1>1. r \in Run
    BY DEF RunOk
  <1>2. PICK b \in Nat : b = Len(r.todo) /\ Len(Tail(r.todo)) = b - 1 /\ b >= 1 /\ Tail(r.todo) \in Seq(Allowed(r.avoid))
    <2>1. PICK t \in Seq(Allowed(r.avoid)) : t = r.todo /\ t # <<>>
      BY DEF RunOk
    <2>2. Tail(t) \in Seq(Allowed(r.avoid)) /\ Len(Tail(t)) = Len(t) - 1
      BY <2>1, HeadTailProperties
    <2>3. Len(t) \in Nat /\ Len(t) >= 1
      BY <2>1
    <2>. QED
      BY <2>1, <2>2, <2>3
  <1>3. q \in Seq(Allowed(r.avoid)) /\ q \in Seq(Steps \cup {Note})
    <2>1. <<>> \in Seq(Allowed(r.avoid))
      OBVIOUS
    <2>2. q \in Seq(Allowed(r.avoid))
      BY <1>2, <2>1
    <2>. QED
      BY <2>2, AllowedSequences
  <1>4. PICK c \in Nat : c = Len(q) /\ c <= b - 1
    <2>1. CASE q = Tail(r.todo)
      <3>1. b - 1 \in Nat /\ b - 1 <= b - 1
        BY <1>2
      <3>. QED
        BY <1>2, <2>1, <3>1
    <2>2. CASE q = <<>>
      <3>1. Len(<<>>) = 0
        OBVIOUS
      <3>. QED
        BY <1>2, <2>2, <3>1
    <2>. QED
      BY <2>1, <2>2
  <1>5. PICK p \in Seq(Result) : p = Append(r.results, x) /\ Len(p) = Len(r.results) + 1
    <2>1. r.results \in Seq(Result)
      BY <1>1 DEF Run, Executed
    <2>2. Append(r.results, x) \in Seq(Result) /\ Len(Append(r.results, x)) = Len(r.results) + 1
      BY <2>1, AppendProperties
    <2>. QED
      BY <2>2
  <1>6. w \in Run
    BY <1>1, <1>3, <1>5 DEF Run, Executed
  <1>7. /\ w.phase = r.phase /\ w.ending = r.ending /\ w.id = r.id /\ w.known = r.known
        /\ w.iteration = r.iteration /\ w.avoid = r.avoid /\ w.streaky = r.streaky /\ w.todo = q
        /\ w.results = p /\ w.memory = r.memory
    BY <1>1, <1>5 DEF Run, Executed
  <1>8. Len(w.results) + Len(w.todo) <= w.iteration * MaxSteps
    <2>1. PICK a \in Nat : a = Len(r.results)
      BY <1>1 DEF Run, Executed
    <2>2. PICK e \in Nat : e = r.iteration * MaxSteps
      BY <1>1, Bounds DEF Run, Executed
    <2>3. a + b <= e
      BY <1>2, <2>1, <2>2 DEF RunOk
    <2>4. a + 1 + c <= e
      BY <1>4, <2>3
    <2>. QED
      BY <1>4, <1>5, <1>7, <2>1, <2>2, <2>4, Zenon
  <1>. QED
    BY <1>3, <1>6, <1>7, <1>8 DEF RunOk

\* An iteration ends.
LEMMA IterationOk ==
  ASSUME NEW n, NEW ok, NEW r, RunOk(r, n, ok), r.phase = "act", r.todo = <<>>,
         NEW w, w = RoundDone(r)
  PROVE  /\ RunOk(w, n, ok) /\ w.phase \in {"plan", "conclude"} /\ w.id = r.id /\ w.todo = <<>>
  <1>1. r \in Run
    BY DEF RunOk
  <1>2. PICK p \in Phases : p = IF r.iteration < MaxIterations THEN "plan" ELSE "conclude"
    BY DEF Phases
  <1>3. PICK e \in Endings : e = IF r.iteration < MaxIterations THEN "none" ELSE "message"
    BY DEF Endings
  <1>4. w = [r EXCEPT !.phase = p, !.ending = e]
    BY <1>2, <1>3 DEF RoundDone
  <1>5. w \in Run
    BY <1>1, <1>4 DEF Run
  <1>6. /\ w.phase = p /\ w.ending = e /\ w.id = r.id /\ w.known = r.known
        /\ w.iteration = r.iteration /\ w.avoid = r.avoid /\ w.streaky = r.streaky /\ w.todo = r.todo
        /\ w.results = r.results /\ w.memory = r.memory
    BY <1>1, <1>4 DEF Run
  <1>7. /\ p \in {"plan", "conclude"} /\ p \notin {"idle", "act", "save"}
        /\ p = "plan" => r.iteration < MaxIterations
        /\ p = "conclude" => e # "none"
    BY <1>2, <1>3
  <1>8. "act" # "save" /\ "act" # "idle"
    OBVIOUS
  <1>. QED
    BY <1>5, <1>6, <1>7, <1>8 DEF RunOk

\* A run that has read a memory will write it.
LEMMA ReadOk ==
  ASSUME NEW n, NEW ok, NEW r, RunOk(r, n, ok), r.phase = "conclude", NEW m, MemOk(m, n),
         NEW w, w = HasRead(r, m)
  PROVE  RunOk(w, n, ok) /\ w.phase = "save" /\ w.id = r.id /\ w.memory = m
  <1>1. r \in Run /\ m \in Memory /\ "save" \in Phases
    BY DEF RunOk, MemOk, Phases
  <1>2. w \in Run
    BY <1>1 DEF Run, HasRead
  <1>3. /\ w.phase = "save" /\ w.ending = r.ending /\ w.id = r.id /\ w.known = r.known
        /\ w.iteration = r.iteration /\ w.avoid = r.avoid /\ w.streaky = r.streaky /\ w.todo = r.todo
        /\ w.results = r.results /\ w.memory = m
    BY <1>1 DEF Run, HasRead
  <1>4. "save" \notin {"idle", "plan", "act", "conclude"} /\ "conclude" \notin {"act", "idle"}
    OBVIOUS
  <1>. QED
    BY <1>2, <1>3, <1>4 DEF RunOk

(***************************************************************************)
(* The steps of a slot                                                     *)
(***************************************************************************)
\* A run goes on, and neither the memories nor the approvals change.
LEMMA GoesOn ==
  ASSUME IInv, NEW s \in Slots, run[s].phase # "idle",
         NEW w, RunOk(w, issued, approved), w.phase # "idle", w.id = run[s].id,
         w.phase = "save" => Missing(w.memory),
         run' = [run EXCEPT ![s] = w], row' = row, copy' = copy, issued' = issued, approved' = approved
  PROVE  run' \in [Slots -> Run] /\ MemoriesInv' /\ RunsInv' /\ Unrecorded'
  <1>1. w \in Run /\ run \in [Slots -> Run]
    BY DEF RunOk, IInv, OtherTypes
  <1>2. run' \in [Slots -> Run] /\ \A t \in Slots : run'[t] = IF t = s THEN w ELSE run[t]
    BY <1>1
  <1>3. MemoriesInv'
    BY DEF IInv, MemoriesInv
  <1>4. RunsInv'
    BY <1>2 DEF IInv, RunsInv
  <1>5. Live' = Live /\ \A t \in Slots : run'[t].id = run[t].id
    BY <1>2 DEF Live
  <1>6. \A m : Missing(m) => \A t \in Live' : run'[t].id \notin m.runs
    BY <1>5 DEF Missing, Live
  <1>7. Unrecorded'
    <2>1. \A t, u \in Live' : t # u => run'[t].id # run'[u].id
      BY <1>5 DEF IInv, Unrecorded, Live
    <2>2. row' # None => \A t \in Live' : run'[t].id \notin row'.runs
      BY <1>6 DEF IInv, Unrecorded
    <2>3. \A p \in Processes : copy'[p] # None => \A t \in Live' : run'[t].id \notin copy'[p].runs
      BY <1>6 DEF IInv, Unrecorded
    <2>4. ASSUME NEW u \in Slots, run'[u].phase = "save" PROVE \A t \in Live' : run'[t].id \notin run'[u].memory.runs
      <3>1. PICK m : m = run'[u].memory /\ Missing(m)
        BY <1>2, <2>4 DEF IInv, Unrecorded
      <3>. QED
        BY <1>6, <3>1
    <2>. QED
      BY <2>1, <2>2, <2>3, <2>4 DEF Unrecorded, Missing
  <1>. QED
    BY <1>2, <1>3, <1>4, <1>7

\* A run that is not about to write goes on.
LEMMA GoesOnUnread ==
  ASSUME IInv, NEW s \in Slots, run[s].phase # "idle",
         NEW w, RunOk(w, issued, approved), w.phase \notin {"idle", "save"}, w.id = run[s].id,
         run' = [run EXCEPT ![s] = w], row' = row, copy' = copy, issued' = issued, approved' = approved,
         overtaken' = overtaken, faults' = 0 => faults = 0
  PROVE  run' \in [Slots -> Run] /\ MemoriesInv' /\ RunsInv' /\ Unrecorded' /\ ReadBeforeWrite'
  <1>1. run' \in [Slots -> Run] /\ MemoriesInv' /\ RunsInv' /\ Unrecorded'
    BY GoesOn
  <1>2. \A t \in Slots : run'[t] = IF t = s THEN w ELSE run[t]
    BY DEF IInv, OtherTypes
  <1>3. ReadBeforeWrite'
    BY <1>2 DEF IInv, ReadBeforeWrite
  <1>. QED
    BY <1>1, <1>3

\* Runs end, and copies are dropped.
LEMMA Ends ==
  ASSUME IInv, NEW G \in SUBSET Slots, run' = [s \in Slots |-> IF s \in G THEN Idle ELSE run[s]],
         row' \in {row, None}, \A p \in Processes : copy'[p] \in {copy[p], None}, issued' = issued, approved' = approved,
         overtaken' = overtaken, faults' = 0 => faults = 0
  PROVE  run' \in [Slots -> Run] /\ MemoriesInv' /\ RunsInv' /\ Unrecorded' /\ ReadBeforeWrite'
  <1>1. RunOk(Idle, issued, approved) /\ Idle \in Run
    BY IdleOk DEF RunOk
  <1>2. run' \in [Slots -> Run] /\ \A t \in Slots : run'[t] = IF t \in G THEN Idle ELSE run[t]
    BY <1>1 DEF IInv, OtherTypes
  <1>3. MemoriesInv'
    BY DEF IInv, MemoriesInv
  <1>4. RunsInv'
    BY <1>1, <1>2 DEF IInv, RunsInv
  <1>5. Idle.phase = "idle"
    BY DEF Idle
  <1>6. \A t \in Live' : t \in Live /\ run'[t] = run[t]
    BY <1>2, <1>5 DEF Live
  <1>7. \A m : Missing(m) => \A t \in Live' : run'[t].id \notin m.runs
    BY <1>6 DEF Missing
  <1>8. Unrecorded'
    <2>1. \A t, u \in Live' : t # u => run'[t].id # run'[u].id
      BY <1>6 DEF IInv, Unrecorded
    <2>2. row' # None => \A t \in Live' : run'[t].id \notin row'.runs
      BY <1>7 DEF IInv, Unrecorded
    <2>3. \A p \in Processes : copy'[p] # None => \A t \in Live' : run'[t].id \notin copy'[p].runs
      BY <1>7 DEF IInv, Unrecorded
    <2>4. ASSUME NEW u \in Slots, run'[u].phase = "save" PROVE \A t \in Live' : run'[t].id \notin run'[u].memory.runs
      <3>1. PICK m : m = run'[u].memory /\ Missing(m)
        BY <1>2, <1>5, <2>4 DEF IInv, Unrecorded
      <3>. QED
        BY <1>7, <3>1
    <2>. QED
      BY <2>1, <2>2, <2>3, <2>4 DEF Unrecorded, Missing
  <1>9. ReadBeforeWrite'
    BY <1>2, <1>5 DEF IInv, ReadBeforeWrite
  <1>. QED
    BY <1>2, <1>3, <1>4, <1>8, <1>9

LEMMA PlannerStops ==
  ASSUME IInv, NEW s \in Slots, PlannerFails(s) \/ PlannerFinishes(s)
  PROVE  IInv'
  <1>1. PICK e \in Endings : e # "none" /\ run' = [run EXCEPT ![s].phase = "conclude", ![s].ending = e]
    BY DEF PlannerFails, PlannerFinishes, Endings
  <1>2. PICK r : r = run[s] /\ r.phase = "plan" /\ RunOk(r, issued, approved)
    BY DEF PlannerFails, PlannerFinishes, IInv, RunsInv
  <1>3. PICK w : w = Concluded(r, e)
    OBVIOUS
  <1>4. run' = [run EXCEPT ![s] = w]
    BY <1>1, <1>2, <1>3 DEF Concluded, IInv, OtherTypes
  <1>5. RunOk(w, issued, approved) /\ w.phase = "conclude" /\ w.id = r.id
    BY <1>1, <1>2, <1>3, ConcludeOk
  <1>6. UNCHANGED <<row, copy, asked, approved, issued, deleting, resets, faults, restarts, executed, overtaken>>
    BY DEF PlannerFails, PlannerFinishes
  <1>7. run' \in [Slots -> Run] /\ MemoriesInv' /\ RunsInv' /\ Unrecorded' /\ ReadBeforeWrite'
    BY <1>2, <1>4, <1>5, <1>6, GoesOnUnread
  <1>. QED
    BY <1>6, <1>7 DEF IInv, OtherTypes, OnlyApproved

LEMMA PlanStep ==
  ASSUME IInv, NEW s \in Slots, Plan(s)
  PROVE  IInv'
  <1>1. PICK plan \in Plans :
          LET steps    == Guarded(Sanitised(plan), run[s].avoid)
              requests == Requests(steps, run[s].known)
              asks     == requests # {} /\ run[s].ask
              round    == Iterated(run[s], steps)
          IN  \/ /\ steps = <<>> \/ asks
                 /\ asked' = asked \cup requests
                 /\ run' = [run EXCEPT ![s].phase = "conclude",
                                       ![s].ending = IF asks THEN "asked"
                                           ELSE IF round < MaxIterations
                                           THEN "none" ELSE "message"]
              \/ /\ steps # <<>> /\ ~asks
                 /\ run' = [run EXCEPT ![s].phase = "act", ![s].todo = steps,
                                       ![s].iteration = round]
                 /\ UNCHANGED asked
    BY DEF Plan
  <1>2. PICK r : r = run[s] /\ r.phase = "plan" /\ RunOk(r, issued, approved)
    BY DEF Plan, IInv, RunsInv
  <1>3. PICK q \in Seq(Allowed(r.avoid)) : q = Guarded(Sanitised(plan), r.avoid) /\ q # <<>> /\ Len(q) <= MaxSteps
    BY GuardedType
  <1>4. PICK R : R = Requests(q, r.known) /\ R \subseteq Sensitive
    BY DEF Requests
  <1>5. UNCHANGED <<row, copy, approved, issued, deleting, resets, faults, restarts, executed, overtaken>>
    BY DEF Plan
  <1>6. PICK w : run' = [run EXCEPT ![s] = w] /\ RunOk(w, issued, approved) /\ w.phase \in {"conclude", "act"} /\ w.id = r.id
    <2>1. CASE run' = [run EXCEPT ![s].phase = "conclude", ![s].ending = "asked"]
      <3>1. PICK w : w = Concluded(r, "asked")
        OBVIOUS
      <3>2. run' = [run EXCEPT ![s] = w]
        BY <1>2, <2>1, <3>1 DEF Concluded, IInv, OtherTypes
      <3>3. "asked" \in Endings /\ "asked" # "none"
        BY DEF Endings
      <3>4. RunOk(w, issued, approved) /\ w.phase = "conclude" /\ w.id = r.id
        BY <1>2, <3>1, <3>3, ConcludeOk
      <3>. QED
        BY <3>2, <3>4
    <2>2. CASE run' = [run EXCEPT ![s].phase = "act", ![s].todo = q, ![s].iteration = r.iteration + 1]
      <3>1. PICK w : w = Planned(r, q)
        OBVIOUS
      <3>2. run' = [run EXCEPT ![s] = w]
        BY <1>2, <2>2, <3>1 DEF Planned, IInv, OtherTypes
      <3>3. RunOk(w, issued, approved) /\ w.phase = "act" /\ w.id = r.id
        BY <1>2, <1>3, <3>1, PlanOk
      <3>. QED
        BY <3>2, <3>3
    <2>3. Iterated(r, q) = r.iteration + 1
      BY DEF Iterated
    <2>. QED
      BY <1>1, <1>2, <1>3, <2>1, <2>2, <2>3
  <1>7. asked' \in {asked, asked \cup R}
    BY <1>1, <1>2, <1>3, <1>4
  <1>8. run' \in [Slots -> Run] /\ MemoriesInv' /\ RunsInv' /\ Unrecorded' /\ ReadBeforeWrite'
    BY <1>2, <1>5, <1>6, GoesOnUnread
  <1>. QED
    BY <1>4, <1>5, <1>7, <1>8 DEF IInv, OtherTypes, OnlyApproved

\* A step runs only if the run knew it to be approved when it began.
LEMMA ActStep ==
  ASSUME IInv, NEW s \in Slots, Act(s)
  PROVE  IInv'
  <1>1. PICK r : r = run[s] /\ r.phase = "act" /\ r.todo # <<>> /\ RunOk(r, issued, approved)
    BY DEF Act, IInv, RunsInv
  <1>2. PICK x : x = Head(r.todo) /\ x \in Allowed(r.avoid)
    BY <1>1, HeadTailProperties DEF RunOk
  <1>3. UNCHANGED <<row, copy, asked, approved, issued, deleting, resets, faults, restarts, overtaken>>
    BY DEF Act
  <1>4. run \in [Slots -> Run]
    BY DEF IInv, OtherTypes
  <1>5. CASE x = Note
    <2>1. run' = [run EXCEPT ![s].todo = Tail(@)] /\ executed' = executed
      BY <1>1, <1>2, <1>5 DEF Act
    <2>2. PICK w : w = PassedOver(r)
      OBVIOUS
    <2>3. run' = [run EXCEPT ![s] = w]
      BY <1>1, <1>4, <2>1, <2>2 DEF PassedOver
    <2>4. RunOk(w, issued, approved) /\ w.phase = "act" /\ w.id = r.id
      BY <1>1, <2>2, NoteOk
    <2>5. run' \in [Slots -> Run] /\ MemoriesInv' /\ RunsInv' /\ Unrecorded' /\ ReadBeforeWrite'
      BY <1>1, <1>3, <2>3, <2>4, GoesOnUnread
    <2>. QED
      BY <1>3, <2>1, <2>5 DEF IInv, OtherTypes, OnlyApproved
  <1>6. CASE x # Note
    <2>1. PICK success \in BOOLEAN :
            run' = [run EXCEPT ![s].results = Append(@, [step |-> x, success |-> success]),
                               ![s].todo = IF success THEN Tail(@) ELSE <<>>]
      BY <1>1, <1>2, <1>6 DEF Act
    <2>2. executed' = IF Permitted(r, x) THEN executed \cup {x} ELSE executed
      BY <1>1, <1>2, <1>6 DEF Act
    <2>3. PICK y \in Result : y = [step |-> x, success |-> success]
      BY <1>2, <1>6 DEF Allowed, Result
    <2>4. PICK q \in {Tail(r.todo), <<>>} : q = IF success THEN Tail(r.todo) ELSE <<>>
      OBVIOUS
    <2>5. PICK w : w = Executed(r, y, q)
      OBVIOUS
    <2>6. run' = [run EXCEPT ![s] = w]
      BY <1>1, <1>4, <2>1, <2>3, <2>4, <2>5 DEF Executed
    <2>7. RunOk(w, issued, approved) /\ w.phase = "act" /\ w.id = r.id
      BY <1>1, <2>3, <2>4, <2>5, StepOk
    <2>8. run' \in [Slots -> Run] /\ MemoriesInv' /\ RunsInv' /\ Unrecorded' /\ ReadBeforeWrite'
      BY <1>1, <1>3, <2>6, <2>7, GoesOnUnread
    <2>9. Permitted(r, x) /\ x \in Sensitive => x \in approved
      BY <1>1 DEF Permitted, RunOk
    <2>10. OnlyApproved'
      BY <1>3, <2>2, <2>9 DEF IInv, OnlyApproved
    <2>. QED
      BY <1>3, <2>8, <2>10 DEF IInv, OtherTypes
  <1>. QED
    BY <1>5, <1>6

LEMMA RefreshStep ==
  ASSUME IInv, NEW s \in Slots, Refresh(s)
  PROVE  IInv'
  <1>1. PICK r : r = run[s] /\ r.phase = "act" /\ r.todo = <<>> /\ RunOk(r, issued, approved)
    BY DEF Refresh, IInv, RunsInv
  <1>2. run \in [Slots -> Run] /\ ProcessOf[s] \in Processes
    BY AgentAssumption DEF IInv, OtherTypes
  <1>3. PICK refused \in BOOLEAN :
          /\ Command(refused)
          /\ run' = [run EXCEPT ![s] =
               WithContext([@ EXCEPT
                   !.phase = IF run[s].iteration < MaxIterations
                             THEN "plan" ELSE "conclude",
                   !.ending = IF run[s].iteration < MaxIterations
                              THEN "none" ELSE "message"],
                           Loaded(ProcessOf[s], refused))]
    BY DEF Refresh
  <1>4. PICK m : m = Loaded(ProcessOf[s], refused) /\ MemOk(m, issued)
    BY <1>2, LoadedOk DEF IInv
  <1>5. PICK v : v = RoundDone(r)
    OBVIOUS
  <1>6. RunOk(v, issued, approved) /\ v.phase \in {"plan", "conclude"} /\ v.id = r.id /\ v.todo = <<>>
    BY <1>1, <1>5, IterationOk
  <1>7. PICK w : w = WithContext(v, m)
    OBVIOUS
  <1>8. RunOk(w, issued, approved) /\ w.phase = v.phase /\ w.id = v.id
    BY <1>4, <1>6, <1>7, ContextOk
  <1>9. run' = [run EXCEPT ![s] = w]
    BY <1>1, <1>2, <1>3, <1>4, <1>5, <1>7 DEF RoundDone
  <1>10. UNCHANGED <<row, copy, asked, approved, issued, deleting, resets, restarts, executed, overtaken>>
    BY DEF Refresh
  <1>11. faults' \in Nat /\ (faults' = 0 => faults = 0)
    BY <1>3 DEF Command, IInv, OtherTypes
  <1>12. run' \in [Slots -> Run] /\ MemoriesInv' /\ RunsInv' /\ Unrecorded' /\ ReadBeforeWrite'
    BY <1>1, <1>6, <1>8, <1>9, <1>10, <1>11, GoesOnUnread
  <1>. QED
    BY <1>10, <1>11, <1>12 DEF IInv, OtherTypes, OnlyApproved

\* A run begins: its number is new to every memory and to every run.
LEMMA BeginStep ==
  ASSUME IInv, NEW s \in Slots, Begin(s)
  PROVE  IInv'
  <1>1. PICK n \in Nat : n = issued /\ issued' = n + 1 /\ n + 1 \in 0..MaxRuns
    BY AgentAssumption DEF Begin, IInv, OtherTypes
  <1>2. run \in [Slots -> Run] /\ ProcessOf[s] \in Processes /\ approved \in SUBSET Sensitive /\ MustAsk[s] \in BOOLEAN
    BY AgentAssumption DEF IInv, OtherTypes
  <1>3. PICK refused \in BOOLEAN, ready \in BOOLEAN :
          /\ Command(refused)
          /\ run' = [run EXCEPT ![s] =
               WithContext([Idle EXCEPT !.phase = IF ready THEN "plan"
                                                  ELSE "conclude",
                                        !.ending = IF ready THEN "none"
                                                   ELSE "refused",
                                        !.id = issued', !.ask = MustAsk[s],
                                        !.known = approved],
                           Loaded(ProcessOf[s], refused))]
    BY DEF Begin
  <1>4. UNCHANGED <<row, copy, asked, approved, deleting, resets, restarts, executed, overtaken>>
    BY DEF Begin
  <1>5. PICK m : m = Loaded(ProcessOf[s], refused) /\ MemOk(m, n)
    BY <1>1, <1>2, LoadedOk DEF IInv
  <1>6. PICK r : r = Began(n + 1, MustAsk[s], approved, ready)
    OBVIOUS
  <1>7. RunOk(r, n + 1, approved) /\ r.todo = <<>> /\ r.phase \in {"plan", "conclude"} /\ r.id = n + 1
    <2>1. n + 1 \in Nat /\ n + 1 \in 1..(n + 1)
      BY <1>1
    <2>. QED
      BY <1>2, <1>6, <2>1, BeginOk
  <1>8. PICK w : w = WithContext(r, m)
    OBVIOUS
  <1>9. RunOk(w, n + 1, approved) /\ w.phase \in {"plan", "conclude"} /\ w.id = n + 1
    BY <1>5, <1>7, <1>8, ContextOk
  <1>10. run' = [run EXCEPT ![s] = w]
    BY <1>1, <1>3, <1>5, <1>6, <1>8 DEF Began
  <1>11. run' \in [Slots -> Run] /\ \A t \in Slots : run'[t] = IF t = s THEN w ELSE run[t]
    BY <1>2, <1>9, <1>10 DEF RunOk
  <1>12. \A v : MemOk(v, issued) => MemOk(v, issued')
    <2>1. n <= n + 1 /\ n + 1 \in Nat
      BY <1>1
    <2>. QED
      BY <1>1, <2>1, MemOkGrows
  <1>13. MemoriesInv'
    BY <1>4, <1>12 DEF IInv, MemoriesInv
  <1>14. RunsInv'
    <2>1. n <= n + 1 /\ n + 1 \in Nat
      BY <1>1
    <2>2. \A t \in Slots : RunOk(run[t], n + 1, approved)
      BY <1>1, <2>1, RunOkGrows DEF IInv, RunsInv
    <2>. QED
      BY <1>1, <1>4, <1>9, <1>11, <2>2 DEF RunsInv
  <1>15. \A t \in Live : run[t].id \in 1..n
    BY <1>1 DEF Live, IInv, RunsInv, RunOk
  <1>16. run[s].phase = "idle" /\ \A t \in Live' : t = s \/ t \in Live
    BY <1>11 DEF Begin, Live
  <1>17. n + 1 \notin 1..n
    BY <1>1
  <1>18. \A v : Missing(v) /\ MemOk(v, n) => \A t \in Live' : run'[t].id \notin v.runs
    <2>1. SUFFICES ASSUME NEW v, Missing(v), MemOk(v, n), NEW t \in Live' PROVE run'[t].id \notin v.runs
      OBVIOUS
    <2>2. CASE t = s
      <3>1. v.runs \subseteq 1..n
        BY <2>1 DEF MemOk
      <3>2. run'[t].id = n + 1
        BY <1>9, <1>11, <2>2
      <3>. QED
        BY <1>17, <3>1, <3>2
    <2>3. CASE t # s
      <3>1. t \in Live /\ t \in Slots
        BY <1>16, <2>3 DEF Live
      <3>2. run'[t] = run[t]
        BY <1>11, <2>3, <3>1
      <3>. QED
        BY <2>1, <3>1, <3>2 DEF Missing
    <2>. QED
      BY <2>2, <2>3
  <1>19. Unrecorded'
    <2>1. \A t, u \in Live' : t # u => run'[t].id # run'[u].id
      BY <1>9, <1>11, <1>15, <1>16, <1>17 DEF IInv, Unrecorded, Live
    <2>2. row' # None => \A t \in Live' : run'[t].id \notin row'.runs
      BY <1>1, <1>4, <1>18 DEF IInv, Unrecorded, MemoriesInv
    <2>3. \A p \in Processes : copy'[p] # None => \A t \in Live' : run'[t].id \notin copy'[p].runs
      BY <1>1, <1>4, <1>18 DEF IInv, Unrecorded, MemoriesInv
    <2>4. ASSUME NEW u \in Slots, run'[u].phase = "save" PROVE \A t \in Live' : run'[t].id \notin run'[u].memory.runs
      <3>1. u # s /\ run[u].phase = "save"
        BY <1>9, <1>11, <2>4
      <3>2. PICK v : v = run'[u].memory /\ Missing(v) /\ MemOk(v, n)
        BY <1>1, <1>11, <3>1 DEF IInv, Unrecorded, RunsInv, RunOk
      <3>. QED
        BY <1>18, <3>2
    <2>. QED
      BY <2>1, <2>2, <2>3, <2>4 DEF Unrecorded, Missing
  <1>20. faults' \in Nat /\ (faults' = 0 => faults = 0)
    BY <1>3 DEF Command, IInv, OtherTypes
  <1>21. ReadBeforeWrite'
    BY <1>4, <1>9, <1>11, <1>20 DEF IInv, ReadBeforeWrite
  <1>. QED
    BY <1>1, <1>4, <1>11, <1>13, <1>14, <1>19, <1>20, <1>21 DEF IInv, OtherTypes, OnlyApproved

\* What is read is the row, unless there is none or Redis refuses.
LEMMA ReadStep ==
  ASSUME IInv, NEW s \in Slots, ReadMemory(s)
  PROVE  IInv'
  <1>1. PICK r : r = run[s] /\ r.phase = "conclude" /\ RunOk(r, issued, approved)
    BY DEF ReadMemory, IInv, RunsInv
  <1>2. run \in [Slots -> Run] /\ ProcessOf[s] \in Processes
    BY AgentAssumption DEF IInv, OtherTypes
  <1>3. PICK refused \in BOOLEAN :
          /\ Command(refused)
          /\ run' = [run EXCEPT ![s].phase = "save", ![s].memory = MemoryToRecord(s, refused)]
    BY DEF ReadMemory
  <1>4. PICK m : m = Loaded(ProcessOf[s], refused) /\ MemOk(m, issued) /\ Missing(m)
    BY <1>2, LoadedOk DEF IInv
  <1>5. PICK w : w = HasRead(r, m)
    OBVIOUS
  <1>6. RunOk(w, issued, approved) /\ w.phase = "save" /\ w.id = r.id /\ w.memory = m
    BY <1>1, <1>4, <1>5, ReadOk
  <1>7. run' = [run EXCEPT ![s] = w]
    BY <1>1, <1>2, <1>3, <1>4, <1>5 DEF HasRead, MemoryToRecord
  <1>8. UNCHANGED <<row, copy, asked, approved, issued, deleting, resets, restarts, executed>>
    BY DEF ReadMemory
  <1>9. run' \in [Slots -> Run] /\ MemoriesInv' /\ RunsInv' /\ Unrecorded'
    BY <1>1, <1>4, <1>6, <1>7, <1>8, GoesOn
  <1>10. faults' \in Nat /\ (faults' = 0 => faults = 0 /\ ~refused)
    BY <1>3 DEF Command, IInv, OtherTypes
  <1>11. overtaken' = [overtaken EXCEPT ![s] = FALSE] /\ overtaken \in [Slots -> BOOLEAN]
    BY DEF ReadMemory, IInv, OtherTypes
  <1>12. ReadBeforeWrite'
    <2>1. SUFFICES ASSUME faults' = 0, NEW t \in Slots, run'[t].phase = "save", ~overtaken'[t]
                   PROVE  row' \in {None, run'[t].memory}
      BY DEF ReadBeforeWrite
    <2>2. CASE t = s
      <3>1. run'[t] = w
        BY <1>2, <1>7, <2>2
      <3>2. row = None \/ row = m
        BY <1>4, <1>10, <2>1 DEF Loaded
      <3>. QED
        BY <1>6, <1>8, <3>1, <3>2
    <2>3. CASE t # s
      <3>1. run'[t] = run[t] /\ overtaken'[t] = overtaken[t]
        BY <1>2, <1>7, <1>11, <2>3
      <3>. QED
        BY <1>8, <1>10, <2>1, <3>1 DEF IInv, ReadBeforeWrite
    <2>. QED
      BY <2>2, <2>3
  <1>13. overtaken' \in [Slots -> BOOLEAN]
    BY <1>11
  <1>. QED
    BY <1>8, <1>9, <1>10, <1>12, <1>13 DEF IInv, OtherTypes, OnlyApproved

\* What a run writes: the memory it has read, with its outcome.
LEMMA Written ==
  ASSUME IInv, NEW s \in Slots, run[s].phase = "save"
  PROVE  LET y == Recorded(run[s].memory, run[s].id, run[s].results)
         IN  MemOk(y, issued) /\ y.runs = run[s].memory.runs \cup {run[s].id}
  <1>1. PICK r : r = run[s] /\ RunOk(r, issued, approved) /\ Missing(r.memory) /\ s \in Live
    BY DEF IInv, RunsInv, Unrecorded, Live
  <1>2. /\ r \in Run /\ r.id \in 1..issued /\ MemOk(r.memory, issued) /\ r.results \in Seq(Result)
        /\ r.id \notin r.memory.runs /\ issued \in Nat
    <2>1. r \in Run /\ r.results \in Seq(Result)
      BY <1>1 DEF RunOk, Run
    <2>2. r.id \in 1..issued /\ MemOk(r.memory, issued)
      BY <1>1 DEF RunOk
    <2>3. r.id \notin r.memory.runs
      BY <1>1 DEF Missing
    <2>4. issued \in Nat
      BY AgentAssumption DEF IInv, OtherTypes
    <2>. QED
      BY <2>1, <2>2, <2>3, <2>4
  <1>3. Len(r.results) <= PerRun
    <2>1. PICK i \in Nat : i = r.iteration /\ i <= MaxIterations
      BY <1>2, Bounds DEF Run
    <2>2. PICK k \in Nat : k = MaxSteps
      BY Bounds
    <2>3. PICK e \in Nat : e = i * k
      BY <2>1, <2>2
    <2>4. e <= PerRun /\ PerRun \in Nat
      BY <2>1, <2>2, <2>3, Bounds, ProductGrows, PerRunType DEF PerRun
    <2>5. PICK a \in Nat : a = Len(r.results)
      BY <1>2
    <2>6. PICK b \in Nat : b = Len(r.todo)
      BY <1>2 DEF Run
    <2>7. a + b <= e
      BY <1>1, <2>1, <2>2, <2>3, <2>5, <2>6 DEF RunOk
    <2>8. a <= PerRun
      BY <2>4, <2>7
    <2>. QED
      BY <2>5, <2>8
  <1>. QED
    BY <1>1, <1>2, <1>3, RecordedOk

LEMMA SaveStep ==
  ASSUME IInv, NEW s \in Slots, SaveMemory(s)
  PROVE  IInv'
  <1>1. PICK y : y = Recorded(run[s].memory, run[s].id, run[s].results)
    OBVIOUS
  <1>2. run[s].phase = "save"
    BY DEF SaveMemory
  <1>3. MemOk(y, issued) /\ y.runs = run[s].memory.runs \cup {run[s].id}
    BY <1>1, <1>2, Written
  <1>4. PICK refused \in BOOLEAN : Command(refused) /\ row' \in {row, y}
    BY <1>1 DEF SaveMemory
  <1>5. run \in [Slots -> Run] /\ copy \in [Processes -> Memory \cup {None}] /\ ProcessOf[s] \in Processes /\ y \in Memory
    BY <1>3, AgentAssumption DEF IInv, OtherTypes, MemOk
  <1>6. copy' = [copy EXCEPT ![ProcessOf[s]] = y]
    BY <1>1 DEF SaveMemory
  <1>7. copy' \in [Processes -> Memory \cup {None}] /\ \A p \in Processes : copy'[p] \in {copy[p], y}
    BY <1>5, <1>6
  <1>8. RunOk(Idle, issued, approved) /\ Idle \in Run /\ Idle.phase = "idle"
    BY IdleOk DEF RunOk, Idle
  <1>9. run' \in [Slots -> Run] /\ \A t \in Slots : run'[t] = IF t = s THEN Idle ELSE run[t]
    BY <1>5, <1>8 DEF SaveMemory
  <1>10. overtaken' = [t \in Slots |-> TRUE] /\ UNCHANGED <<asked, approved, issued, deleting, resets, restarts, executed>>
    BY DEF SaveMemory
  <1>11. MemoriesInv'
    BY <1>3, <1>4, <1>7, <1>10 DEF IInv, MemoriesInv
  <1>12. RunsInv'
    BY <1>8, <1>9, <1>10 DEF IInv, RunsInv
  <1>13. s \in Live /\ \A t \in Live' : t \in Live /\ t # s /\ run'[t] = run[t]
    BY <1>2, <1>8, <1>9 DEF Live
  <1>14. \A v : Missing(v) => \A t \in Live' : run'[t].id \notin v.runs
    BY <1>13 DEF Missing
  <1>15. \A t \in Live' : run'[t].id \notin y.runs
    <2>1. Missing(run[s].memory)
      BY <1>2 DEF IInv, Unrecorded
    <2>2. \A t \in Live' : run'[t].id # run[s].id
      BY <1>13 DEF IInv, Unrecorded
    <2>. QED
      BY <1>3, <1>14, <2>1, <2>2
  <1>16. Unrecorded'
    <2>1. \A t, u \in Live' : t # u => run'[t].id # run'[u].id
      BY <1>13 DEF IInv, Unrecorded
    <2>2. row' # None => \A t \in Live' : run'[t].id \notin row'.runs
      BY <1>4, <1>14, <1>15 DEF IInv, Unrecorded
    <2>3. \A p \in Processes : copy'[p] # None => \A t \in Live' : run'[t].id \notin copy'[p].runs
      BY <1>7, <1>14, <1>15 DEF IInv, Unrecorded
    <2>4. ASSUME NEW u \in Slots, run'[u].phase = "save" PROVE \A t \in Live' : run'[t].id \notin run'[u].memory.runs
      <3>1. PICK v : v = run'[u].memory /\ Missing(v)
        BY <1>8, <1>9, <2>4 DEF IInv, Unrecorded
      <3>. QED
        BY <1>14, <3>1
    <2>. QED
      BY <2>1, <2>2, <2>3, <2>4 DEF Unrecorded, Missing
  <1>17. ReadBeforeWrite' /\ overtaken' \in [Slots -> BOOLEAN]
    BY <1>10 DEF ReadBeforeWrite
  <1>18. faults' \in Nat
    BY <1>4 DEF Command, IInv, OtherTypes
  <1>. QED
    BY <1>7, <1>9, <1>10, <1>11, <1>12, <1>16, <1>17, <1>18 DEF IInv, OtherTypes, OnlyApproved

LEMMA TimeOutStep ==
  ASSUME IInv, NEW s \in Slots, TimeOut(s)
  PROVE  IInv'
  <1>1. PICK G \in SUBSET Slots : G = {s}
    OBVIOUS
  <1>2. run' = [t \in Slots |-> IF t \in G THEN Idle ELSE run[t]]
    BY <1>1 DEF TimeOut, IInv, OtherTypes
  <1>3. UNCHANGED <<row, copy, asked, approved, issued, deleting, resets, faults, restarts, executed, overtaken>>
    BY DEF TimeOut
  <1>4. run' \in [Slots -> Run] /\ MemoriesInv' /\ RunsInv' /\ Unrecorded' /\ ReadBeforeWrite'
    BY <1>2, <1>3, Ends
  <1>. QED
    BY <1>3, <1>4 DEF IInv, OtherTypes, OnlyApproved

LEMMA RestartStep ==
  ASSUME IInv, NEW p \in Processes, Restart(p)
  PROVE  IInv'
  <1>1. PICK G \in SUBSET Slots : G = {s \in Slots : ProcessOf[s] = p}
    OBVIOUS
  <1>2. run' = [s \in Slots |-> IF s \in G THEN Idle ELSE run[s]]
    BY <1>1 DEF Restart
  <1>3. copy' = [copy EXCEPT ![p] = None] /\ copy \in [Processes -> Memory \cup {None}]
    BY DEF Restart, IInv, OtherTypes
  <1>4. copy' \in [Processes -> Memory \cup {None}] /\ \A q \in Processes : copy'[q] \in {copy[q], None}
    BY <1>3
  <1>5. /\ UNCHANGED <<row, asked, approved, issued, resets, faults, executed, overtaken>>
        /\ restarts' = restarts + 1 /\ deleting' = IF p = Api THEN FALSE ELSE deleting
    BY DEF Restart
  <1>6. run' \in [Slots -> Run] /\ MemoriesInv' /\ RunsInv' /\ Unrecorded' /\ ReadBeforeWrite'
    BY <1>2, <1>4, <1>5, Ends
  <1>7. restarts' \in Nat
    BY <1>5 DEF IInv, OtherTypes
  <1>8. deleting' \in BOOLEAN
    BY <1>5, Zenon DEF IInv, OtherTypes
  <1>. QED
    BY <1>4, <1>5, <1>6, <1>7, <1>8 DEF IInv, OtherTypes, OnlyApproved

\* The operator resets the memory: the row, and then the copy.
LEMMA ResetSteps ==
  ASSUME IInv, DeleteRow \/ DropCopy
  PROVE  IInv'
  <1>0. PICK G \in SUBSET Slots : G = {}
    OBVIOUS
  <1>1. run' = [s \in Slots |-> IF s \in G THEN Idle ELSE run[s]]
    BY <1>0 DEF DeleteRow, DropCopy, IInv, OtherTypes
  <1>2. copy' \in [Processes -> Memory \cup {None}] /\ \A q \in Processes : copy'[q] \in {copy[q], None}
    <2>1. copy' = copy \/ copy' = [copy EXCEPT ![Api] = None]
      BY DEF DeleteRow, DropCopy
    <2>2. copy \in [Processes -> Memory \cup {None}]
      BY DEF IInv, OtherTypes
    <2>. QED
      BY <2>1, <2>2
  <1>3. row' \in {row, None}
    BY DEF DeleteRow, DropCopy
  <1>4. UNCHANGED <<run, asked, approved, issued, restarts, executed, overtaken>> /\ deleting' \in BOOLEAN
    BY DEF DeleteRow, DropCopy
  <1>5. faults' \in Nat /\ (faults' = 0 => faults = 0)
    BY DEF DeleteRow, DropCopy, Command, IInv, OtherTypes
  <1>6. run' \in [Slots -> Run] /\ MemoriesInv' /\ RunsInv' /\ Unrecorded' /\ ReadBeforeWrite'
    BY <1>1, <1>2, <1>3, <1>4, <1>5, Ends
  <1>. QED
    BY <1>2, <1>4, <1>5, <1>6 DEF IInv, OtherTypes, OnlyApproved

LEMMA ApproveStep ==
  ASSUME IInv, Approve
  PROVE  IInv'
  <1>1. PICK c \in asked : approved' = approved \cup {c}
    BY DEF Approve
  <1>2. UNCHANGED <<row, copy, run, asked, issued, deleting, resets, faults, restarts, executed, overtaken>>
    BY DEF Approve
  <1>3. RunsInv'
    <2>1. issued \in Nat /\ issued <= issued
      BY AgentAssumption DEF IInv, OtherTypes
    <2>2. PICK more : more = approved' /\ approved \subseteq more
      BY <1>1
    <2>3. \A s \in Slots : RunOk(run[s], issued, more)
      BY <2>1, <2>2, RunOkGrows DEF IInv, RunsInv
    <2>. QED
      BY <1>2, <2>2, <2>3 DEF RunsInv
  <1>4. MemoriesInv' /\ Unrecorded' /\ ReadBeforeWrite'
    BY <1>2 DEF IInv, MemoriesInv, Unrecorded, Missing, Live, ReadBeforeWrite
  <1>. QED
    BY <1>1, <1>2, <1>3, <1>4 DEF IInv, OtherTypes, OnlyApproved

(***************************************************************************)
(* The theorems                                                            *)
(***************************************************************************)
LEMMA Initially == Init => IInv
  <1> SUFFICES ASSUME Init PROVE IInv
    OBVIOUS
  <1>1. RunOk(Idle, issued, approved) /\ Idle \in Run /\ Idle.phase = "idle"
    BY IdleOk DEF RunOk, Idle
  <1>2. OtherTypes
    <2>1. issued \in 0..MaxRuns /\ faults \in Nat /\ restarts \in Nat
      BY AgentAssumption DEF Init
    <2>2. deleting \in BOOLEAN /\ approved \subseteq asked /\ asked \subseteq Sensitive
      BY DEF Init
    <2>3. run \in [Slots -> Run]
      BY <1>1 DEF Init
    <2>4. copy \in [Processes -> Memory \cup {None}]
      BY DEF Init
    <2>5. overtaken \in [Slots -> BOOLEAN]
      BY DEF Init
    <2>. QED
      BY <2>1, <2>2, <2>3, <2>4, <2>5 DEF OtherTypes
  <1>3. MemoriesInv
    BY DEF Init, MemoriesInv
  <1>4. RunsInv
    BY <1>1 DEF Init, RunsInv
  <1>5. Unrecorded
    BY <1>1 DEF Init, Unrecorded, Live, Missing
  <1>6. ReadBeforeWrite
    BY <1>1 DEF Init, ReadBeforeWrite
  <1>7. OnlyApproved
    BY DEF Init, OnlyApproved
  <1>. QED
    BY <1>2, <1>3, <1>4, <1>5, <1>6, <1>7 DEF IInv

LEMMA Stutter == ASSUME IInv, UNCHANGED agentVars PROVE IInv'
  BY DEF IInv, OtherTypes, MemoriesInv, RunsInv, Unrecorded, Missing, Live, ReadBeforeWrite, OnlyApproved, agentVars

LEMMA Inductive == IInv /\ [Next]_agentVars => IInv'
  <1> SUFFICES ASSUME IInv, [Next]_agentVars PROVE IInv'
    OBVIOUS
  <1>1. CASE \E s \in Slots : Begin(s) \/ SlotStep(s) \/ TimeOut(s)
    BY <1>1, BeginStep, PlannerStops, PlanStep, ActStep, RefreshStep, ReadStep, SaveStep, TimeOutStep DEF SlotStep
  <1>2. CASE Approve
    BY <1>2, ApproveStep
  <1>3. CASE DeleteRow \/ DropCopy
    BY <1>3, ResetSteps
  <1>4. CASE \E p \in Processes : Restart(p)
    BY <1>4, RestartStep
  <1>5. CASE UNCHANGED agentVars
    BY <1>5, Stutter
  <1>. QED
    BY <1>1, <1>2, <1>3, <1>4, <1>5 DEF Next

\* In every reachable state a memory is what the recorded runs made of it, a run is what
\* its phase says, no run that goes on is in a memory, and a run about to write has read
\* what it will overwrite unless another was recorded (record_agent_workflow_outcome).
THEOREM AgentInvariant == Spec => []IInv
  BY Initially, Inductive, PTL DEF Spec

\* The bounds of the run: of iterations, of results, and of scores.
LEMMA TypesOk == IInv => TypeOK
  <1> SUFFICES ASSUME IInv PROVE TypeOK
    OBVIOUS
  <1>1. \A m : MemOk(m, issued) => Memories(m)
    BY MemoryBounds DEF IInv, OtherTypes, Memories
  <1>2. ASSUME NEW s \in Slots
        PROVE  /\ run[s].phase \in Phases
               /\ run[s].iteration \in 0..MaxIterations
               /\ Len(run[s].results) <= run[s].iteration * MaxSteps
               /\ Range(run[s].todo) \subseteq Steps \cup {Note}
               /\ run[s].memory # None => Memories(run[s].memory)
    <2>1. PICK r : r = run[s] /\ RunOk(r, issued, approved)
      BY DEF IInv, RunsInv
    <2>2. r.phase \in Phases /\ r.iteration \in 0..MaxIterations
      BY <2>1 DEF RunOk, Run
    <2>3. Len(r.results) <= r.iteration * MaxSteps
      <3>1. PICK a \in Nat : a = Len(r.results)
        BY <2>1 DEF RunOk, Run
      <3>2. PICK b \in Nat : b = Len(r.todo)
        BY <2>1 DEF RunOk, Run
      <3>3. PICK e \in Nat : e = r.iteration * MaxSteps
        BY <2>1, Bounds DEF RunOk, Run
      <3>4. a + b <= e
        BY <2>1, <3>1, <3>2, <3>3 DEF RunOk
      <3>5. a <= e
        BY <3>4
      <3>. QED
        BY <3>1, <3>3, <3>5
    <2>4. Range(r.todo) \subseteq Steps \cup {Note}
      <3>1. r.todo \in Seq(Steps \cup {Note})
        BY <2>1 DEF RunOk, Run
      <3>. QED
        BY <3>1 DEF Range
    <2>5. r.memory # None => Memories(r.memory)
      BY <1>1, <2>1 DEF RunOk
    <2>. QED
      BY <2>1, <2>2, <2>3, <2>4, <2>5
  <1>. QED
    BY <1>1, <1>2 DEF TypeOK, IInv, OtherTypes, MemoriesInv

\* The guardrail leaves in a plan no step whose last executions failed, ...
LEMMA GuardrailWorks == IInv => GuardrailHolds
  <1> SUFFICES ASSUME IInv, NEW s \in Slots, NEW x \in Range(run[s].todo), x \in run[s].streaky, x \in Steps \ Rebased
               PROVE  FALSE
    BY DEF GuardrailHolds, NotRepeated
  <1>1. PICK r : r = run[s] /\ RunOk(r, issued, approved)
    BY DEF IInv, RunsInv
  <1>2. r.todo \in Seq(Allowed(r.avoid)) /\ PlanSignature(x) \in r.avoid
    BY <1>1 DEF RunOk
  <1>3. x \in Allowed(r.avoid)
    BY <1>1, <1>2 DEF Range
  <1>. QED
    BY <1>2, <1>3, AgentAssumption DEF Allowed

\* A step whose last recorded executions failed is not executed again by a run that has
\* read so, whatever the planner proposes and whatever is lost of the memory; and a run
\* that stops has a reason to give (_terapkan_guardrail_memori, run).
THEOREM FailedStepsAreDropped == Spec => []GuardedPlans
  <1>1. IInv => ConcludesWithReason
    BY DEF IInv, RunsInv, RunOk, ConcludesWithReason
  <1>2. IInv => GuardedPlans
    BY <1>1, TypesOk, GuardrailWorks DEF GuardedPlans
  <1>. QED
    BY <1>2, AgentInvariant, PTL

\* A sensitive command runs only if an operator has approved it, however the planner and
\* the approvals interleave (command tool, list_approved).
THEOREM CommandsAreApproved == Spec => []OnlyApproved
  <1>1. IInv => OnlyApproved
    BY DEF IInv
  <1>. QED
    BY <1>1, AgentInvariant, PTL

\* A write of the memory takes outcomes away only if the run that writes was overtaken by
\* another after it had read (record_agent_workflow_outcome), or a command was refused.
THEOREM OutcomesSurvive == Spec => OutcomesKept
  <1>1. ASSUME IInv, [Next]_agentVars, row # None, row' # None, row' # row, faults = 0
        PROVE  \E s \in Slots : /\ run[s].phase = "save" /\ run'[s].phase = "idle"
                                /\ ~overtaken[s] => row.runs \subseteq row'.runs
    <2>1. PICK s \in Slots : SaveMemory(s)
      BY <1>1 DEF Next, SlotStep, Begin, PlannerFails, PlannerFinishes, Plan, Act, Refresh, ReadMemory, TimeOut,
                  Approve, DeleteRow, DropCopy, Restart, agentVars
    <2>2. run[s].phase = "save"
      BY <2>1 DEF SaveMemory
    <2>3. run'[s].phase = "idle"
      <3>1. Idle.phase = "idle"
        BY DEF Idle
      <3>. QED
        BY <1>1, <2>1, <3>1 DEF SaveMemory, IInv, OtherTypes
    <2>4. PICK y : y = row' /\ y.runs = run[s].memory.runs \cup {run[s].id}
      BY <1>1, <2>1, <2>2, Written DEF SaveMemory
    <2>5. ~overtaken[s] => row = run[s].memory
      BY <1>1, <2>2 DEF IInv, ReadBeforeWrite
    <2>. QED
      BY <2>2, <2>3, <2>4, <2>5
  <1>. QED
    BY <1>1, AgentInvariant, PTL DEF Spec, OutcomesKept
================================================================================

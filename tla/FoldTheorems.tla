----------------------------- MODULE FoldTheorems ------------------------------
(***************************************************************************)
(* Facts about the folds that the models use: sums of functions to the     *)
(* natural numbers, and sequences that leave out what is not in a set.     *)
(*                                                                         *)
(* The library's induction theorems take a predicate as a parameter.  Here *)
(* induction is over sets: the numbers, or the subsets of a finite set,    *)
(* that have a property are a set that has 0, or {}, and with a member the *)
(* next one, so by the well-foundedness of < it is everything.             *)
(***************************************************************************)
EXTENDS Naturals, SequencesExt, FiniteSetTheorems, SequenceTheorems, WellFoundedInduction, TLAPS

\* A set that has 0 and with each number the next has all natural numbers.
LEMMA NumbersFromZero ==
  ASSUME NEW T, 0 \in T, \A n \in Nat : n \in T => n + 1 \in T
  PROVE  Nat \subseteq T
  <1>1. CASE Nat \ T # {}
    <2>1. Nat \ T \subseteq Nat
      OBVIOUS
    <2>2. PICK x \in Nat \ T : \A y \in Nat \ T : ~(<<y, x>> \in OpToRel(<, Nat))
      BY <1>1, <2>1, WFMin, NatLessThanWellFounded
    <2>3. \A y \in Nat : y \notin T => ~(y < x)
      BY <2>2 DEF OpToRel
    <2>4. x \in Nat /\ x # 0
      OBVIOUS
    <2>5. PICK y \in Nat : x = y + 1
      <3>1. x - 1 \in Nat /\ x = (x - 1) + 1
        BY <2>4
      <3>. QED
        BY <3>1
    <2>6. y \in T
      BY <2>3, <2>4, <2>5
    <2>7. x \in T
      BY <2>5, <2>6
    <2>. QED
      BY <2>7
  <1>. QED
    BY <1>1

\* A set that has {} and with each part of S the part with one element more has S.
LEMMA SetsFromEmpty ==
  ASSUME NEW S, IsFiniteSet(S), NEW C, {} \in C,
         \A P \in SUBSET S : \A x \in S \ P : P \in C => P \cup {x} \in C
  PROVE  S \in C
  <1> DEFINE T == {n \in Nat : \A P \in SUBSET S : Cardinality(P) = n => P \in C}
  <1>1. \A P \in SUBSET S : IsFiniteSet(P) /\ Cardinality(P) \in Nat
    BY FS_Subset, FS_CardinalityType
  <1>2. 0 \in T
    BY <1>1, FS_EmptySet
  <1>3. ASSUME NEW n \in Nat, n \in T PROVE n + 1 \in T
    <2> SUFFICES ASSUME NEW P \in SUBSET S, Cardinality(P) = n + 1 PROVE P \in C
      OBVIOUS
    <2>1. P # {}
      BY FS_EmptySet
    <2>2. PICK x : x \in P
      BY <2>1
    <2>3. Cardinality(P \ {x}) = n
      <3>1. Cardinality(P \ {x}) = Cardinality(P) - 1
        BY <1>1, <2>2, FS_RemoveElement
      <3>. QED
        BY <3>1
    <2>4. P \ {x} \in C /\ P \ {x} \in SUBSET S /\ x \in S \ (P \ {x})
      BY <1>3, <2>2, <2>3
    <2>5. P = (P \ {x}) \cup {x}
      BY <2>2
    <2>. QED
      BY <2>4, <2>5
  <1>4. Nat \subseteq T
    <2> HIDE DEF T
    <2>. QED
      BY <1>2, <1>3, NumbersFromZero
  <1>. QED
    BY <1>1, <1>4

(***************************************************************************)
(* The function that a sum is defined by                                   *)
(***************************************************************************)
Some(s) == CHOOSE x \in s : TRUE
NextSum(f, g, s) == IF s = {} THEN 0 ELSE f[Some(s)] + g[s \ {Some(s)}]
Sums(f, S) == CHOOSE g : g = [s \in SUBSET S |-> NextSum(f, g, s)]

LEMMA SumIsSums == \A f, S : SumFunctionOnSet(f, S) = Sums(f, S)[S]
  BY DEF SumFunctionOnSet, FoldFunctionOnSet, MapThenFoldSet, Sums, NextSum, Some

LEMMA SomeIsIn == ASSUME NEW s, s # {} PROVE Some(s) \in s
  BY DEF Some

\* There is such a function.
LEMMA SumsExist ==
  ASSUME NEW f, NEW S, IsFiniteSet(S)
  PROVE  \E g : g = [s \in SUBSET S |-> NextSum(f, g, s)]
  <1> DEFINE Upto(g, n) == \A s \in SUBSET S : Cardinality(s) <= n => g[s] = NextSum(f, g, s)
             T == {n \in Nat : \E g : Upto(g, n)}
  <1>1. \A s \in SUBSET S : IsFiniteSet(s) /\ Cardinality(s) \in Nat
    BY FS_Subset, FS_CardinalityType
  <1>2. \A s \in SUBSET S : s # {} => Cardinality(s \ {Some(s)}) = Cardinality(s) - 1 /\ s \ {Some(s)} \in SUBSET S
    BY <1>1, SomeIsIn, FS_RemoveElement
  <1>3. 0 \in T
    <2>1. ASSUME NEW g, g = [s \in SUBSET S |-> 0] PROVE Upto(g, 0)
      <3>1. \A s \in SUBSET S : Cardinality(s) <= 0 => s = {}
        BY <1>1, FS_EmptySet
      <3>. QED
        BY <2>1, <3>1 DEF NextSum
    <2>. QED
      BY <2>1
  <1>4. ASSUME NEW n \in Nat, n \in T PROVE n + 1 \in T
    <2>1. PICK g : Upto(g, n)
      BY <1>4
    <2>2. PICK h : h = [s \in SUBSET S |-> IF Cardinality(s) <= n THEN g[s] ELSE NextSum(f, g, s)]
      OBVIOUS
    <2>3. ASSUME NEW s \in SUBSET S, Cardinality(s) <= n + 1 PROVE h[s] = NextSum(f, h, s)
      <3>1. h[s] = NextSum(f, g, s)
        BY <2>1, <2>2
      <3>2. CASE s = {}
        BY <3>1, <3>2 DEF NextSum
      <3>3. CASE s # {}
        <4>1. h[s \ {Some(s)}] = g[s \ {Some(s)}]
          <5>1. Cardinality(s \ {Some(s)}) <= n /\ s \ {Some(s)} \in SUBSET S
            BY <1>1, <1>2, <2>3, <3>3
          <5>. QED
            BY <2>2, <5>1
        <4>. QED
          BY <3>1, <3>3, <4>1 DEF NextSum
      <3>. QED
        BY <3>2, <3>3
    <2>. QED
      BY <2>3
  <1>5. Nat \subseteq T
    <2> HIDE DEF T
    <2>. QED
      BY <1>3, <1>4, NumbersFromZero
  <1>6. PICK g : Upto(g, Cardinality(S))
    BY <1>1, <1>5
  <1>7. PICK k : k = [s \in SUBSET S |-> g[s]]
    OBVIOUS
  <1>8. ASSUME NEW s \in SUBSET S PROVE k[s] = NextSum(f, k, s)
    <2>1. Cardinality(s) <= Cardinality(S)
      BY FS_Subset
    <2>2. k[s] = NextSum(f, g, s)
      BY <1>6, <1>7, <2>1
    <2>3. s # {} => k[s \ {Some(s)}] = g[s \ {Some(s)}]
      BY <1>2, <1>7
    <2>. QED
      BY <2>2, <2>3 DEF NextSum
  <1>9. k = [s \in SUBSET S |-> NextSum(f, k, s)]
    BY <1>7, <1>8
  <1>. QED
    BY <1>9

LEMMA SumsAre ==
  ASSUME NEW f, NEW S, IsFiniteSet(S)
  PROVE  \A s \in SUBSET S : Sums(f, S)[s] = NextSum(f, Sums(f, S), s)
  <1> DEFINE P(g) == g = [s \in SUBSET S |-> NextSum(f, g, s)]
  <1>1. \E g : P(g)
    BY SumsExist
  <1>2. Sums(f, S) = CHOOSE g : P(g)
    BY DEF Sums
  <1>3. P(Sums(f, S))
    <2> HIDE DEF P
    <2>. QED
      BY <1>1, <1>2
  <1>4. PICK h : h = Sums(f, S) /\ h = [s \in SUBSET S |-> NextSum(f, h, s)]
    BY <1>3
  <1>. QED
    BY <1>4

\* Induction over the parts of a finite set by their size.
LEMMA PartsBySize ==
  ASSUME NEW S, IsFiniteSet(S), NEW C,
         \A s \in SUBSET S : (\A t \in SUBSET s : t # s => t \in C) => s \in C
  PROVE  SUBSET S \subseteq C
  <1> DEFINE T == {n \in Nat : \A s \in SUBSET S : Cardinality(s) <= n => s \in C}
  <1>1. \A s \in SUBSET S : IsFiniteSet(s) /\ Cardinality(s) \in Nat
    BY FS_Subset, FS_CardinalityType
  <1>2. \A s \in SUBSET S : \A t \in SUBSET s : t # s => Cardinality(t) < Cardinality(s) /\ t \in SUBSET S
    <2> SUFFICES ASSUME NEW s \in SUBSET S, NEW t \in SUBSET s, t # s PROVE Cardinality(t) < Cardinality(s) /\ t \in SUBSET S
      OBVIOUS
    <2>1. Cardinality(t) <= Cardinality(s) /\ Cardinality(t) # Cardinality(s)
      BY <1>1, FS_Subset
    <2>. QED
      BY <1>1, <2>1
  <1>3. 0 \in T
    <2>1. ASSUME NEW s \in SUBSET S, Cardinality(s) <= 0 PROVE s \in C
      <3>1. s = {}
        BY <1>1, <2>1, FS_EmptySet
      <3>. QED
        BY <3>1
    <2>. QED
      BY <2>1
  <1>4. ASSUME NEW n \in Nat, n \in T PROVE n + 1 \in T
    <2>1. ASSUME NEW s \in SUBSET S, Cardinality(s) <= n + 1 PROVE s \in C
      <3>1. ASSUME NEW t \in SUBSET s, t # s PROVE t \in C
        <4>1. t \in SUBSET S /\ Cardinality(t) <= n
          BY <1>1, <1>2, <2>1, <3>1
        <4>. QED
          BY <1>4, <4>1
      <3>. QED
        BY <3>1
    <2>. QED
      BY <2>1
  <1>5. Nat \subseteq T
    <2> HIDE DEF T
    <2>. QED
      BY <1>3, <1>4, NumbersFromZero
  <1>. QED
    BY <1>1, <1>5

\* The sum over a part of S does not depend on S.
LEMMA SumsAgree ==
  ASSUME NEW f, NEW S, IsFiniteSet(S), NEW R \in SUBSET S
  PROVE  Sums(f, S)[R] = Sums(f, R)[R]
  <1> DEFINE C == {t \in SUBSET R : Sums(f, S)[t] = Sums(f, R)[t]}
  <1>1. IsFiniteSet(R)
    BY FS_Subset
  <1>2. ASSUME NEW s \in SUBSET R, \A t \in SUBSET s : t # s => t \in C PROVE s \in C
    <2>1. Sums(f, S)[s] = NextSum(f, Sums(f, S), s) /\ Sums(f, R)[s] = NextSum(f, Sums(f, R), s)
      BY <1>1, SumsAre
    <2>2. s # {} => s \ {Some(s)} \in C
      BY <1>2, SomeIsIn
    <2>. QED
      BY <2>1, <2>2 DEF NextSum
  <1>3. SUBSET R \subseteq C
    <2> HIDE DEF C
    <2>. QED
      BY <1>1, <1>2, PartsBySize
  <1>. QED
    BY <1>3

\* Nothing sums up to 0; otherwise some element comes first.
LEMMA SumUnfolds ==
  ASSUME NEW f, NEW S, IsFiniteSet(S)
  PROVE  /\ SumFunctionOnSet(f, {}) = 0
         /\ S # {} => SumFunctionOnSet(f, S) = f[Some(S)] + SumFunctionOnSet(f, S \ {Some(S)})
  <1>1. Sums(f, {})[{}] = 0
    BY SumsAre, FS_EmptySet DEF NextSum
  <1>2. ASSUME S # {} PROVE Sums(f, S)[S] = f[Some(S)] + Sums(f, S \ {Some(S)})[S \ {Some(S)}]
    <2>1. Sums(f, S)[S] = f[Some(S)] + Sums(f, S)[S \ {Some(S)}]
      BY <1>2, SumsAre DEF NextSum
    <2>. QED
      BY <2>1, SumsAgree
  <1>. QED
    BY <1>1, <1>2, SumIsSums

LEMMA SumOfNone == \A f : SumFunctionOnSet(f, {}) = 0
  BY SumUnfolds, FS_EmptySet

(***************************************************************************)
(* Sums of natural numbers                                                 *)
(***************************************************************************)
LEMMA SumType ==
  ASSUME NEW S, IsFiniteSet(S), NEW f, \A x \in S : f[x] \in Nat
  PROVE  SumFunctionOnSet(f, S) \in Nat
  <1> DEFINE C == {s \in SUBSET S : SumFunctionOnSet(f, s) \in Nat}
  <1>1. ASSUME NEW s \in SUBSET S, \A t \in SUBSET s : t # s => t \in C PROVE s \in C
    <2>1. IsFiniteSet(s)
      BY FS_Subset
    <2>2. CASE s = {}
      BY <2>2, SumOfNone
    <2>3. CASE s # {}
      <3>1. Some(s) \in s /\ s \ {Some(s)} \in C
        BY <1>1, <2>3, SomeIsIn
      <3>. QED
        BY <2>1, <2>3, <3>1, SumUnfolds
    <2>. QED
      BY <2>2, <2>3
  <1>2. SUBSET S \subseteq C
    <2> HIDE DEF C
    <2>. QED
      BY <1>1, PartsBySize
  <1>. QED
    BY <1>2

LEMMA SumOfZeros ==
  ASSUME NEW S, IsFiniteSet(S), NEW f, \A x \in S : f[x] = 0
  PROVE  SumFunctionOnSet(f, S) = 0
  <1> DEFINE C == {s \in SUBSET S : SumFunctionOnSet(f, s) = 0}
  <1>1. ASSUME NEW s \in SUBSET S, \A t \in SUBSET s : t # s => t \in C PROVE s \in C
    <2>1. IsFiniteSet(s)
      BY FS_Subset
    <2>2. CASE s = {}
      BY <2>2, SumOfNone
    <2>3. CASE s # {}
      <3>1. Some(s) \in s /\ s \ {Some(s)} \in C
        BY <1>1, <2>3, SomeIsIn
      <3>. QED
        BY <2>1, <2>3, <3>1, SumUnfolds
    <2>. QED
      BY <2>2, <2>3
  <1>2. SUBSET S \subseteq C
    <2> HIDE DEF C
    <2>. QED
      BY <1>1, PartsBySize
  <1>. QED
    BY <1>2

\* Any element may come first.
LEMMA SumWithout ==
  ASSUME NEW S, IsFiniteSet(S), NEW f, \A x \in S : f[x] \in Nat, NEW x \in S
  PROVE  SumFunctionOnSet(f, S) = f[x] + SumFunctionOnSet(f, S \ {x})
  <1> DEFINE C == {s \in SUBSET S : \A y \in s : SumFunctionOnSet(f, s) = f[y] + SumFunctionOnSet(f, s \ {y})}
  <1>1. ASSUME NEW s \in SUBSET S, \A t \in SUBSET s : t # s => t \in C PROVE s \in C
    <2> SUFFICES ASSUME NEW y \in s PROVE SumFunctionOnSet(f, s) = f[y] + SumFunctionOnSet(f, s \ {y})
      OBVIOUS
    <2>1. PICK p \in s : p = Some(s)
      BY SomeIsIn
    <2>2. IsFiniteSet(s) /\ SumFunctionOnSet(f, s) = f[p] + SumFunctionOnSet(f, s \ {p})
      <3>1. IsFiniteSet(s)
        BY FS_Subset
      <3>. QED
        BY <2>1, <3>1, SumUnfolds
    <2>3. CASE y = p
      BY <2>2, <2>3
    <2>4. CASE y # p
      <3>1. SumFunctionOnSet(f, s \ {p}) = f[y] + SumFunctionOnSet(f, (s \ {p}) \ {y})
        BY <1>1, <2>4
      <3>2. SumFunctionOnSet(f, s \ {y}) = f[p] + SumFunctionOnSet(f, (s \ {y}) \ {p})
        BY <1>1, <2>4
      <3>3. (s \ {p}) \ {y} = (s \ {y}) \ {p}
        OBVIOUS
      <3>4. PICK z \in Nat : z = SumFunctionOnSet(f, (s \ {p}) \ {y})
        <4>1. IsFiniteSet((s \ {p}) \ {y})
          BY <2>2, FS_Subset
        <4>. QED
          BY <4>1, SumType
      <3>5. f[y] \in Nat /\ f[p] \in Nat
        OBVIOUS
      <3>. QED
        BY <2>2, <3>1, <3>2, <3>3, <3>4, <3>5
    <2>. QED
      BY <2>3, <2>4
  <1>2. SUBSET S \subseteq C
    <2> HIDE DEF C
    <2>. QED
      BY <1>1, PartsBySize
  <1>. QED
    BY <1>2

\* The larger function has the larger sum.
LEMMA SumGrows ==
  ASSUME NEW S, IsFiniteSet(S), NEW f, NEW g,
         \A x \in S : f[x] \in Nat /\ g[x] \in Nat /\ f[x] <= g[x]
  PROVE  SumFunctionOnSet(f, S) <= SumFunctionOnSet(g, S)
  <1> DEFINE C == {s \in SUBSET S : SumFunctionOnSet(f, s) <= SumFunctionOnSet(g, s)}
  <1>1. ASSUME NEW s \in SUBSET S, \A t \in SUBSET s : t # s => t \in C PROVE s \in C
    <2>1. IsFiniteSet(s)
      BY FS_Subset
    <2>2. CASE s = {}
      BY <2>2, SumOfNone
    <2>3. CASE s # {}
      <3>1. PICK p \in s : p = Some(s)
        BY <2>3, SomeIsIn
      <3>2. PICK m \in Nat : m = SumFunctionOnSet(f, s \ {p})
        BY <2>1, FS_Subset, SumType
      <3>3. PICK n \in Nat : n = SumFunctionOnSet(g, s \ {p})
        BY <2>1, FS_Subset, SumType
      <3>4. m <= n
        BY <1>1, <3>1, <3>2, <3>3
      <3>5. SumFunctionOnSet(f, s) = f[p] + m /\ SumFunctionOnSet(g, s) = g[p] + n
        BY <2>1, <2>3, <3>1, <3>2, <3>3, SumUnfolds
      <3>. QED
        BY <3>4, <3>5
    <2>. QED
      BY <2>2, <2>3
  <1>2. SUBSET S \subseteq C
    <2> HIDE DEF C
    <2>. QED
      BY <1>1, PartsBySize
  <1>. QED
    BY <1>2

\* A sum changes by what one element changes.
LEMMA SumChanges ==
  ASSUME NEW S, IsFiniteSet(S), NEW f, NEW g, NEW x \in S,
         \A y \in S : f[y] \in Nat /\ g[y] \in Nat,
         \A y \in S \ {x} : f[y] = g[y]
  PROVE  SumFunctionOnSet(g, S) + f[x] = SumFunctionOnSet(f, S) + g[x]
  <1>1. IsFiniteSet(S \ {x})
    BY FS_Subset
  <1>2. PICK m \in Nat : m = SumFunctionOnSet(f, S \ {x})
    BY <1>1, SumType
  <1>3. PICK n \in Nat : n = SumFunctionOnSet(g, S \ {x})
    BY <1>1, SumType
  <1>4. m <= n /\ n <= m
    <2>1. \A y \in S \ {x} : f[y] <= g[y] /\ g[y] <= f[y]
      OBVIOUS
    <2>. QED
      BY <1>1, <1>2, <1>3, <2>1, SumGrows
  <1>5. SumFunctionOnSet(f, S) = f[x] + m /\ SumFunctionOnSet(g, S) = g[x] + n
    BY <1>2, <1>3, SumWithout
  <1>. QED
    BY <1>4, <1>5

(***************************************************************************)
(* Folds over a sequence                                                   *)
(***************************************************************************)

\* A finite set of numbers has a greatest.
LEMMA GreatestIsIn ==
  ASSUME NEW S \in SUBSET Nat, IsFiniteSet(S), S # {}
  PROVE  Max(S) \in S /\ \A y \in S : y <= Max(S)
  <1> DEFINE C == {s \in SUBSET S : s # {} => \E x \in s : \A y \in s : x >= y}
  <1>1. ASSUME NEW s \in SUBSET S, \A t \in SUBSET s : t # s => t \in C PROVE s \in C
    <2> SUFFICES ASSUME s # {} PROVE \E x \in s : \A y \in s : x >= y
      OBVIOUS
    <2>1. PICK p \in s : TRUE
      OBVIOUS
    <2>2. s \ {p} \in C
      BY <1>1
    <2>3. CASE s \ {p} = {}
      <3>1. \A y \in s : p >= y
        BY <2>3
      <3>. QED
        BY <3>1
    <2>4. CASE s \ {p} # {}
      <3>1. PICK x \in s \ {p} : \A y \in s \ {p} : x >= y
        BY <2>2, <2>4
      <3>2. p \in Nat /\ x \in Nat /\ s \subseteq Nat
        OBVIOUS
      <3>3. CASE x >= p
        BY <3>1, <3>3
      <3>4. CASE p >= x
        <4>1. \A y \in s : p >= y
          BY <3>1, <3>2, <3>4
        <4>. QED
          BY <4>1
      <3>. QED
        BY <3>2, <3>3, <3>4
    <2>. QED
      BY <2>3, <2>4
  <1>2. SUBSET S \subseteq C
    <2> HIDE DEF C
    <2>. QED
      BY <1>1, PartsBySize
  <1>3. \E x \in S : \A y \in S : x >= y
    BY <1>2
  <1>4. Max(S) \in S /\ \A y \in S : Max(S) >= y
    BY <1>3 DEF Max
  <1>. QED
    BY <1>4

IsFold(S, pick, base, step, g) ==
  \A s \in SUBSET S : g[s] = IF s = {} THEN base ELSE step[pick[s]][g[s \ {pick[s]}]]

\* A recursion over the parts of a finite set that takes one element after the
\* other defines a function, and its values keep their type.
LEMMA FoldExists ==
  ASSUME NEW S, IsFiniteSet(S), NEW pick, \A s \in SUBSET S : s # {} => pick[s] \in s,
         NEW V, NEW base \in V, NEW step \in [S -> [V -> V]]
  PROVE  \E g \in [SUBSET S -> V] : IsFold(S, pick, base, step, g)
  <1> DEFINE Value(g, s) == IF s = {} THEN base ELSE step[pick[s]][g[s \ {pick[s]}]]
             Upto(g, n) == \A s \in SUBSET S : Cardinality(s) <= n => g[s] = Value(g, s)
             T == {n \in Nat : \E g \in [SUBSET S -> V] : Upto(g, n)}
  <1>1. \A s \in SUBSET S : IsFiniteSet(s) /\ Cardinality(s) \in Nat
    BY FS_Subset, FS_CardinalityType
  <1>2. \A s \in SUBSET S : s # {} => Cardinality(s \ {pick[s]}) = Cardinality(s) - 1 /\ s \ {pick[s]} \in SUBSET S
    BY <1>1, FS_RemoveElement
  <1>3. \A g \in [SUBSET S -> V] : \A s \in SUBSET S : Value(g, s) \in V
    <2> SUFFICES ASSUME NEW g \in [SUBSET S -> V], NEW s \in SUBSET S, s # {} PROVE step[pick[s]][g[s \ {pick[s]}]] \in V
      OBVIOUS
    <2>1. pick[s] \in S /\ g[s \ {pick[s]}] \in V
      BY <1>2
    <2>. QED
      BY <2>1
  <1>4. 0 \in T
    <2>1. PICK g \in [SUBSET S -> V] : g = [s \in SUBSET S |-> base]
      OBVIOUS
    <2>2. \A s \in SUBSET S : Cardinality(s) <= 0 => s = {}
      BY <1>1, FS_EmptySet
    <2>3. Upto(g, 0)
      BY <2>1, <2>2
    <2>. QED
      BY <2>3
  <1>5. ASSUME NEW n \in Nat, n \in T PROVE n + 1 \in T
    <2>1. PICK g \in [SUBSET S -> V] : Upto(g, n)
      BY <1>5
    <2>2. PICK h \in [SUBSET S -> V] : h = [s \in SUBSET S |-> Value(g, s)]
      BY <1>3
    <2>3. ASSUME NEW s \in SUBSET S, Cardinality(s) <= n PROVE h[s] = g[s]
      BY <2>1, <2>2, <2>3
    <2>4. ASSUME NEW s \in SUBSET S, Cardinality(s) <= n + 1 PROVE h[s] = Value(h, s)
      <3>1. h[s] = Value(g, s)
        BY <2>2
      <3>2. CASE s = {}
        BY <3>1, <3>2
      <3>3. CASE s # {}
        <4>1. Cardinality(s \ {pick[s]}) <= n /\ s \ {pick[s]} \in SUBSET S
          BY <1>1, <1>2, <2>4, <3>3
        <4>2. h[s \ {pick[s]}] = g[s \ {pick[s]}]
          BY <2>3, <4>1
        <4>. QED
          BY <3>1, <3>3, <4>2
      <3>. QED
        BY <3>2, <3>3
    <2>5. Upto(h, n + 1)
      <3> HIDE DEF Value
      <3>. QED
        BY <2>4
    <2>. QED
      <3> HIDE DEF Upto
      <3>. QED
        BY <2>5
  <1>6. Nat \subseteq T
    <2> HIDE DEF T
    <2>. QED
      BY <1>4, <1>5, NumbersFromZero
  <1>7. PICK g \in [SUBSET S -> V] : Upto(g, Cardinality(S))
    BY <1>1, <1>6
  <1>8. \A s \in SUBSET S : g[s] = Value(g, s)
    <2>1. \A s \in SUBSET S : Cardinality(s) <= Cardinality(S)
      BY FS_Subset
    <2>. QED
      BY <1>7, <2>1
  <1>. QED
    BY <1>8 DEF IsFold

\* A sequence without what is not in K.
Sifted(q, K) == FoldLeft(LAMBDA kept, x : IF x \in K THEN Append(kept, x) ELSE kept, <<>>, q)

NextSifted(q, K, g, s) ==
  IF s = {} THEN <<>> ELSE IF q[Max(s)] \in K THEN Append(g[s \ {Max(s)}], q[Max(s)]) ELSE g[s \ {Max(s)}]
Sifteds(q, K) == CHOOSE g : g = [s \in SUBSET DOMAIN q |-> NextSifted(q, K, g, s)]

LEMMA SiftedIsSifteds == \A q, K : Sifted(q, K) = Sifteds(q, K)[DOMAIN q]
  BY DEF Sifted, FoldLeft, MapThenFoldSet, Sifteds, NextSifted

LEMMA SiftedsExist ==
  ASSUME NEW A, NEW q \in Seq(A), NEW K
  PROVE  \E g \in [SUBSET DOMAIN q -> Seq(K)] : g = [s \in SUBSET DOMAIN q |-> NextSifted(q, K, g, s)]
  <1> DEFINE D == DOMAIN q
             V == Seq(K)
             base == <<>>
             pick == [s \in SUBSET D |-> Max(s)]
             step == [i \in D |-> [v \in V |-> IF q[i] \in K THEN Append(v, q[i]) ELSE v]]
  <1>1. D \in SUBSET Nat /\ IsFiniteSet(D)
    <2>1. D = 1..Len(q) /\ Len(q) \in Nat
      OBVIOUS
    <2>. QED
      BY <2>1, FS_Interval
  <1>2. ASSUME NEW s \in SUBSET D, s # {} PROVE pick[s] \in s
    BY <1>1, <1>2, FS_Subset, GreatestIsIn
  <1>3. step \in [D -> [V -> V]] /\ base \in V
    <2>1. \A i \in D : \A v \in V : (IF q[i] \in K THEN Append(v, q[i]) ELSE v) \in V
      OBVIOUS
    <2>. QED
      BY <2>1
  <1>4a. PICK g \in [SUBSET D -> V] : IsFold(D, pick, base, step, g)
    <2>1. \A s \in SUBSET D : s # {} => pick[s] \in s
      BY <1>2
    <2> HIDE DEF D, V, base, pick, step
    <2>. QED
      BY <1>1, <1>3, <2>1, FoldExists
  <1>4. \A s \in SUBSET D : g[s] = IF s = {} THEN base ELSE step[pick[s]][g[s \ {pick[s]}]]
    <2> HIDE DEF D, V, base, pick, step
    <2>. QED
      BY <1>4a DEF IsFold
  <1>5. ASSUME NEW s \in SUBSET D PROVE g[s] = NextSifted(q, K, g, s)
    <2>1. CASE s = {}
      BY <1>4, <2>1 DEF NextSifted
    <2>2. CASE s # {}
      <3>1. PICK m \in D : m = Max(s) /\ m = pick[s]
        BY <1>2, <2>2
      <3>2. PICK v \in V : v = g[s \ {m}]
        BY <1>4
      <3>3. g[s] = step[m][v]
        BY <1>4, <2>2, <3>1, <3>2
      <3>4. g[s] = IF q[m] \in K THEN Append(v, q[m]) ELSE v
        BY <3>3
      <3>. QED
        BY <2>2, <3>1, <3>2, <3>4 DEF NextSifted
    <2>. QED
      BY <2>1, <2>2
  <1>. QED
    BY <1>4, <1>5

\* What is left out leaves a sequence over K, which is not longer.
LEMMA SiftedType ==
  ASSUME NEW A, NEW q \in Seq(A), NEW K
  PROVE  Sifted(q, K) \in Seq(K) /\ Len(Sifted(q, K)) <= Len(q)
  <1> DEFINE P(g) == g = [s \in SUBSET DOMAIN q |-> NextSifted(q, K, g, s)]
             h == Sifteds(q, K)
  <1>1. \E g : P(g)
    BY SiftedsExist
  <1>2. Sifteds(q, K) = CHOOSE g : P(g)
    BY DEF Sifteds
  <1>3. P(h)
    <2> HIDE DEF P
    <2>. QED
      BY <1>1, <1>2
  <1>4. ASSUME NEW s \in SUBSET DOMAIN q PROVE h[s] = NextSifted(q, K, h, s)
    <2> HIDE DEF h
    <2>. QED
      BY <1>3
  <1> DEFINE C == {s \in SUBSET DOMAIN q : h[s] \in Seq(K) /\ Len(h[s]) <= Cardinality(s)}
  <1>5. DOMAIN q \in SUBSET Nat /\ IsFiniteSet(DOMAIN q) /\ Cardinality(DOMAIN q) = Len(q)
    <2>1. DOMAIN q = 1..Len(q) /\ Len(q) \in Nat
      OBVIOUS
    <2>2. IsFiniteSet(1..Len(q)) /\ Cardinality(1..Len(q)) = Len(q)
      BY <2>1, FS_Interval
    <2>. QED
      BY <2>1, <2>2
  <1>6. ASSUME NEW s \in SUBSET DOMAIN q, \A t \in SUBSET s : t # s => t \in C PROVE s \in C
    <2> SUFFICES h[s] \in Seq(K) /\ Len(h[s]) <= Cardinality(s)
      OBVIOUS
    <2> HIDE DEF h, C
    <2>1. CASE s = {}
      <3>1. h[s] = <<>>
        BY <1>4, <2>1 DEF NextSifted
      <3>2. Cardinality(s) = 0
        BY <2>1, FS_EmptySet
      <3>. QED
        BY <3>1, <3>2
    <2>2. CASE s # {}
      <3>1. PICK m \in s : m = Max(s)
        BY <1>5, <2>2, FS_Subset, GreatestIsIn
      <3>2. PICK w \in Seq(K) : w = h[s \ {m}] /\ Len(w) <= Cardinality(s \ {m})
        BY <1>6, <3>1 DEF C
      <3>3. h[s] = IF q[m] \in K THEN Append(w, q[m]) ELSE w
        BY <1>4, <2>2, <3>1, <3>2 DEF NextSifted
      <3>4. Cardinality(s) \in Nat /\ Cardinality(s \ {m}) = Cardinality(s) - 1
        BY <1>5, <3>1, FS_Subset, FS_RemoveElement, FS_CardinalityType
      <3>5. h[s] \in Seq(K) /\ Len(h[s]) <= Len(w) + 1
        BY <3>2, <3>3
      <3>. QED
        BY <3>2, <3>4, <3>5
    <2>. QED
      BY <2>1, <2>2
  <1>7. SUBSET DOMAIN q \subseteq C
    <2> HIDE DEF C
    <2>. QED
      BY <1>5, <1>6, PartsBySize
  <1>8. DOMAIN q \in C
    BY <1>7
  <1>. QED
    BY <1>5, <1>8, SiftedIsSifteds

\* What is left of an ascending sequence ascends, and nothing of K is missing.
LEMMA SiftedOrder ==
  ASSUME NEW q \in Seq(Nat), \A i, j \in DOMAIN q : i < j => q[i] < q[j], NEW K
  PROVE  /\ ToSet(Sifted(q, K)) = ToSet(q) \cap K
         /\ \A i, j \in DOMAIN Sifted(q, K) : i < j => Sifted(q, K)[i] < Sifted(q, K)[j]
  <1> DEFINE P(g) == g = [s \in SUBSET DOMAIN q |-> NextSifted(q, K, g, s)]
             h == Sifteds(q, K)
             Ascends(w) == \A i, j \in DOMAIN w : i < j => w[i] < w[j]
             Taken(s) == {q[i] : i \in s} \cap K
  <1>1. \E g : P(g)
    BY SiftedsExist
  <1>2. Sifteds(q, K) = CHOOSE g : P(g)
    BY DEF Sifteds
  <1>3. P(h)
    <2> HIDE DEF P
    <2>. QED
      BY <1>1, <1>2
  <1>4. ASSUME NEW s \in SUBSET DOMAIN q PROVE h[s] = NextSifted(q, K, h, s)
    <2> HIDE DEF h
    <2>. QED
      BY <1>3
  <1> DEFINE C == {s \in SUBSET DOMAIN q : h[s] \in Seq(Nat) /\ ToSet(h[s]) = Taken(s) /\ Ascends(h[s])}
  <1>5. DOMAIN q \in SUBSET Nat /\ IsFiniteSet(DOMAIN q)
    <2>1. DOMAIN q = 1..Len(q) /\ Len(q) \in Nat
      OBVIOUS
    <2>. QED
      BY <2>1, FS_Interval
  <1>6. ASSUME NEW s \in SUBSET DOMAIN q, \A t \in SUBSET s : t # s => t \in C PROVE s \in C
    <2> SUFFICES h[s] \in Seq(Nat) /\ ToSet(h[s]) = Taken(s) /\ Ascends(h[s])
      OBVIOUS
    <2> HIDE DEF h, C
    <2>1. CASE s = {}
      <3>1. h[s] = <<>>
        BY <1>4, <2>1 DEF NextSifted
      <3>. QED
        BY <2>1, <3>1 DEF ToSet
    <2>2. CASE s # {}
      <3>1. PICK m \in s : m = Max(s) /\ \A i \in s : i <= m
        BY <1>5, <2>2, FS_Subset, GreatestIsIn
      <3>2. PICK w \in Seq(Nat) : w = h[s \ {m}] /\ ToSet(w) = Taken(s \ {m}) /\ Ascends(w)
        BY <1>6, <3>1 DEF C
      <3>3. h[s] = IF q[m] \in K THEN Append(w, q[m]) ELSE w
        BY <1>4, <2>2, <3>1, <3>2 DEF NextSifted
      <3>4. \A i \in DOMAIN w : w[i] < q[m]
        <4>1. \A x \in Taken(s \ {m}) : x < q[m]
          <5>1. \A i \in s \ {m} : i < m
            BY <1>5, <3>1
          <5>. QED
            BY <3>1, <5>1
        <4>. QED
          BY <3>2, <4>1 DEF ToSet
      <3>5. q[m] \in Nat
        BY <3>1
      <3>6. CASE q[m] \in K
        <4>1. PICK a \in Nat : a = q[m]
          BY <3>5
        <4>2. PICK v \in Seq(Nat) : v = Append(w, a)
          BY AppendProperties
        <4>3. v = h[s]
          BY <3>3, <3>6, <4>1, <4>2
        <4>4. DOMAIN v = 1..Len(w) + 1 /\ Len(w) \in Nat /\ DOMAIN w = 1..Len(w)
              /\ v[Len(w) + 1] = a /\ \A i \in 1..Len(w) : v[i] = w[i]
          BY <4>2
        <4>5. Ascends(v)
          <5>1. \A i \in DOMAIN w : v[i] < v[Len(w) + 1]
            BY <3>4, <4>1, <4>4
          <5>2. \A i \in DOMAIN v : i \in DOMAIN w \/ i = Len(w) + 1
            BY <4>4
          <5>3. \A i, j \in DOMAIN w : i < j => v[i] < v[j]
            BY <3>2, <4>4
          <5>4. \A i \in DOMAIN w : i < Len(w) + 1
            BY <4>4
          <5>5. Len(w) + 1 \in Nat /\ ~(Len(w) + 1 < Len(w) + 1) /\ \A i \in DOMAIN w : ~(Len(w) + 1 < i)
            BY <4>4
          <5>. QED
            BY <5>1, <5>2, <5>3, <5>5, Zenon
        <4>6. ToSet(v) = ToSet(w) \cup {a}
          <5>1. DOMAIN v = DOMAIN w \cup {Len(w) + 1}
            BY <4>4
          <5>2. \A i \in DOMAIN w : v[i] = w[i]
            BY <4>4
          <5>. QED
            <6>1. PICK n : DOMAIN v = DOMAIN w \cup {n} /\ v[n] = a
              BY <4>4, <5>1
            <6>2. \A x \in ToSet(v) : x \in ToSet(w) \cup {a}
              BY <5>2, <6>1 DEF ToSet
            <6>3. \A x \in ToSet(w) \cup {a} : x \in ToSet(v)
              BY <5>2, <6>1 DEF ToSet
            <6>. QED
              BY <6>2, <6>3
        <4>7. Taken(s) = Taken(s \ {m}) \cup {q[m]}
          BY <3>1, <3>6
        <4>. QED
          BY <3>2, <4>1, <4>3, <4>5, <4>6, <4>7
      <3>7. CASE q[m] \notin K
        <4>1. Taken(s) = Taken(s \ {m})
          BY <3>1, <3>7
        <4>. QED
          BY <3>2, <3>3, <3>7, <4>1
      <3>. QED
        BY <3>6, <3>7
    <2>. QED
      BY <2>1, <2>2
  <1>7. SUBSET DOMAIN q \subseteq C
    <2> HIDE DEF C
    <2>. QED
      BY <1>5, <1>6, PartsBySize
  <1>8. DOMAIN q \in C
    BY <1>7
  <1>. QED
    BY <1>8, SiftedIsSifteds DEF ToSet
================================================================================

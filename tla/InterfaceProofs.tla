--------------------------- MODULE InterfaceProofs ----------------------------
(***************************************************************************)
(* Proofs about the two interfaces.                                        *)
(*                                                                         *)
(* The timeline of the simple one: TimelineFaithful and OneSource hold of  *)
(* every behaviour of EventStream, for every window, buffer and number of  *)
(* events, failures and reads.                                             *)
(*                                                                         *)
(* The pages of both: what Console's run checks of them holds for all rows *)
(* and contents, and any number of requests, versions and returns.         *)
(***************************************************************************)
EXTENDS Console, EventStream, FoldTheorems

(***************************************************************************)
(* Sequences                                                               *)
(***************************************************************************)

\* How many elements Drop(q, n) drops.
Cut(q, n) == IF Len(q) <= n THEN 0 ELSE Len(q) - n

\* Drop leaves the last n elements, which move by the number of those it drops.
LEMMA DropIs ==
  ASSUME NEW A, NEW q \in Seq(A), NEW n \in Nat
  PROVE  /\ Cut(q, n) \in 0..Len(q) /\ Drop(q, n) \in Seq(A) /\ Len(Drop(q, n)) = Len(q) - Cut(q, n)
         /\ \A i \in 1..Len(Drop(q, n)) : Drop(q, n)[i] = q[i + Cut(q, n)]
  <1>1. CASE Len(q) <= n
    <2>1. Drop(q, n) = q /\ Cut(q, n) = 0
      BY <1>1 DEF Drop, Cut
    <2>2. \A i \in 1..Len(q) : q[i] = q[i + 0]
      OBVIOUS
    <2>3. 0 \in 0..Len(q) /\ Len(q) = Len(q) - 0
      OBVIOUS
    <2>. QED
      BY <2>1, <2>2, <2>3
  <1>2. CASE ~(Len(q) <= n)
    <2>1. PICK m \in Nat : m = Len(q) - n /\ m <= Len(q) /\ m > 0 /\ m = Cut(q, n)
      BY <1>2 DEF Cut
    <2>2. PICK p : p = SubSeq(q, m + 1, Len(q)) /\ p = Drop(q, n)
      <3>1. Len(q) - n + 1 = m + 1
        BY <2>1
      <3>. QED
        BY <1>2, <3>1 DEF Drop
    <2>3. p \in Seq(A) /\ Len(p) = Len(q) - m
      <3>2. SubSeq(q, m + 1, Len(q)) \in Seq(A)
        BY <2>1
      <3>3. Len(SubSeq(q, m + 1, Len(q))) = Len(q) - m
        BY <2>1
      <3>. QED
        BY <2>2, <3>2, <3>3
    <2>4. \A i \in 1..(Len(q) - m) : p[i] = q[i + m]
      <3>1. m + 1 \in Int /\ Len(q) \in Int /\ \A i \in (m + 1)..Len(q) : q[i] \in A
        BY <2>1
      <3>2. \A i \in 1..(Len(q) - (m + 1) + 1) : SubSeq(q, m + 1, Len(q))[i] = q[(m + 1) + i - 1]
        BY <3>1, SubSeqProperties
      <3>3. ASSUME NEW i \in 1..(Len(q) - m) PROVE i \in 1..(Len(q) - (m + 1) + 1) /\ (m + 1) + i - 1 = i + m
        BY <2>1
      <3>. QED
        BY <2>2, <3>2, <3>3
    <2>5. m \in 0..Len(q)
      BY <2>1
    <2>. QED
      BY <2>1, <2>2, <2>3, <2>4, <2>5
  <1>. QED
    BY <1>1, <1>2

Ascends(q) == \A i, j \in DOMAIN q : i < j => q[i] < q[j]

\* The events a read returns when there are n.
Recent(n) == {e \in 1..n : e + Window > n}

LEMMA LatestIs ==
  ASSUME NEW n \in Nat
  PROVE  /\ Latest(n) \in Seq(1..n) /\ Len(Latest(n)) <= Window
         /\ ToSet(Latest(n)) = Recent(n) /\ Ascends(Latest(n))
  <1>0. Window \in Nat /\ Window > 0
    BY StreamAssumption
  <1>1. PICK S : S = 1..n
    OBVIOUS
  <1>2. PICK q \in Seq(S) : q = [i \in 1..n |-> i]
    <2>1. [i \in 1..n |-> i] \in [1..n -> S]
      BY <1>1
    <2>. QED
      BY <2>1, SeqDef
  <1>3. Len(q) = n /\ \A i \in 1..n : q[i] = i
    <2>1. DOMAIN q = 1..n /\ DOMAIN q = 1..Len(q) /\ Len(q) \in Nat
      BY <1>2
    <2>. QED
      BY <1>2, <2>1
  <1>4. PICK k \in 0..n :
          /\ k = IF n <= Window THEN 0 ELSE n - Window
          /\ Latest(n) \in Seq(S) /\ Len(Latest(n)) = n - k
          /\ \A i \in 1..(n - k) : Latest(n)[i] = q[i + k]
    <2>1. PICK p : p = Drop(q, Window) /\ p = Latest(n)
      BY <1>2 DEF Latest
    <2>2. Cut(q, Window) \in 0..Len(q) /\ p \in Seq(S) /\ Len(p) = Len(q) - Cut(q, Window)
          /\ \A i \in 1..Len(p) : p[i] = q[i + Cut(q, Window)]
      <3>1. /\ Cut(q, Window) \in 0..Len(q) /\ Drop(q, Window) \in Seq(S)
            /\ Len(Drop(q, Window)) = Len(q) - Cut(q, Window)
            /\ \A i \in 1..Len(Drop(q, Window)) : Drop(q, Window)[i] = q[i + Cut(q, Window)]
        BY <1>0, DropIs
      <3>. QED
        BY <2>1, <3>1
    <2>. QED
      BY <1>3, <2>1, <2>2 DEF Cut
  <1>5. \A i \in 1..(n - k) : i + k \in 1..n /\ Latest(n)[i] = i + k
    BY <1>3, <1>4
  <1>6. DOMAIN Latest(n) = 1..(n - k)
    BY <1>4
  <1>7. Ascends(Latest(n))
    BY <1>5, <1>6 DEF Ascends
  <1>8. \A e \in Recent(n) : e - k \in 1..(n - k) /\ e = (e - k) + k
    BY <1>0, <1>4 DEF Recent
  <1>9. \A i \in 1..(n - k) : i + k \in Recent(n)
    BY <1>0, <1>4, <1>5 DEF Recent
  <1>10. ToSet(Latest(n)) = Recent(n)
    <2>1. \A x \in ToSet(Latest(n)) : x \in Recent(n)
      BY <1>5, <1>6, <1>9 DEF ToSet
    <2>2. ASSUME NEW e \in Recent(n) PROVE e \in ToSet(Latest(n))
      <3>1. PICK i \in 1..(n - k) : e = i + k
        BY <1>8
      <3>. QED
        BY <1>5, <1>6, <3>1 DEF ToSet
    <2>. QED
      BY <2>1, <2>2
  <1>11. Len(Latest(n)) <= Window
    BY <1>0, <1>4
  <1>. QED
    BY <1>1, <1>4, <1>7, <1>10, <1>11

\* How often e occurs in a sequence.
Places(q, e) == {i \in DOMAIN q : q[i] = e}

LEMMA PlacesType ==
  ASSUME NEW A, NEW q \in Seq(A), NEW e
  PROVE  IsFiniteSet(Places(q, e)) /\ Cardinality(Places(q, e)) \in Nat /\ Cardinality(Places(q, e)) <= Len(q)
  <1>1. DOMAIN q = 1..Len(q) /\ Len(q) \in Nat
    OBVIOUS
  <1>2. IsFiniteSet(1..Len(q)) /\ Cardinality(1..Len(q)) = Len(q)
    <2>1. Cardinality(1..Len(q)) = IF 1 > Len(q) THEN 0 ELSE Len(q) - 1 + 1
      BY <1>1, FS_Interval
    <2>. QED
      BY <1>1, <2>1, FS_Interval
  <1>. QED
    BY <1>1, <1>2, FS_Subset, FS_CardinalityType DEF Places

\* Fewer copies are left when elements are dropped.
LEMMA PlacesMove ==
  ASSUME NEW A, NEW q \in Seq(A), NEW p \in Seq(A), NEW e, NEW k \in Nat,
         Len(q) + k <= Len(p), \A i \in 1..Len(q) : q[i] = p[i + k]
  PROVE  Cardinality(Places(q, e)) <= Cardinality(Places(p, e))
  <1>1. PICK f : f = [i \in Places(q, e) |-> i + k]
    OBVIOUS
  <1>2. DOMAIN q = 1..Len(q) /\ DOMAIN p = 1..Len(p) /\ Len(q) \in Nat /\ Len(p) \in Nat
    OBVIOUS
  <1>3. \A i \in Places(q, e) : i \in Nat /\ i + k \in Places(p, e)
    BY <1>2 DEF Places
  <1>4. f \in [Places(q, e) -> Places(p, e)]
    BY <1>1, <1>3
  <1>5. \A i, j \in Places(q, e) : f[i] = f[j] => i = j
    BY <1>1, <1>3
  <1>6. f \in Injection(Places(q, e), Places(p, e))
    BY <1>4, <1>5 DEF Injection, IsInjective
  <1>. QED
    BY <1>6, PlacesType, FS_Injection

\* An element more is one copy more of itself, and none of another.
LEMMA PlacesAppend ==
  ASSUME NEW A, NEW q \in Seq(A), NEW d \in A, NEW e
  PROVE  /\ e = d => Cardinality(Places(Append(q, d), e)) = Cardinality(Places(q, e)) + 1
         /\ e # d => Cardinality(Places(Append(q, d), e)) = Cardinality(Places(q, e))
  <1>1. PICK p \in Seq(A) : p = Append(q, d)
    <2>1. Append(q, d) \in Seq(A)
      BY AppendProperties, Zenon
    <2>. QED
      BY <2>1
  <1>2. PICK n \in Nat : n = Len(q) /\ DOMAIN q = 1..n /\ DOMAIN p = 1..(n + 1) /\ p[n + 1] = d /\ \A i \in 1..n : p[i] = q[i]
    <2>1. /\ Len(q) \in Nat /\ DOMAIN q = 1..Len(q) /\ Len(p) = Len(q) + 1 /\ p[Len(q) + 1] = d
          /\ \A i \in 1..Len(q) : p[i] = q[i]
      BY <1>1, AppendProperties, LenProperties
    <2>2. DOMAIN p = 1..(Len(q) + 1)
      BY <2>1, LenProperties
    <2>. QED
      BY <2>1, <2>2, Zenon
  <1>3. CASE e # d
    <2>1. Places(p, e) = Places(q, e)
      BY <1>2, <1>3 DEF Places
    <2>. QED
      BY <1>1, <1>3, <2>1
  <1>4. CASE e = d
    <2>1. Places(p, e) = Places(q, e) \cup {n + 1} /\ n + 1 \notin Places(q, e)
      BY <1>2, <1>4 DEF Places
    <2>2. Cardinality(Places(q, e) \cup {n + 1}) = Cardinality(Places(q, e)) + 1
      BY <2>1, PlacesType, FS_AddElement
    <2>. QED
      BY <1>1, <1>4, <2>1, <2>2
  <1>. QED
    BY <1>3, <1>4

\* An ascending sequence has no element twice.
LEMMA PlacesOnce ==
  ASSUME NEW q \in Seq(Nat), Ascends(q), NEW e
  PROVE  Cardinality(Places(q, e)) <= 1
  <1>1. \A i, j \in Places(q, e) : i = j
    <2>1. \A i, j \in DOMAIN q : i \in Nat /\ j \in Nat /\ (i < j => q[i] < q[j]) /\ q[i] \in Nat
      BY DEF Ascends
    <2>. QED
      BY <2>1 DEF Places
  <1>2. Places(q, e) = {} \/ \E i : Places(q, e) = {i}
    BY <1>1
  <1>3. Cardinality(Places(q, e)) = 0 \/ Cardinality(Places(q, e)) = 1
    BY <1>2, FS_EmptySet, FS_Singleton, Zenon
  <1>. QED
    BY <1>3

(***************************************************************************)
(* The invariant                                                           *)
(***************************************************************************)
States == {"connecting", "open", "closed"}
Sources == [state : States, batch : Seq(Events), seen : SUBSET Events]
Reads == [n : 1..MaxReads, state : {"sent", "answered"}, rows : Seq(Events)]

WorldTypes ==
  /\ log \in 0..MaxEvents /\ up \in BOOLEAN /\ connected \in BOOLEAN /\ mounted \in BOOLEAN
  /\ issued \in 1..MaxReads /\ wait \in 0..Off /\ errors \in 0..MaxErrors /\ renders \in 0..MaxRenders

SourceTypes ==
  /\ sources \in Seq(Sources) /\ timers \in Seq(Nat) /\ Len(timers) = Len(sources)
  /\ current \in 1..Len(sources)

BufferTypes ==
  /\ buffer \in Seq(Events) /\ Len(buffer) <= Kept /\ ToSet(buffer) \subseteq 1..log
  /\ lacking \subseteq Events /\ streams \in Nat

\* A list answer is empty, or holds what the API had at some time.
ListsInv == reads \subseteq Reads /\ \A r \in reads : r.rows = <<>> \/ \E n \in 0..log : r.rows = Latest(n)

\* Each delay, and each source but the first, stems from a failure of its own.
DelaysInv == SumFunctionOnSet(timers, DOMAIN timers) + Len(sources) <= errors + 1

\* Unless a source was closed with two delays running, the current source alone is
\* in use, a closed one has one delay at most, and a page left without a delay has
\* nothing left.
OneInv ==
  ~doubled =>
    /\ \A s \in DOMAIN sources : s # current => sources[s].state = "closed" /\ timers[s] = 0
    /\ sources[current].state = "closed" => timers[current] <= 1
    /\ ~mounted /\ ~leftPending => sources[current].state = "closed" /\ timers[current] = 0

\* A stream sends events in ascending order: what it sends is above what it has
\* sent, and what the API has beyond that is above all of it.
Given(c) == c.seen \cup ToSet(c.batch)
InOrder(c, n) ==
  /\ c.state # "open" => Given(c) = {}
  /\ Given(c) \subseteq 1..n
  /\ Ascends(c.batch)
  /\ \A x \in c.seen, e \in ToSet(c.batch) : x < e
  /\ \A x \in Given(c), e \in Recent(n) \ Given(c) : x < e
SendInv == \A s \in DOMAIN sources : InOrder(sources[s], log)

\* An open stream that has not sent an event may add a copy of it: there are no more
\* copies, made and to come, than streams started and one for the list.
Opened == {s \in DOMAIN sources : sources[s].state = "open"}
MaySend(e) == {s \in Opened : e \notin sources[s].seen}
CopiesInv ==
  /\ streams < Kept
  /\ streams + 1 < Kept =>
       /\ Cardinality(Opened) <= streams
       /\ \A e \in Events : Cardinality(Places(buffer, e)) + Cardinality(MaySend(e)) <= 1 + streams

\* After its last copy in q, or where it was before it was dropped, all events are
\* above x.
HeldFrom(q, x, i) == (IF i = 0 THEN Len(q) = Kept ELSE q[i] = x) /\ \A j \in (i + 1)..Len(q) : q[j] > x
Held(q, x) == \E i \in 0..Len(q) : HeldFrom(q, x, i)

\* The page's stream has brought each event it has sent, or the list has.
BufferInv ==
  mounted /\ ~doubled => \A x \in (Recent(log) \cap sources[current].seen) \ lacking : Held(buffer, x)

HistoryTypes == doubled \in BOOLEAN /\ leftPending \in BOOLEAN
StreamInv ==
  /\ WorldTypes /\ SourceTypes /\ BufferTypes /\ HistoryTypes /\ ListsInv /\ DelaysInv
  /\ OneInv /\ SendInv /\ CopiesInv /\ BufferInv

(***************************************************************************)
(* One source                                                              *)
(***************************************************************************)
LEMMA RecentIs == ASSUME NEW n \in Nat PROVE Recent(n) \subseteq 1..n /\ Recent(n + 1) \subseteq Recent(n) \cup {n + 1}
  BY StreamAssumption DEF Recent

LEMMA NewInOrder ==
  ASSUME NEW n \in Nat, NEW state \in States
  PROVE  /\ NewSource \in Sources /\ InOrder(NewSource, n)
         /\ [NewSource EXCEPT !.state = state] \in Sources /\ InOrder([NewSource EXCEPT !.state = state], n)
  <1>1. \A c : c.batch = <<>> /\ c.seen = {} => InOrder(c, n)
    <2>1. ToSet(<<>>) = {} /\ Ascends(<<>>)
      BY DEF ToSet, Ascends
    <2>. QED
      BY <2>1 DEF InOrder, Given
  <1>2. NewSource \in Sources /\ NewSource.batch = <<>> /\ NewSource.seen = {}
    BY DEF Sources, NewSource, States
  <1>3. PICK c : c = [NewSource EXCEPT !.state = state]
    OBVIOUS
  <1>4. c \in Sources /\ c.batch = <<>> /\ c.seen = {}
    BY <1>2, <1>3 DEF Sources
  <1>. QED
    BY <1>1, <1>2, <1>3, <1>4

\* The order stays when an event is stored: it is above all that was.
LEMMA OrderGrows ==
  ASSUME NEW n \in Nat, NEW c, InOrder(c, n)
  PROVE  InOrder(c, n + 1)
  <1>1. \A x \in Given(c) : x \in 1..n
    BY DEF InOrder
  <1>2. Given(c) \subseteq 1..(n + 1) /\ \A x \in Given(c) : x < n + 1
    BY <1>1
  <1>. QED
    BY <1>2, RecentIs DEF InOrder

\* The order stays when the server reads the events.
LEMMA OrderRead ==
  ASSUME NEW n \in 0..MaxEvents, NEW c \in Sources, InOrder(c, n), c.state = "open", c.batch = <<>>,
         NEW q, q = Among(Latest(n), Events \ c.seen)
  PROVE  [c EXCEPT !.batch = q] \in Sources /\ InOrder([c EXCEPT !.batch = q], n)
  <1>0. MaxEvents \in Nat /\ n \in Nat
    BY StreamAssumption
  <1>1. PICK p \in Seq(Nat) : p = Latest(n) /\ Ascends(p) /\ ToSet(p) = Recent(n)
    <2>1. Latest(n) \in Seq(1..n) /\ 1..n \subseteq Nat
      BY <1>0, LatestIs
    <2>2. Latest(n) \in Seq(Nat)
      BY <2>1, SeqMonotonic
    <2>. QED
      BY <1>0, <2>2, LatestIs
  <1>2. q = Sifted(p, Events \ c.seen)
    BY <1>1 DEF Among, Sifted
  <1>3. q \in Seq(Events \ c.seen)
    BY <1>2, SiftedType
  <1>4. q \in Seq(Events)
    BY <1>3, SeqMonotonic
  <1>5. ToSet(q) = Recent(n) \ c.seen /\ Ascends(q)
    <2>1. ToSet(q) = Recent(n) \cap (Events \ c.seen) /\ Ascends(q)
      BY <1>1, <1>2, SiftedOrder DEF Ascends
    <2>2. Recent(n) \subseteq Events
      BY <1>0, RecentIs DEF Events
    <2>. QED
      BY <2>1, <2>2
  <1>6. PICK d : d = [c EXCEPT !.batch = q]
    OBVIOUS
  <1>7. d \in Sources /\ d.state = "open" /\ d.seen = c.seen /\ d.batch = q
    BY <1>4, <1>6 DEF Sources
  <1>8. Given(c) = c.seen /\ Given(d) = c.seen \cup Recent(n)
    <2>1. ToSet(<<>>) = {}
      BY DEF ToSet
    <2>2. c.seen \cup (Recent(n) \ c.seen) = c.seen \cup Recent(n)
      OBVIOUS
    <2>. QED
      BY <1>5, <1>7, <2>1, <2>2 DEF Given
  <1>9. c.seen \subseteq 1..n /\ \A x \in c.seen, e \in Recent(n) \ c.seen : x < e
    BY <1>8 DEF InOrder
  <1>10. InOrder(d, n)
    BY <1>0, <1>5, <1>7, <1>8, <1>9, RecentIs DEF InOrder
  <1>. QED
    BY <1>6, <1>7, <1>10

\* The order stays when an event is sent, and when the ids are forgotten after it.
LEMMA OrderSent ==
  ASSUME NEW n \in Nat, NEW c \in Sources, InOrder(c, n), c.state = "open", c.batch # <<>>,
         NEW seen, seen = c.seen \cup {Head(c.batch)} \/ (seen = {} /\ Tail(c.batch) = <<>>),
         NEW d, d.state = "open", d.batch = Tail(c.batch), d.seen = seen
  PROVE  /\ InOrder(d, n) /\ Tail(c.batch) \in Seq(Events) /\ seen \subseteq Events
         /\ Head(c.batch) \in Events /\ Head(c.batch) \in 1..n
         /\ \A x \in c.seen : x < Head(c.batch)
  <1>1. PICK q \in Seq(Events) : q = c.batch /\ q # <<>>
    BY DEF Sources
  <1>2. PICK h \in Events : h = Head(q)
    BY <1>1, HeadTailProperties
  <1>3. PICK t \in Seq(Events) : t = Tail(q)
    BY <1>1, HeadTailProperties
  <1>4. ToSet(q) = ToSet(t) \cup {h} /\ \A e \in ToSet(t) : h < e
    <2>1. DOMAIN q = 1..Len(q) /\ DOMAIN t = 1..(Len(q) - 1) /\ q[1] = h /\ Len(q) \in Nat /\ Len(q) > 0
      BY <1>1, <1>2, <1>3
    <2>2. \A i \in DOMAIN t : t[i] = q[i + 1] /\ i + 1 \in DOMAIN q /\ 1 < i + 1
      BY <1>1, <1>3, <2>1
    <2>3. \A i \in DOMAIN q : i = 1 \/ \E j \in DOMAIN t : i = j + 1
      <3>1. \A i \in 1..Len(q) : i = 1 \/ (i - 1 \in 1..(Len(q) - 1) /\ i = (i - 1) + 1)
        BY <2>1
      <3>. QED
        BY <2>1, <3>1
    <2>4. \A i \in DOMAIN t : h < t[i]
      <3>1. 1 \in DOMAIN q
        BY <2>1
      <3>. QED
        BY <1>1, <2>1, <2>2, <3>1 DEF InOrder, Ascends
    <2>5. \A x \in ToSet(q) : x \in ToSet(t) \cup {h}
      BY <2>1, <2>2, <2>3 DEF ToSet
    <2>6. \A x \in ToSet(t) \cup {h} : x \in ToSet(q)
      <3>1. 1 \in DOMAIN q
        BY <2>1
      <3>. QED
        BY <2>1, <2>2, <3>1 DEF ToSet
    <2>. QED
      BY <2>4, <2>5, <2>6 DEF ToSet
  <1>5. Ascends(t)
    <2>1. DOMAIN t = 1..(Len(q) - 1) /\ Len(q) \in Nat /\ DOMAIN q = 1..Len(q)
      BY <1>1, <1>3
    <2>2. \A i \in DOMAIN t : t[i] = q[i + 1] /\ i + 1 \in DOMAIN q
      BY <1>1, <1>3, <2>1
    <2>3. \A i, j \in DOMAIN t : i < j => i + 1 < j + 1
      BY <2>1
    <2>. QED
      BY <1>1, <2>2, <2>3 DEF InOrder, Ascends
  <1>6. d.state = "open" /\ d.batch = t /\ d.seen = seen /\ seen \subseteq Events
    BY <1>1, <1>2, <1>3 DEF Sources
  <1>7. \A x \in c.seen : x < h
    BY <1>1, <1>4 DEF InOrder
  <1>8. CASE seen = c.seen \cup {h}
    <2>1. Given(d) = Given(c)
      BY <1>1, <1>4, <1>6, <1>8 DEF Given
    <2>2. \A x \in d.seen, e \in ToSet(t) : x < e
      BY <1>1, <1>4, <1>6, <1>8 DEF InOrder
    <2>. QED
      BY <1>1, <1>2, <1>4, <1>5, <1>6, <1>7, <2>1, <2>2 DEF InOrder, Given
  <1>9. CASE seen = {} /\ t = <<>>
    <2>1. Given(d) = {} /\ ToSet(t) = {}
      BY <1>6, <1>9 DEF Given, ToSet
    <2>. QED
      BY <1>1, <1>2, <1>4, <1>5, <1>6, <1>7, <1>9, <2>1 DEF InOrder, Given
  <1>. QED
    BY <1>1, <1>2, <1>3, <1>8, <1>9

(***************************************************************************)
(* The buffer                                                              *)
(***************************************************************************)
LEMMA AppendedIs ==
  ASSUME buffer \in Seq(Events), Len(buffer) <= Kept, NEW d \in Events
  PROVE  \E k \in {0, 1} :
           /\ Appended(d) \in Seq(Events) /\ Len(Appended(d)) = Len(buffer) + 1 - k
           /\ Len(Appended(d)) <= Kept /\ (k = 1 => Len(buffer) = Kept)
           /\ Appended(d)[Len(Appended(d))] = d
           /\ \A i \in 1..(Len(buffer) - k) : Appended(d)[i] = buffer[i + k]
           /\ \A e : Cardinality(Places(Appended(d), e)) <= Cardinality(Places(Append(buffer, d), e))
  <1>0. Kept \in Nat /\ Kept > 0
    BY StreamAssumption
  <1>1. PICK b \in Seq(Events) : b = Append(buffer, d)
    BY AppendProperties
  <1>2. PICK n \in Nat : n = Len(buffer) /\ n <= Kept /\ Len(b) = n + 1 /\ b[n + 1] = d /\ \A i \in 1..n : b[i] = buffer[i]
    BY <1>1, AppendProperties
  <1>3. /\ Cut(b, Kept) \in 0..Len(b) /\ Drop(b, Kept) \in Seq(Events) /\ Len(Drop(b, Kept)) = Len(b) - Cut(b, Kept)
        /\ \A i \in 1..Len(Drop(b, Kept)) : Drop(b, Kept)[i] = b[i + Cut(b, Kept)]
    BY <1>0, DropIs
  <1>4. PICK q : q = Appended(d) /\ q = Drop(b, Kept)
    BY <1>1 DEF Appended
  <1>5. PICK k \in {0, 1} : k = Cut(b, Kept) /\ (k = 1 => n = Kept) /\ (k = 0 => n < Kept)
    BY <1>0, <1>2 DEF Cut
  <1>6. q \in Seq(Events) /\ Len(q) = n + 1 - k /\ \A i \in 1..(n + 1 - k) : q[i] = b[i + k]
    BY <1>2, <1>3, <1>4, <1>5
  <1>7. q[n + 1 - k] = d /\ Len(q) <= Kept
    <2>1. n + 1 - k \in 1..(n + 1 - k) /\ (n + 1 - k) + k = n + 1 /\ n + 1 - k <= Kept
      BY <1>0, <1>2, <1>5
    <2>. QED
      BY <1>2, <1>6, <2>1
  <1>8. ASSUME NEW i \in 1..(n - k) PROVE q[i] = buffer[i + k]
    <2>1. i \in 1..(n + 1 - k) /\ i + k \in 1..n
      BY <1>2, <1>5
    <2>. QED
      BY <1>2, <1>6, <2>1
  <1>9. \A e : Cardinality(Places(q, e)) <= Cardinality(Places(b, e))
    <2>1. k \in Nat /\ Len(q) + k <= Len(b) /\ \A i \in 1..Len(q) : q[i] = b[i + k]
      BY <1>2, <1>5, <1>6
    <2>. QED
      BY <1>6, <2>1, PlacesMove
  <1>10. /\ Appended(d) \in Seq(Events) /\ Len(Appended(d)) = Len(buffer) + 1 - k /\ Len(Appended(d)) <= Kept
         /\ k = 1 => Len(buffer) = Kept
    BY <1>2, <1>4, <1>5, <1>6, <1>7
  <1>11. Appended(d)[Len(Appended(d))] = d
    BY <1>4, <1>6, <1>7
  <1>12. \A i \in 1..(Len(buffer) - k) : Appended(d)[i] = buffer[i + k]
    BY <1>2, <1>4, <1>8
  <1>13. \A e : Cardinality(Places(Appended(d), e)) <= Cardinality(Places(Append(buffer, d), e))
    BY <1>1, <1>4, <1>9
  <1>. QED
    BY <1>10, <1>11, <1>12, <1>13

LEMMA AppendedCopies ==
  ASSUME buffer \in Seq(Events), Len(buffer) <= Kept, NEW d \in Events, NEW e
  PROVE  /\ e = d => Cardinality(Places(Appended(d), e)) <= Cardinality(Places(buffer, e)) + 1
         /\ e # d => Cardinality(Places(Appended(d), e)) <= Cardinality(Places(buffer, e))
  <1>1. Cardinality(Places(Appended(d), e)) <= Cardinality(Places(Append(buffer, d), e))
    BY AppendedIs
  <1>2. /\ e = d => Cardinality(Places(Append(buffer, d), e)) = Cardinality(Places(buffer, e)) + 1
        /\ e # d => Cardinality(Places(Append(buffer, d), e)) = Cardinality(Places(buffer, e))
    BY PlacesAppend
  <1>. QED
    BY <1>1, <1>2

\* The event appended is held, and so is one below it that was.
LEMMA AppendedHeld ==
  ASSUME buffer \in Seq(Events), Len(buffer) <= Kept, NEW d \in Events
  PROVE  Held(Appended(d), d) /\ \A x \in Events : x < d /\ Held(buffer, x) => Held(Appended(d), x)
  <1>0. Kept \in Nat /\ Events \subseteq Nat
    BY StreamAssumption DEF Events
  <1>1a. PICK q : q = Appended(d)
    OBVIOUS
  <1>1. PICK k \in {0, 1} :
          /\ q = Appended(d) /\ q \in Seq(Events) /\ Len(q) = Len(buffer) + 1 - k
          /\ Len(q) <= Kept /\ (k = 1 => Len(buffer) = Kept)
          /\ q[Len(q)] = d /\ \A i \in 1..(Len(buffer) - k) : q[i] = buffer[i + k]
    <2>1. PICK k \in {0, 1} :
            /\ Appended(d) \in Seq(Events) /\ Len(Appended(d)) = Len(buffer) + 1 - k
            /\ Len(Appended(d)) <= Kept /\ (k = 1 => Len(buffer) = Kept)
            /\ Appended(d)[Len(Appended(d))] = d
            /\ \A i \in 1..(Len(buffer) - k) : Appended(d)[i] = buffer[i + k]
      BY AppendedIs
    <2>. QED
      BY <1>1a, <2>1, Zenon
  <1>2. PICK n \in Nat : n = Len(buffer) /\ n <= Kept /\ \A i \in 1..n : buffer[i] \in Nat
    <2>1. Len(buffer) \in Nat /\ \A i \in 1..Len(buffer) : buffer[i] \in Events
      OBVIOUS
    <2>. QED
      BY <1>0, <2>1
  <1>3. PICK m \in Nat : m = Len(q) /\ m = n + 1 - k
    <2>1. Len(q) \in Nat
      BY <1>1
    <2>. QED
      BY <1>1, <1>2, <2>1
  <1>4. m \in 0..m /\ m # 0 /\ (m + 1)..m = {}
    <2>1. CASE k = 0
      BY <1>3, <2>1
    <2>2. CASE k = 1
      <3>1. n > 0
        BY <1>1, <1>2, <2>2, StreamAssumption
      <3>. QED
        BY <1>3, <2>2, <3>1
    <2>. QED
      BY <2>1, <2>2
  <1>5. Held(q, d)
    BY <1>1, <1>3, <1>4 DEF Held, HeldFrom
  <1>6. ASSUME NEW x \in Events, x < d, Held(buffer, x) PROVE Held(q, x)
    <2>1. PICK i \in 0..n : HeldFrom(buffer, x, i)
      BY <1>2, <1>6 DEF Held
    <2>2. \A j \in (i + 1)..n : buffer[j] > x
      BY <1>2, <2>1 DEF HeldFrom
    <2>3. \A l \in Nat : l + k >= i => \A j \in (l + 1)..m : q[j] > x
      <3> SUFFICES ASSUME NEW l \in Nat, l + k >= i, NEW j \in (l + 1)..m PROVE q[j] > x
        OBVIOUS
      <3>1. CASE j = m
        BY <1>0, <1>1, <1>3, <1>6, <3>1
      <3>2. CASE j # m
        <4>1. j \in 1..(n - k) /\ j + k \in (i + 1)..n
          BY <1>1, <1>3, <3>2
        <4>. QED
          BY <1>1, <1>2, <2>2, <4>1
      <3>. QED
        BY <3>1, <3>2
    <2>4. CASE i = 0
      <3>1. n = Kept
        BY <1>2, <2>1, <2>4 DEF HeldFrom
      <3>2. k = 1 /\ m = Kept
        <4>1. m <= Kept /\ m = Kept + 1 - k /\ k \in {0, 1}
          BY <1>1, <1>3, <3>1
        <4>. QED
          BY <1>0, <1>3, <4>1
      <3>3. \A j \in (0 + 1)..m : q[j] > x
        <4>1. 0 \in Nat /\ 0 + k >= i
          BY <2>4
        <4>. QED
          BY <2>3, <4>1
      <3>. QED
        BY <1>3, <3>2, <3>3 DEF Held, HeldFrom
    <2>5. CASE i = 1 /\ k = 1
      <3>1. m = Kept
        BY <1>1, <1>2, <1>3, <2>5
      <3>2. \A j \in (0 + 1)..m : q[j] > x
        BY <2>3, <2>5
      <3>. QED
        BY <1>3, <3>1, <3>2 DEF Held, HeldFrom
    <2>6. CASE i # 0 /\ ~(i = 1 /\ k = 1)
      <3>1. PICK l \in 1..(n - k) : i = l + k
        <4>1. i - k \in 1..(n - k) /\ i = (i - k) + k
          BY <1>1, <2>6
        <4>. QED
          BY <4>1
      <3>2. q[l] = x
        BY <1>1, <1>2, <2>1, <2>6, <3>1 DEF HeldFrom
      <3>3. \A j \in (l + 1)..m : q[j] > x
        BY <1>1, <2>3, <3>1
      <3>4. l \in 0..m /\ l # 0
        BY <1>3, <3>1
      <3>. QED
        BY <1>3, <3>2, <3>3, <3>4 DEF Held, HeldFrom
    <2>. QED
      BY <2>4, <2>5, <2>6
  <1>. QED
    BY <1>1, <1>5, <1>6

\* A list that lands fits the buffer, and shows each of its events once.
LEMMA ListHeld ==
  ASSUME NEW n \in Nat, NEW q, q = <<>> \/ q = Latest(n)
  PROVE  /\ q \in Seq(1..n) /\ Drop(q, Kept) = q /\ Len(q) <= Kept
         /\ \A e : Cardinality(Places(q, e)) <= 1
         /\ \A x \in ToSet(q) : Held(q, x)
  <1>0. Window \in Nat /\ Kept \in Nat /\ Window <= Kept
    BY StreamAssumption
  <1>1. q \in Seq(1..n) /\ Len(q) <= Window /\ Ascends(q)
    <2>1. CASE q = <<>>
      BY <1>0, <2>1 DEF Ascends
    <2>2. CASE q = Latest(n)
      BY <2>2, LatestIs
    <2>. QED
      BY <2>1, <2>2
  <1>2. Len(q) <= Kept
    BY <1>0, <1>1
  <1>3. q \in Seq(Nat)
    <2>1. 1..n \subseteq Nat
      OBVIOUS
    <2>. QED
      BY <1>1, <2>1, SeqMonotonic
  <1>4. ASSUME NEW x \in ToSet(q) PROVE Held(q, x)
    <2>1. PICK i \in 1..Len(q) : q[i] = x
      BY <1>3 DEF ToSet
    <2>2. i \in 0..Len(q) /\ i # 0 /\ \A j \in (i + 1)..Len(q) : j \in DOMAIN q /\ i \in DOMAIN q /\ i < j /\ q[j] \in Nat /\ q[i] \in Nat
      BY <1>3
    <2>3. \A j \in (i + 1)..Len(q) : q[j] > x
      BY <1>1, <2>1, <2>2 DEF Ascends
    <2>. QED
      BY <2>1, <2>2, <2>3 DEF Held, HeldFrom
  <1>5. Drop(q, Kept) = q
    BY <1>2 DEF Drop
  <1>. QED
    BY <1>1, <1>2, <1>3, <1>4, <1>5, PlacesOnce

(***************************************************************************)
(* Copies made and copies to come                                          *)
(***************************************************************************)
LEMMA OpenedType ==
  ASSUME SourceTypes
  PROVE  /\ IsFiniteSet(Opened) /\ Cardinality(Opened) \in Nat
         /\ \A e : IsFiniteSet(MaySend(e)) /\ Cardinality(MaySend(e)) \in Nat /\ Cardinality(MaySend(e)) <= Cardinality(Opened)
  <1>1. IsFiniteSet(DOMAIN sources)
    <2>1. DOMAIN sources = 1..Len(sources) /\ Len(sources) \in Nat
      BY DEF SourceTypes
    <2>. QED
      BY <2>1, FS_Interval
  <1>2. IsFiniteSet(Opened)
    BY <1>1, FS_Subset DEF Opened
  <1>3. \A e : MaySend(e) \in SUBSET Opened
    BY DEF MaySend
  <1>. QED
    BY <1>2, <1>3, FS_Subset, FS_CardinalityType

\* A set within another one, or within it and an element more, or less an element.
LEMMA CountsWithin ==
  ASSUME NEW M, IsFiniteSet(M), NEW R
  PROVE  /\ R \subseteq M => Cardinality(R) \in Nat /\ Cardinality(R) <= Cardinality(M)
         /\ \A s : R \subseteq M \cup {s} => Cardinality(R) \in Nat /\ Cardinality(R) <= Cardinality(M) + 1
         /\ \A s \in M : R \subseteq M \ {s} => Cardinality(R) \in Nat /\ Cardinality(R) + 1 <= Cardinality(M)
  <1>1. Cardinality(M) \in Nat
    BY FS_CardinalityType
  <1>2. ASSUME R \subseteq M PROVE Cardinality(R) \in Nat /\ Cardinality(R) <= Cardinality(M)
    BY <1>2, FS_Subset, FS_CardinalityType
  <1>3. ASSUME NEW s, R \subseteq M \cup {s} PROVE Cardinality(R) \in Nat /\ Cardinality(R) <= Cardinality(M) + 1
    <2>1. IsFiniteSet(M \cup {s})
      BY FS_AddElement
    <2>2. Cardinality(M \cup {s}) = Cardinality(M) \/ Cardinality(M \cup {s}) = Cardinality(M) + 1
      BY FS_AddElement, Zenon
    <2>3. Cardinality(R) \in Nat /\ Cardinality(R) <= Cardinality(M \cup {s})
      BY <1>3, <2>1, FS_Subset, FS_CardinalityType
    <2>. QED
      BY <1>1, <2>2, <2>3
  <1>4. ASSUME NEW s \in M, R \subseteq M \ {s} PROVE Cardinality(R) \in Nat /\ Cardinality(R) + 1 <= Cardinality(M)
    <2>1. IsFiniteSet(M \ {s}) /\ Cardinality(M \ {s}) = Cardinality(M) - 1
      BY FS_RemoveElement
    <2>2. Cardinality(R) \in Nat /\ Cardinality(R) <= Cardinality(M \ {s})
      BY <1>4, <2>1, FS_Subset, FS_CardinalityType
    <2>. QED
      BY <1>1, <2>1, <2>2
  <1>. QED
    BY <1>2, <1>3, <1>4

\* A copy that was to come is made, or nothing is added.
LEMMA CopiesMade ==
  ASSUME SourceTypes, BufferTypes, buffer' \in Seq(Events), CopiesInv, streams' = streams, Opened' \subseteq Opened,
         \A e \in Events :
           \/ Cardinality(Places(buffer', e)) <= Cardinality(Places(buffer, e)) /\ MaySend(e)' \subseteq MaySend(e)
           \/ /\ Cardinality(Places(buffer', e)) <= Cardinality(Places(buffer, e)) + 1
              /\ \E s \in MaySend(e) : MaySend(e)' \subseteq MaySend(e) \ {s}
  PROVE  CopiesInv'
  <1>1. PICK O : O = Opened' /\ O \subseteq Opened
    OBVIOUS
  <1>2. Cardinality(O) \in Nat /\ Cardinality(O) <= Cardinality(Opened) /\ Cardinality(Opened) \in Nat
    BY <1>1, OpenedType, CountsWithin
  <1>3. streams \in Nat /\ Kept \in Nat
    BY StreamAssumption DEF BufferTypes
  <1>4. ASSUME NEW e \in Events, streams + 1 < Kept
        PROVE  Cardinality(Places(buffer', e)) + Cardinality(MaySend(e)') <= 1 + streams
    <2>1. PICK M : M = MaySend(e)'
      OBVIOUS
    <2>2. IsFiniteSet(MaySend(e)) /\ Cardinality(MaySend(e)) \in Nat
      BY OpenedType
    <2>3. Cardinality(Places(buffer', e)) \in Nat /\ Cardinality(Places(buffer, e)) \in Nat
      BY PlacesType DEF BufferTypes
    <2>4. Cardinality(Places(buffer, e)) + Cardinality(MaySend(e)) <= 1 + streams
      BY <1>4 DEF CopiesInv
    <2>5. CASE Cardinality(Places(buffer', e)) <= Cardinality(Places(buffer, e)) /\ M \subseteq MaySend(e)
      <3>1. Cardinality(M) \in Nat /\ Cardinality(M) <= Cardinality(MaySend(e))
        BY <2>2, <2>5, CountsWithin
      <3>2. Cardinality(Places(buffer', e)) + Cardinality(M) <= 1 + streams
        BY <1>3, <2>2, <2>3, <2>4, <2>5, <3>1
      <3>. QED
        BY <2>1, <3>2
    <2>6. CASE /\ Cardinality(Places(buffer', e)) <= Cardinality(Places(buffer, e)) + 1
               /\ \E s \in MaySend(e) : M \subseteq MaySend(e) \ {s}
      <3>1. Cardinality(M) \in Nat /\ Cardinality(M) + 1 <= Cardinality(MaySend(e))
        BY <2>2, <2>6, CountsWithin
      <3>2. Cardinality(Places(buffer', e)) + Cardinality(M) <= 1 + streams
        BY <1>3, <2>2, <2>3, <2>4, <2>6, <3>1
      <3>. QED
        BY <2>1, <3>2
    <2>. QED
      BY <2>1, <2>5, <2>6
  <1>5. streams + 1 < Kept => Cardinality(O) <= streams
    BY <1>2, <1>3 DEF CopiesInv
  <1>6. streams < Kept
    BY DEF CopiesInv
  <1>. QED
    BY <1>1, <1>4, <1>5, <1>6 DEF CopiesInv

\* A stream more may add a copy of each event.
LEMMA CopiesMore ==
  ASSUME SourceTypes, BufferTypes, buffer' \in Seq(Events), CopiesInv, streams' = OneMore, NEW s, Opened' \subseteq Opened \cup {s},
         \A e \in Events :
           \/ Cardinality(Places(buffer', e)) <= Cardinality(Places(buffer, e)) /\ MaySend(e)' \subseteq MaySend(e) \cup {s}
           \/ Cardinality(Places(buffer', e)) <= Cardinality(Places(buffer, e)) + 1 /\ MaySend(e)' \subseteq MaySend(e)
  PROVE  CopiesInv'
  <1>1. PICK O : O = Opened' /\ O \subseteq Opened \cup {s}
    OBVIOUS
  <1>2. Cardinality(O) \in Nat /\ Cardinality(O) <= Cardinality(Opened) + 1 /\ Cardinality(Opened) \in Nat
    BY <1>1, OpenedType, CountsWithin
  <1>3. streams \in Nat /\ Kept \in Nat /\ streams < Kept
    BY StreamAssumption DEF BufferTypes, CopiesInv
  <1>4. PICK n \in Nat : n = streams' /\ n < Kept /\ (n + 1 < Kept => n = streams + 1 /\ streams + 1 < Kept)
    BY <1>3 DEF OneMore
  <1>5. ASSUME NEW e \in Events, n + 1 < Kept
        PROVE  Cardinality(Places(buffer', e)) + Cardinality(MaySend(e)') <= 1 + n
    <2>1. PICK M : M = MaySend(e)'
      OBVIOUS
    <2>2. IsFiniteSet(MaySend(e)) /\ Cardinality(MaySend(e)) \in Nat
      BY OpenedType
    <2>3. Cardinality(Places(buffer', e)) \in Nat /\ Cardinality(Places(buffer, e)) \in Nat
      BY PlacesType DEF BufferTypes
    <2>4. Cardinality(Places(buffer, e)) + Cardinality(MaySend(e)) <= 1 + streams /\ n = streams + 1
      BY <1>4, <1>5 DEF CopiesInv
    <2>5. CASE Cardinality(Places(buffer', e)) <= Cardinality(Places(buffer, e)) /\ M \subseteq MaySend(e) \cup {s}
      <3>1. Cardinality(M) \in Nat /\ Cardinality(M) <= Cardinality(MaySend(e)) + 1
        BY <2>2, <2>5, CountsWithin
      <3>2. Cardinality(Places(buffer', e)) + Cardinality(M) <= 1 + n
        BY <1>3, <2>2, <2>3, <2>4, <2>5, <3>1
      <3>. QED
        BY <2>1, <3>2
    <2>6. CASE Cardinality(Places(buffer', e)) <= Cardinality(Places(buffer, e)) + 1 /\ M \subseteq MaySend(e)
      <3>1. Cardinality(M) \in Nat /\ Cardinality(M) <= Cardinality(MaySend(e))
        BY <2>2, <2>6, CountsWithin
      <3>2. Cardinality(Places(buffer', e)) + Cardinality(M) <= 1 + n
        BY <1>3, <2>2, <2>3, <2>4, <2>6, <3>1
      <3>. QED
        BY <2>1, <3>2
    <2>. QED
      BY <2>1, <2>5, <2>6
  <1>6. n + 1 < Kept => Cardinality(O) <= n
    BY <1>2, <1>3, <1>4 DEF CopiesInv
  <1>. QED
    BY <1>1, <1>4, <1>5, <1>6 DEF CopiesInv

(***************************************************************************)
(* Steps                                                                   *)
(***************************************************************************)

\* What changes one source leaves the others alone.
LEMMA SourcePut ==
  ASSUME sources \in Seq(Sources), NEW s \in DOMAIN sources, NEW c \in Sources, sources' = [sources EXCEPT ![s] = c]
  PROVE  /\ sources' \in Seq(Sources) /\ Len(sources') = Len(sources) /\ DOMAIN sources' = DOMAIN sources
         /\ sources'[s] = c /\ \A t \in DOMAIN sources : t # s => sources'[t] = sources[t]
  <1>1. PICK q : q = sources' /\ q = [sources EXCEPT ![s] = c]
    OBVIOUS
  <1>2. q \in Seq(Sources) /\ Len(q) = Len(sources) /\ DOMAIN q = DOMAIN sources
    BY <1>1
  <1>3. q[s] = c /\ \A t \in DOMAIN sources : t # s => q[t] = sources[t]
    BY <1>1
  <1>. QED
    BY <1>1, <1>2, <1>3

LEMMA OrderPut ==
  ASSUME SourceTypes, SendInv, NEW s \in DOMAIN sources, NEW c \in Sources, sources' = [sources EXCEPT ![s] = c],
         log' = log, InOrder(c, log)
  PROVE  SendInv'
  BY SourcePut DEF SendInv, SourceTypes

timeline == <<log, sources, timers, current, mounted, buffer, streams, lacking, doubled, leftPending>>

\* What does not touch the sources and the buffer leaves their invariants alone.
LEMMA Frame ==
  ASSUME StreamInv, UNCHANGED timeline
  PROVE  /\ SourceTypes' /\ BufferTypes' /\ HistoryTypes' /\ OneInv' /\ SendInv' /\ CopiesInv' /\ BufferInv'
         /\ (errors' = errors => DelaysInv')
  <1> USE DEF timeline
  <1>1. SourceTypes' /\ BufferTypes' /\ HistoryTypes'
    BY DEF StreamInv, SourceTypes, BufferTypes, HistoryTypes
  <1>2. OneInv'
    BY DEF StreamInv, OneInv
  <1>3. SendInv'
    BY DEF StreamInv, SendInv
  <1>4. CopiesInv'
    BY DEF StreamInv, CopiesInv, Opened, MaySend
  <1>5. BufferInv'
    BY DEF StreamInv, BufferInv
  <1>6. errors' = errors => DelaysInv'
    BY DEF StreamInv, DelaysInv
  <1>. QED
    BY <1>1, <1>2, <1>3, <1>4, <1>5, <1>6

Aside == Reachable \/ Tick \/ Refresh \/ Render \/ \E r \in reads : AnswerList(r)

LEMMA AsideStep ==
  ASSUME StreamInv, Aside \/ UNCHANGED streamVars
  PROVE  StreamInv'
  <1>1. UNCHANGED timeline /\ errors' = errors
    BY DEF Aside, Reachable, Tick, Refresh, Render, AnswerList, connection, history, timeline, streamVars
  <1>2. WorldTypes'
    <2>0. Period \in Nat /\ MaxReads \in Nat /\ MaxErrors \in Nat /\ MaxRenders \in Nat /\ WorldTypes
      BY StreamAssumption DEF StreamInv
    <2>1. CASE Reachable
      BY <2>0, <2>1 DEF WorldTypes, Reachable, connection, history
    <2>2. CASE Tick
      BY <2>0, <2>2 DEF WorldTypes, Tick, connection, history, Off
    <2>3. CASE Refresh
      BY <2>0, <2>3 DEF WorldTypes, Refresh, connection, history, Off
    <2>4. CASE Render
      <3>1. wait' \in 0..Off
        BY <2>0, <2>4 DEF Render, RenderedWait, Rearm, Off
      <3>2. renders' \in 0..MaxRenders
        BY <2>0, <2>4 DEF WorldTypes, Render
      <3>. QED
        BY <2>0, <2>4, <3>1, <3>2 DEF WorldTypes, Render, connection, history
    <2>5. CASE \E r \in reads : AnswerList(r)
      BY <2>0, <2>5 DEF WorldTypes, AnswerList, connection, history
    <2>6. CASE UNCHANGED streamVars
      BY <2>0, <2>6 DEF WorldTypes, streamVars
    <2>. QED
      BY <2>1, <2>2, <2>3, <2>4, <2>5, <2>6 DEF Aside
  <1>3. ListsInv'
    <2>1. CASE reads' = reads
      BY <1>1, <2>1 DEF StreamInv, ListsInv, timeline
    <2>2. CASE Refresh
      <3>1. Sent \in Reads /\ Sent.rows = <<>>
        <4>1. issued + 1 \in 1..MaxReads
          BY <2>2, StreamAssumption DEF Refresh, StreamInv, WorldTypes
        <4>. QED
          BY <4>1 DEF Sent, Reads
      <3>. QED
        BY <1>1, <2>2, <3>1 DEF StreamInv, ListsInv, Refresh, timeline
    <2>3. ASSUME NEW r \in reads, AnswerList(r) PROVE ListsInv'
      <3>1. PICK got \in {<<>>} \cup {GetEvents} :
              reads' = (reads \ {r}) \cup {[r EXCEPT !.state = "answered", !.rows = got]}
        BY <2>3 DEF AnswerList
      <3>2. r \in Reads /\ log \in 0..MaxEvents /\ log \in Nat
        BY StreamAssumption DEF StreamInv, ListsInv, WorldTypes
      <3>3. got \in Seq(Events) /\ (got = <<>> \/ got = Latest(log))
        <4>1. Latest(log) \in Seq(1..log) /\ 1..log \subseteq Events
          BY <3>2, LatestIs, StreamAssumption DEF Events
        <4>2. Latest(log) \in Seq(Events)
          BY <4>1, SeqMonotonic
        <4>3. <<>> \in Seq(Events)
          OBVIOUS
        <4>. QED
          BY <3>1, <4>2, <4>3 DEF GetEvents
      <3>4. PICK a : a = [r EXCEPT !.state = "answered", !.rows = got]
        OBVIOUS
      <3>5. a \in Reads /\ a.rows = got
        BY <3>2, <3>3, <3>4 DEF Reads
      <3>6. log \in 0..log
        BY <3>2
      <3>. QED
        BY <1>1, <3>1, <3>3, <3>4, <3>5, <3>6 DEF StreamInv, ListsInv, timeline
    <2>. QED
      BY <2>1, <2>2, <2>3 DEF Aside, Reachable, Tick, Render, streamVars
  <1>. QED
    BY <1>1, <1>2, <1>3, Frame DEF StreamInv

LEMMA AppendStep ==
  ASSUME StreamInv, Append1
  PROVE  StreamInv'
  <1> USE DEF connection, history
  <1>1. log \in Nat /\ log' = log + 1 /\ log' \in 0..MaxEvents
    BY StreamAssumption DEF Append1, StreamInv, WorldTypes
  <1>2. UNCHANGED <<up, sources, timers, current, connected, mounted, buffer, reads, issued, wait, errors, renders,
                    streams, lacking, doubled, leftPending>>
    BY DEF Append1
  <1>3. WorldTypes' /\ SourceTypes' /\ HistoryTypes'
    BY <1>1, <1>2 DEF StreamInv, WorldTypes, SourceTypes, HistoryTypes
  <1>4. BufferTypes'
    <2>1. 1..log \subseteq 1..(log + 1)
      BY <1>1
    <2>. QED
      BY <1>1, <1>2, <2>1 DEF StreamInv, BufferTypes
  <1>5. ListsInv'
    <2>1. \A n \in 0..log : n \in 0..(log + 1)
      BY <1>1
    <2>. QED
      BY <1>1, <1>2, <2>1 DEF StreamInv, ListsInv
  <1>6. DelaysInv'
    BY <1>2 DEF StreamInv, DelaysInv
  <1>7. OneInv'
    BY <1>2 DEF StreamInv, OneInv
  <1>8. SendInv'
    BY <1>1, <1>2, OrderGrows DEF StreamInv, SendInv
  <1>9. CopiesInv'
    BY <1>2 DEF StreamInv, CopiesInv, Opened, MaySend
  <1>10. BufferInv'
    <2>1. sources[current].seen \subseteq 1..log
      BY DEF StreamInv, SendInv, SourceTypes, InOrder, Given
    <2>2. log + 1 \notin sources[current].seen
      BY <1>1, <2>1
    <2>3. Recent(log') \cap sources[current].seen \subseteq Recent(log)
      BY <1>1, <2>2, RecentIs
    <2>. QED
      BY <1>2, <2>3 DEF StreamInv, BufferInv
  <1>. QED
    BY <1>3, <1>4, <1>5, <1>6, <1>7, <1>8, <1>9, <1>10 DEF StreamInv

LEMMA RoundStep ==
  ASSUME StreamInv, NEW s \in DOMAIN sources, ServerRound(s)
  PROVE  StreamInv'
  <1> USE DEF history
  <1>1. sources[s].state = "open" /\ sources[s].batch = <<>> /\ sources' = [sources EXCEPT ![s].batch = Unseen(s)]
    BY DEF ServerRound
  <1>2. UNCHANGED <<log, up, timers, current, connected, mounted, buffer, reads, issued, wait, errors, renders,
                    streams, lacking, doubled, leftPending>>
    BY DEF ServerRound
  <1>3. PICK c : c = [sources[s] EXCEPT !.batch = Unseen(s)] /\ sources' = [sources EXCEPT ![s] = c]
    BY <1>1
  <1>4. SourceTypes /\ sources[s] \in Sources /\ log \in 0..MaxEvents /\ InOrder(sources[s], log)
    BY DEF StreamInv, SourceTypes, WorldTypes, SendInv
  <1>5. c \in Sources /\ InOrder(c, log)
    <2>1. Unseen(s) = Among(Latest(log), Events \ sources[s].seen)
      BY DEF Unseen, GetEvents
    <2>. QED
      BY <1>1, <1>3, <1>4, <2>1, OrderRead
  <1>6. c.state = "open" /\ c.seen = sources[s].seen
    BY <1>1, <1>3, <1>4 DEF Sources
  <1>7. /\ sources' \in Seq(Sources) /\ Len(sources') = Len(sources) /\ DOMAIN sources' = DOMAIN sources
        /\ sources'[s] = c /\ \A t \in DOMAIN sources : t # s => sources'[t] = sources[t]
    BY <1>3, <1>4, <1>5, SourcePut DEF SourceTypes
  <1>8. \A t \in DOMAIN sources : sources'[t].state = sources[t].state /\ sources'[t].seen = sources[t].seen
    BY <1>1, <1>6, <1>7
  <1>9. WorldTypes' /\ SourceTypes' /\ HistoryTypes' /\ BufferTypes' /\ ListsInv' /\ DelaysInv'
    BY <1>2, <1>7 DEF StreamInv, WorldTypes, SourceTypes, HistoryTypes, BufferTypes, ListsInv, DelaysInv
  <1>10. current \in DOMAIN sources
    BY <1>4 DEF SourceTypes
  <1>11. OneInv'
    BY <1>2, <1>7, <1>8, <1>10 DEF StreamInv, OneInv
  <1>12. SendInv'
    BY <1>2, <1>3, <1>4, <1>5, OrderPut DEF StreamInv
  <1>13. CopiesInv'
    <2>1. Opened' = Opened
      BY <1>7, <1>8 DEF Opened
    <2>2. \A e : MaySend(e)' = MaySend(e)
      BY <1>8, <2>1 DEF MaySend, Opened
    <2>. QED
      BY <1>2, <2>1, <2>2 DEF StreamInv, CopiesInv
  <1>14. BufferInv'
    BY <1>2, <1>8, <1>10 DEF StreamInv, BufferInv
  <1>. QED
    BY <1>9, <1>11, <1>12, <1>13, <1>14 DEF StreamInv

LEMMA AcceptStep ==
  ASSUME StreamInv, NEW s \in DOMAIN sources, Accept(s)
  PROVE  StreamInv'
  <1>1. sources[s].state = "connecting"
        /\ sources' = [sources EXCEPT ![s] = [NewSource EXCEPT !.state = "open"]]
        /\ connected' = (IF mounted THEN TRUE ELSE connected) /\ wait' = (IF mounted THEN Off ELSE wait) /\ streams' = OneMore
    BY DEF Accept
  <1>2. UNCHANGED <<log, up, timers, current, mounted, buffer, reads, issued, errors, renders, lacking, doubled, leftPending>>
    BY DEF Accept
  <1>3. PICK c : c = [NewSource EXCEPT !.state = "open"] /\ sources' = [sources EXCEPT ![s] = c]
    BY <1>1
  <1>4. SourceTypes /\ BufferTypes /\ log \in Nat /\ CopiesInv /\ SendInv
    BY StreamAssumption DEF StreamInv, WorldTypes
  <1>5. c \in Sources /\ InOrder(c, log) /\ c.state = "open" /\ c.seen = {}
    <2>1. "open" \in States
      BY DEF States
    <2>2. NewSource \in Sources /\ NewSource.seen = {}
      BY <1>4, <2>1, NewInOrder DEF NewSource
    <2>3. c \in Sources /\ InOrder(c, log)
      BY <1>3, <1>4, <2>1, NewInOrder
    <2>. QED
      BY <1>3, <2>2, <2>3 DEF Sources
  <1>6. /\ sources' \in Seq(Sources) /\ Len(sources') = Len(sources) /\ DOMAIN sources' = DOMAIN sources
        /\ sources'[s] = c /\ \A t \in DOMAIN sources : t # s => sources'[t] = sources[t]
    BY <1>3, <1>4, <1>5, SourcePut DEF SourceTypes
  <1>7. WorldTypes'
    <2>1. Off \in 0..Off
      BY StreamAssumption DEF Off
    <2>. QED
      BY <1>1, <1>2, <2>1 DEF StreamInv, WorldTypes
  <1>8. SourceTypes' /\ HistoryTypes' /\ ListsInv' /\ DelaysInv'
    BY <1>2, <1>6 DEF StreamInv, SourceTypes, HistoryTypes, ListsInv, DelaysInv
  <1>9. BufferTypes'
    <2>1. streams' \in Nat
      BY <1>1, <1>4 DEF OneMore, BufferTypes
    <2>. QED
      BY <1>2, <1>4, <2>1 DEF BufferTypes
  <1>10. current \in DOMAIN sources
    BY <1>4 DEF SourceTypes
  <1>11. OneInv'
    BY <1>1, <1>2, <1>5, <1>6, <1>10 DEF StreamInv, OneInv
  <1>12. SendInv'
    BY <1>2, <1>3, <1>4, <1>5, OrderPut
  <1>13. CopiesInv'
    <2>1. Opened' \subseteq Opened \cup {s}
      BY <1>6 DEF Opened
    <2>2. \A e : MaySend(e)' \subseteq MaySend(e) \cup {s}
      BY <1>6 DEF MaySend, Opened
    <2>3. buffer' \in Seq(Events) /\ \A e \in Events : Cardinality(Places(buffer', e)) <= Cardinality(Places(buffer, e))
      <3>1. buffer' = buffer /\ buffer \in Seq(Events) /\ \A e : Cardinality(Places(buffer, e)) \in Nat
        BY <1>2, <1>4, PlacesType DEF BufferTypes
      <3>. QED
        BY <3>1
    <2>. QED
      BY <1>1, <1>4, <2>1, <2>2, <2>3, CopiesMore
  <1>14. BufferInv'
    <2>1. CASE s = current
      BY <1>2, <1>5, <1>6, <2>1 DEF BufferInv
    <2>2. CASE s # current
      BY <1>2, <1>6, <1>10, <2>2 DEF StreamInv, BufferInv
    <2>. QED
      BY <2>1, <2>2
  <1>. QED
    BY <1>7, <1>8, <1>9, <1>11, <1>12, <1>13, <1>14 DEF StreamInv

LEMMA DeliverStep ==
  ASSUME StreamInv, NEW s \in DOMAIN sources, Deliver(s)
  PROVE  StreamInv'
  <1>1. PICK e, now :
          /\ e = Head(sources[s].batch) /\ buffer' = Appended(e) /\ lacking' = lacking \ {e}
          /\ sources' = [sources EXCEPT ![s].batch = Tail(sources[s].batch), ![s].seen = now]
          /\ \/ now = {} /\ Tail(sources[s].batch) = <<>> /\ streams' = OneMore
             \/ now = sources[s].seen \cup {e} /\ streams' = streams
    <2> DEFINE h == Head(sources[s].batch)
               forget == Tail(sources[s].batch) = <<>> /\ Cardinality(sources[s].seen \cup {h}) > SeenLimit
    <2>1. CASE forget
      BY <2>1 DEF Deliver
    <2>2. CASE ~forget
      BY <2>2 DEF Deliver
    <2>. QED
      BY <2>1, <2>2
  <1>2. mounted /\ sources[s].state = "open" /\ sources[s].batch # <<>> /\ wait' = Rearm(connected)
    BY DEF Deliver
  <1>3. UNCHANGED <<log, up, timers, current, connected, mounted, reads, issued, errors, renders, doubled, leftPending>>
    BY DEF Deliver
  <1>4. SourceTypes /\ BufferTypes /\ log \in Nat /\ CopiesInv /\ SendInv /\ sources[s] \in Sources /\ InOrder(sources[s], log)
        /\ OneInv /\ BufferInv
    BY StreamAssumption, SMTT(30) DEF StreamInv, WorldTypes, SourceTypes, SendInv
  <1>6. PICK c : c = [sources[s] EXCEPT !.batch = Tail(sources[s].batch), !.seen = now]
    OBVIOUS
  <1>7. sources' = [sources EXCEPT ![s] = c]
    BY <1>1, <1>6
  <1>8. /\ c \in Sources /\ InOrder(c, log) /\ c.state = "open" /\ c.seen = now
        /\ e \in Events /\ e \in 1..log /\ \A x \in sources[s].seen : x < e
    <2>1. now = sources[s].seen \cup {Head(sources[s].batch)} \/ (now = {} /\ Tail(sources[s].batch) = <<>>)
      BY <1>1
    <2>2. PICK old : old = sources[s]
      OBVIOUS
    <2>3. /\ c \in Sources /\ InOrder(c, log) /\ c.state = "open" /\ c.seen = now
          /\ Head(old.batch) \in Events /\ Head(old.batch) \in 1..log /\ \A x \in old.seen : x < Head(old.batch)
      <3>1. /\ log \in Nat /\ old \in Sources /\ InOrder(old, log) /\ old.state = "open" /\ old.batch # <<>>
            /\ now = old.seen \cup {Head(old.batch)} \/ (now = {} /\ Tail(old.batch) = <<>>)
            /\ c = [old EXCEPT !.batch = Tail(old.batch), !.seen = now]
        BY <1>2, <1>4, <1>6, <2>1, <2>2
      <3>2. c.state = "open" /\ c.batch = Tail(old.batch) /\ c.seen = now
        BY <3>1 DEF Sources
      <3>3. /\ InOrder(c, log) /\ Tail(old.batch) \in Seq(Events) /\ now \subseteq Events
            /\ Head(old.batch) \in Events /\ Head(old.batch) \in 1..log /\ \A x \in old.seen : x < Head(old.batch)
        BY <3>1, <3>2, OrderSent
      <3>4. c \in Sources
        BY <3>1, <3>3 DEF Sources
      <3>. QED
        BY <3>2, <3>3, <3>4
    <2>. QED
      BY <1>1, <2>2, <2>3
  <1>9. /\ sources' \in Seq(Sources) /\ Len(sources') = Len(sources) /\ DOMAIN sources' = DOMAIN sources
        /\ sources'[s] = c /\ \A t \in DOMAIN sources : t # s => sources'[t] = sources[t]
    BY <1>4, <1>7, <1>8, SourcePut DEF SourceTypes
  <1>10. WorldTypes'
    <2>1. Rearm(connected) \in 0..Off
      BY StreamAssumption DEF Off, Rearm
    <2>. QED
      BY <1>2, <1>3, <2>1 DEF StreamInv, WorldTypes
  <1>11. SourceTypes' /\ HistoryTypes' /\ ListsInv' /\ DelaysInv'
    BY <1>3, <1>9 DEF StreamInv, SourceTypes, HistoryTypes, ListsInv, DelaysInv
  <1>12. buffer' \in Seq(Events) /\ Len(buffer') <= Kept /\ ToSet(buffer') \subseteq ToSet(buffer) \cup {e}
    <2>1. PICK q : q = Appended(e)
      OBVIOUS
    <2>2. PICK k \in {0, 1} :
            /\ q \in Seq(Events) /\ Len(q) = Len(buffer) + 1 - k /\ Len(q) <= Kept
            /\ q[Len(q)] = e /\ \A i \in 1..(Len(buffer) - k) : q[i] = buffer[i + k]
      <3>1. PICK k \in {0, 1} :
              /\ Appended(e) \in Seq(Events) /\ Len(Appended(e)) = Len(buffer) + 1 - k /\ Len(Appended(e)) <= Kept
              /\ Appended(e)[Len(Appended(e))] = e /\ \A i \in 1..(Len(buffer) - k) : Appended(e)[i] = buffer[i + k]
        BY <1>4, <1>8, AppendedIs DEF BufferTypes
      <3>. QED
        BY <2>1, <3>1, Zenon
    <2>3. PICK n \in Nat : n = Len(buffer) /\ DOMAIN buffer = 1..n
      BY <1>4 DEF BufferTypes
    <2>4. \A i \in DOMAIN q : i = Len(q) \/ (i \in 1..(n - k) /\ i + k \in DOMAIN buffer)
      BY <2>2, <2>3
    <2>5. ASSUME NEW i \in DOMAIN q PROVE q[i] \in ToSet(buffer) \cup {e}
      BY <2>2, <2>3, <2>4 DEF ToSet
    <2>6. ToSet(q) \subseteq ToSet(buffer) \cup {e}
      BY <2>5 DEF ToSet
    <2>. QED
      BY <1>1, <2>1, <2>2, <2>6
  <1>13. BufferTypes'
    <2>1. streams' \in Nat
      BY <1>1, <1>4 DEF OneMore, BufferTypes
    <2>2. lacking' \subseteq Events
      BY <1>1, <1>4 DEF BufferTypes
    <2>. QED
      BY <1>3, <1>4, <1>8, <1>12, <2>1, <2>2 DEF BufferTypes
  <1>14. current \in DOMAIN sources
    BY <1>4 DEF SourceTypes
  <1>15. OneInv'
    BY <1>2, <1>3, <1>4, <1>8, <1>9, <1>14 DEF OneInv
  <1>16. SendInv'
    BY <1>3, <1>4, <1>7, <1>8, OrderPut
  <1>17. \A x : /\ x = e => Cardinality(Places(buffer', x)) <= Cardinality(Places(buffer, x)) + 1
                /\ x # e => Cardinality(Places(buffer', x)) <= Cardinality(Places(buffer, x))
    BY <1>1, <1>4, <1>8, AppendedCopies DEF BufferTypes
  <1>18. Opened' = Opened /\ s \in Opened
    BY <1>2, <1>8, <1>9 DEF Opened
  <1>19. CopiesInv'
    <2>1. CASE now = {} /\ streams' = OneMore
      <3>1. \A x : MaySend(x)' \subseteq MaySend(x) \cup {s}
        BY <1>8, <1>9, <1>18 DEF MaySend, Opened
      <3>2. MaySend(e)' \subseteq MaySend(e)
        <4>1. e \notin sources[s].seen
          BY <1>4, <1>8 DEF Sources
        <4>. QED
          BY <1>9, <1>18, <4>1 DEF MaySend, Opened
      <3>3. \A x \in Events :
              \/ Cardinality(Places(buffer', x)) <= Cardinality(Places(buffer, x)) /\ MaySend(x)' \subseteq MaySend(x) \cup {s}
              \/ Cardinality(Places(buffer', x)) <= Cardinality(Places(buffer, x)) + 1 /\ MaySend(x)' \subseteq MaySend(x)
        BY <1>17, <3>1, <3>2, Zenon
      <3>. QED
        BY <1>1, <1>4, <1>12, <1>18, <2>1, <3>3, CopiesMore
    <2>2. CASE now = sources[s].seen \cup {e} /\ streams' = streams
      <3>1. \A x : MaySend(x)' \subseteq MaySend(x)
        BY <1>8, <1>9, <1>18, <2>2 DEF MaySend, Opened
      <3>2. s \in MaySend(e) /\ MaySend(e)' \subseteq MaySend(e) \ {s}
        <4>1. \A x \in sources[s].seen : x # e
          <5>1. sources[s].seen \subseteq Nat /\ e \in Nat
            BY <1>4, <1>8, StreamAssumption DEF Sources, Events
          <5>. QED
            BY <1>8, <5>1
        <4>2. s \in MaySend(e)
          BY <1>18, <4>1 DEF MaySend
        <4>3. s \notin MaySend(e)'
          BY <1>8, <1>9, <2>2 DEF MaySend
        <4>. QED
          BY <3>1, <4>2, <4>3
      <3>3. \A x \in Events :
              \/ Cardinality(Places(buffer', x)) <= Cardinality(Places(buffer, x)) /\ MaySend(x)' \subseteq MaySend(x)
              \/ /\ Cardinality(Places(buffer', x)) <= Cardinality(Places(buffer, x)) + 1
                 /\ \E t \in MaySend(x) : MaySend(x)' \subseteq MaySend(x) \ {t}
        BY <1>17, <3>1, <3>2, Zenon
      <3>. QED
        BY <1>1, <1>4, <1>12, <1>18, <2>2, <3>3, CopiesMade
    <2>. QED
      BY <1>1, <2>1, <2>2
  <1>20. BufferInv'
    <2> SUFFICES ASSUME ~doubled, NEW x \in (Recent(log) \cap c.seen) \ lacking' PROVE Held(buffer', x)
      <3>1. CASE doubled
        BY <1>3, <3>1 DEF BufferInv
      <3>2. CASE ~doubled
        <4>1. s = current
          BY <1>2, <1>4, <3>2 DEF OneInv
        <4>2. sources'[current'].seen = c.seen
          BY <1>3, <1>9, <4>1
        <4>. QED
          BY <1>3, <3>2, <4>2 DEF BufferInv
      <3>. QED
        BY <3>1, <3>2
    <2>1. s = current
      BY <1>2, <1>4 DEF OneInv
    <2>2. Held(buffer', e) /\ \A y \in Events : y < e /\ Held(buffer, y) => Held(buffer', y)
      BY <1>1, <1>4, <1>8, AppendedHeld DEF BufferTypes
    <2>3. CASE x = e
      BY <2>2, <2>3
    <2>4. CASE x # e
      <3>1. x \in sources[s].seen
        BY <1>1, <1>8, <2>4
      <3>2. x \notin lacking /\ x \in Events /\ x < e
        BY <1>1, <1>4, <1>8, <2>4, <3>1 DEF Sources
      <3>3. Held(buffer, x)
        BY <1>2, <1>4, <2>1, <3>1, <3>2 DEF BufferInv
      <3>. QED
        BY <2>2, <3>2, <3>3
    <2>. QED
      BY <2>3, <2>4
  <1>. QED
    BY <1>10, <1>11, <1>13, <1>15, <1>16, <1>19, <1>20 DEF StreamInv

\* The delays sum up.
LEMMA DelaysType ==
  ASSUME SourceTypes
  PROVE  /\ DOMAIN timers = DOMAIN sources /\ IsFiniteSet(DOMAIN timers) /\ \A x \in DOMAIN timers : timers[x] \in Nat
         /\ SumFunctionOnSet(timers, DOMAIN timers) \in Nat /\ Len(sources) \in Nat /\ Len(sources) >= 1
         /\ \A x \in DOMAIN timers : timers[x] <= SumFunctionOnSet(timers, DOMAIN timers)
  <1>1. DOMAIN timers = 1..Len(timers) /\ DOMAIN sources = 1..Len(sources) /\ Len(sources) \in Nat /\ Len(sources) >= 1
        /\ Len(timers) = Len(sources) /\ \A x \in DOMAIN timers : timers[x] \in Nat
    BY DEF SourceTypes
  <1>2. IsFiniteSet(DOMAIN timers)
    BY <1>1, FS_Interval
  <1>3. SumFunctionOnSet(timers, DOMAIN timers) \in Nat
    BY <1>1, <1>2, SumType
  <1>4. ASSUME NEW x \in DOMAIN timers PROVE timers[x] <= SumFunctionOnSet(timers, DOMAIN timers)
    <2>1. PICK m \in Nat : m = SumFunctionOnSet(timers, DOMAIN timers \ {x})
      <3>1. IsFiniteSet(DOMAIN timers \ {x}) /\ \A y \in DOMAIN timers \ {x} : timers[y] \in Nat
        BY <1>1, <1>2, FS_Subset
      <3>. QED
        BY <3>1, SumType
    <2>2. SumFunctionOnSet(timers, DOMAIN timers) = timers[x] + m
      BY <1>1, <1>2, <2>1, SumWithout
    <2>. QED
      BY <1>1, <2>1, <2>2
  <1>. QED
    BY <1>1, <1>2, <1>3, <1>4

\* A delay changes, the sum changes with it.
LEMMA DelaySet ==
  ASSUME SourceTypes, NEW s \in DOMAIN sources, NEW d \in Nat, NEW q, q = [timers EXCEPT ![s] = d]
  PROVE  /\ q \in Seq(Nat) /\ Len(q) = Len(timers) /\ DOMAIN q = DOMAIN timers /\ q[s] = d
         /\ \A t \in DOMAIN timers : t # s => q[t] = timers[t]
         /\ SumFunctionOnSet(q, DOMAIN timers) + timers[s] = SumFunctionOnSet(timers, DOMAIN timers) + d
  <1>1. timers \in Seq(Nat) /\ s \in DOMAIN timers
    BY DelaysType DEF SourceTypes
  <1>2. q \in Seq(Nat) /\ Len(q) = Len(timers) /\ DOMAIN q = DOMAIN timers
    BY <1>1
  <1>3. q[s] = d /\ \A t \in DOMAIN timers : t # s => q[t] = timers[t]
    BY <1>1
  <1>4. \A y \in DOMAIN timers : timers[y] \in Nat /\ q[y] \in Nat
    BY <1>1, <1>2
  <1>5. \A y \in DOMAIN timers \ {s} : timers[y] = q[y]
    BY <1>3
  <1>6. SumFunctionOnSet(q, DOMAIN timers) + timers[s] = SumFunctionOnSet(timers, DOMAIN timers) + q[s]
    <2>1. PICK D : D = DOMAIN timers /\ IsFiniteSet(D)
      BY DelaysType
    <2>2. s \in D /\ (\A y \in D : timers[y] \in Nat /\ q[y] \in Nat) /\ \A y \in D \ {s} : timers[y] = q[y]
      BY <1>1, <1>4, <1>5, <2>1
    <2>3. PICK f, g : f = timers /\ g = q
      OBVIOUS
    <2>4. (\A y \in D : f[y] \in Nat /\ g[y] \in Nat) /\ \A y \in D \ {s} : f[y] = g[y]
      BY <2>2, <2>3
    <2>5. s \in D
      BY <2>2
    <2>6. SumFunctionOnSet(g, D) + f[s] = SumFunctionOnSet(f, D) + g[s]
      BY <2>1, <2>4, <2>5, SumChanges
    <2>. QED
      BY <2>1, <2>3, <2>6
  <1>. QED
    BY <1>2, <1>3, <1>6

LEMMA FailStep ==
  ASSUME StreamInv, NEW s \in DOMAIN sources, NEW state \in {"connecting", "closed"}, Fail(s, state)
  PROVE  StreamInv'
  <1>1. /\ errors < MaxErrors /\ errors' = errors + 1 /\ sources[s].state \in {"connecting", "open"}
        /\ sources' = [sources EXCEPT ![s] = [NewSource EXCEPT !.state = state]]
        /\ timers' = [timers EXCEPT ![s] = @ + 1]
        /\ connected' = (IF mounted THEN FALSE ELSE connected) /\ wait' = (IF mounted THEN Rearm(FALSE) ELSE wait)
        /\ doubled' = (doubled \/ (state = "closed" /\ timers[s] > 0))
    BY DEF Fail
  <1>2. UNCHANGED <<log, up, current, mounted, buffer, reads, issued, renders, streams, lacking, leftPending>>
    BY DEF Fail
  <1>3. SourceTypes /\ BufferTypes /\ log \in Nat /\ CopiesInv /\ SendInv /\ OneInv /\ BufferInv /\ DelaysInv
    BY StreamAssumption DEF StreamInv, WorldTypes
  <1>4. PICK c : c = [NewSource EXCEPT !.state = state] /\ sources' = [sources EXCEPT ![s] = c]
    BY <1>1
  <1>5. c \in Sources /\ InOrder(c, log) /\ c.state = state /\ c.seen = {}
    <2>1. state \in States
      BY DEF States
    <2>2. NewSource \in Sources /\ NewSource.seen = {}
      BY <1>3, <2>1, NewInOrder DEF NewSource
    <2>3. c \in Sources /\ InOrder(c, log)
      BY <1>3, <1>4, <2>1, NewInOrder
    <2>. QED
      BY <1>4, <2>2, <2>3 DEF Sources
  <1>6. /\ sources' \in Seq(Sources) /\ Len(sources') = Len(sources) /\ DOMAIN sources' = DOMAIN sources
        /\ sources'[s] = c /\ \A t \in DOMAIN sources : t # s => sources'[t] = sources[t]
    BY <1>3, <1>4, <1>5, SourcePut DEF SourceTypes
  <1>7. timers[s] \in Nat /\ current \in DOMAIN sources /\ current \in 1..Len(sources)
    BY <1>3, DelaysType DEF SourceTypes
  <1>8. /\ timers' \in Seq(Nat) /\ Len(timers') = Len(timers) /\ DOMAIN timers' = DOMAIN timers /\ timers'[s] = timers[s] + 1
        /\ \A t \in DOMAIN timers : t # s => timers'[t] = timers[t]
        /\ SumFunctionOnSet(timers', DOMAIN timers) + timers[s] = SumFunctionOnSet(timers, DOMAIN timers) + (timers[s] + 1)
    <2>1. PICK q : q = timers' /\ q = [timers EXCEPT ![s] = timers[s] + 1]
      BY <1>1
    <2>2. timers[s] + 1 \in Nat
      BY <1>7
    <2>3. /\ q \in Seq(Nat) /\ Len(q) = Len(timers) /\ DOMAIN q = DOMAIN timers /\ q[s] = timers[s] + 1
          /\ \A t \in DOMAIN timers : t # s => q[t] = timers[t]
          /\ SumFunctionOnSet(q, DOMAIN timers) + timers[s] = SumFunctionOnSet(timers, DOMAIN timers) + (timers[s] + 1)
      BY <1>3, <2>1, <2>2, DelaySet, ZenonT(30)
    <2>. QED
      BY <2>1, <2>3
  <1>9. WorldTypes'
    <2>1. Rearm(FALSE) \in 0..Off /\ errors + 1 \in 0..MaxErrors
      BY <1>1, StreamAssumption DEF StreamInv, WorldTypes, Off, Rearm
    <2>. QED
      BY <1>1, <1>2, <2>1 DEF StreamInv, WorldTypes
  <1>10. SourceTypes' /\ ListsInv' /\ BufferTypes'
    BY <1>2, <1>3, <1>6, <1>8 DEF StreamInv, SourceTypes, ListsInv, BufferTypes
  <1>11. HistoryTypes'
    BY <1>1, <1>2 DEF StreamInv, HistoryTypes
  <1>12. DelaysInv'
    <2>1. PICK a \in Nat : a = SumFunctionOnSet(timers, DOMAIN timers) /\ a + Len(sources) <= errors + 1
      BY <1>3, DelaysType DEF DelaysInv
    <2>2. PICK b \in Nat : b = SumFunctionOnSet(timers', DOMAIN timers')
      <3>1. IsFiniteSet(DOMAIN timers') /\ \A x \in DOMAIN timers' : timers'[x] \in Nat
        BY <1>3, <1>8, DelaysType
      <3>. QED
        BY <3>1, SumType
    <2>3. b + timers[s] = a + (timers[s] + 1)
      BY <1>8, <2>1, <2>2
    <2>4. errors \in Nat /\ Len(sources) \in Nat
      BY <1>3, StreamAssumption, DelaysType DEF StreamInv, WorldTypes
    <2>5. b + Len(sources) <= (errors + 1) + 1
      BY <1>7, <2>1, <2>3, <2>4
    <2>. QED
      BY <1>1, <1>6, <2>2, <2>5 DEF DelaysInv
  <1>13. OneInv'
    <2> SUFFICES ASSUME ~doubled' PROVE
          /\ \A t \in DOMAIN sources : t # current => sources'[t].state = "closed" /\ timers'[t] = 0
          /\ sources'[current].state = "closed" => timers'[current] <= 1
          /\ ~mounted /\ ~leftPending => sources'[current].state = "closed" /\ timers'[current] = 0
      BY <1>2, <1>6 DEF OneInv
    <2>1. ~doubled /\ ~(state = "closed" /\ timers[s] > 0)
      BY <1>1
    <2>2. s = current
      BY <1>1, <1>3, <2>1 DEF OneInv
    <2>3. \A t \in DOMAIN sources : t # current => sources'[t].state = "closed" /\ timers'[t] = 0
      BY <1>3, <1>6, <1>8, <2>1, <2>2, DelaysType DEF OneInv
    <2>4. sources'[current].state = "closed" => timers'[current] <= 1
      BY <1>5, <1>6, <1>7, <1>8, <2>1, <2>2
    <2>5. ~(~mounted /\ ~leftPending)
      BY <1>1, <1>3, <2>1, <2>2 DEF OneInv
    <2>. QED
      BY <2>3, <2>4, <2>5
  <1>14. SendInv'
    BY <1>2, <1>3, <1>4, <1>5, OrderPut
  <1>15. CopiesInv'
    <2>1. Opened' \subseteq Opened
      BY <1>5, <1>6 DEF Opened
    <2>2. \A e : MaySend(e)' \subseteq MaySend(e)
      BY <1>5, <1>6 DEF MaySend, Opened
    <2>3. buffer' \in Seq(Events) /\ \A e \in Events : Cardinality(Places(buffer', e)) <= Cardinality(Places(buffer, e))
      <3>1. buffer' = buffer /\ buffer \in Seq(Events) /\ \A e : Cardinality(Places(buffer, e)) \in Nat
        BY <1>2, <1>3, PlacesType DEF BufferTypes
      <3>. QED
        BY <3>1
    <2>. QED
      BY <1>2, <1>3, <2>1, <2>2, <2>3, CopiesMade
  <1>16. BufferInv'
    <2>1. doubled' \/ ~doubled
      BY <1>1
    <2>2. CASE s = current
      BY <1>2, <1>5, <1>6, <2>2 DEF BufferInv
    <2>3. CASE s # current
      BY <1>1, <1>2, <1>3, <1>6, <1>7, <2>1, <2>3 DEF BufferInv
    <2>. QED
      BY <2>2, <2>3
  <1>. QED
    BY <1>9, <1>10, <1>11, <1>12, <1>13, <1>14, <1>15, <1>16 DEF StreamInv

\* A delay ends and the source has not closed.
LEMMA DelayOverStep ==
  ASSUME StreamInv, NEW s \in DOMAIN sources, DelayEnds(s), ~Replaces(s)
  PROVE  StreamInv'
  <1>1. timers[s] > 0 /\ timers' = [timers EXCEPT ![s] = @ - 1] /\ UNCHANGED <<sources, current>>
        /\ sources[s].state # "closed"
    BY DEF DelayEnds, Replaces
  <1>2. UNCHANGED <<log, up, connected, mounted, buffer, reads, issued, wait, errors, renders, streams, lacking, doubled, leftPending>>
    BY DEF DelayEnds, history
  <1>3. SourceTypes /\ OneInv /\ timers[s] \in Nat
    BY DelaysType DEF StreamInv
  <1>4. PICK d \in Nat : d = timers[s] - 1
    BY <1>1, <1>3
  <1>5. /\ timers' \in Seq(Nat) /\ Len(timers') = Len(timers) /\ DOMAIN timers' = DOMAIN timers /\ timers'[s] = d
        /\ \A t \in DOMAIN timers : t # s => timers'[t] = timers[t]
        /\ SumFunctionOnSet(timers', DOMAIN timers) + timers[s] = SumFunctionOnSet(timers, DOMAIN timers) + d
    <2>1. PICK q : q = timers' /\ q = [timers EXCEPT ![s] = d]
      BY <1>1, <1>4
    <2>2. /\ q \in Seq(Nat) /\ Len(q) = Len(timers) /\ DOMAIN q = DOMAIN timers /\ q[s] = d
          /\ \A t \in DOMAIN timers : t # s => q[t] = timers[t]
          /\ SumFunctionOnSet(q, DOMAIN timers) + timers[s] = SumFunctionOnSet(timers, DOMAIN timers) + d
      BY <1>3, <2>1, DelaySet
    <2>. QED
      BY <2>1, <2>2
  <1>6. WorldTypes' /\ SourceTypes' /\ ListsInv' /\ BufferTypes' /\ HistoryTypes'
    BY <1>1, <1>2, <1>5 DEF StreamInv, WorldTypes, SourceTypes, ListsInv, BufferTypes, HistoryTypes
  <1>7. DelaysInv'
    <2>1. PICK a \in Nat : a = SumFunctionOnSet(timers, DOMAIN timers) /\ a + Len(sources) <= errors + 1
      BY <1>3, DelaysType DEF StreamInv, DelaysInv
    <2>2. PICK b \in Nat : b = SumFunctionOnSet(timers', DOMAIN timers')
      <3>1. IsFiniteSet(DOMAIN timers') /\ \A x \in DOMAIN timers' : timers'[x] \in Nat
        BY <1>3, <1>5, DelaysType
      <3>. QED
        BY <3>1, SumType
    <2>3. b + timers[s] = a + d
      BY <1>5, <2>1, <2>2
    <2>4. errors \in Nat /\ Len(sources) \in Nat
      BY <1>3, StreamAssumption, DelaysType DEF StreamInv, WorldTypes
    <2>5. b + Len(sources) <= errors + 1
      BY <1>3, <1>4, <2>1, <2>3, <2>4
    <2>. QED
      BY <1>1, <1>2, <2>2, <2>5 DEF DelaysInv
  <1>8. OneInv'
    <2> SUFFICES ASSUME ~doubled PROVE
          /\ \A t \in DOMAIN sources : t # current => sources[t].state = "closed" /\ timers'[t] = 0
          /\ sources[current].state = "closed" => timers'[current] <= 1
          /\ ~mounted /\ ~leftPending => sources[current].state = "closed" /\ timers'[current] = 0
      BY <1>1, <1>2 DEF OneInv
    <2>1. s = current
      BY <1>1, <1>3 DEF OneInv
    <2>2. \A t \in DOMAIN sources : t # current => sources[t].state = "closed" /\ timers'[t] = 0
      BY <1>3, <1>5, <2>1, DelaysType DEF OneInv
    <2>. QED
      BY <1>1, <1>3, <2>1, <2>2 DEF OneInv
  <1>9. SendInv' /\ BufferInv'
    BY <1>1, <1>2 DEF StreamInv, SendInv, BufferInv
  <1>10. CopiesInv'
    BY <1>1, <1>2 DEF StreamInv, CopiesInv, Opened, MaySend
  <1>. QED
    BY <1>6, <1>7, <1>8, <1>9, <1>10 DEF StreamInv

\* A delay ends and a new source takes the place of the closed one.
LEMMA ReplaceStep ==
  ASSUME StreamInv, NEW s \in DOMAIN sources, DelayEnds(s), Replaces(s)
  PROVE  StreamInv'
  <1>1. timers[s] > 0 /\ sources' = Append(sources, NewSource) /\ timers' = Append([timers EXCEPT ![s] = @ - 1], 0)
        /\ current' = Len(sources') /\ sources[s].state = "closed"
    BY DEF DelayEnds, Replaces
  <1>2. UNCHANGED <<log, up, connected, mounted, buffer, reads, issued, wait, errors, renders, streams, lacking, doubled, leftPending>>
    BY DEF DelayEnds, history
  <1>3. SourceTypes /\ BufferTypes /\ OneInv /\ SendInv /\ CopiesInv /\ timers[s] \in Nat /\ log \in Nat
    BY DelaysType, StreamAssumption DEF StreamInv, WorldTypes
  <1>4. PICK d \in Nat : d = timers[s] - 1
    BY <1>1, <1>3
  <1>5. PICK n \in Nat : n = Len(sources) /\ n = Len(timers) /\ DOMAIN sources = 1..n /\ DOMAIN timers = 1..n /\ n >= 1
                         /\ current \in 1..n
    <2>1. Len(sources) \in Nat /\ Len(sources) >= 1
      BY <1>3, DelaysType
    <2>2. DOMAIN sources = 1..Len(sources) /\ DOMAIN timers = 1..Len(timers) /\ Len(timers) = Len(sources)
          /\ current \in 1..Len(sources)
      BY <1>3 DEF SourceTypes
    <2>. QED
      BY <2>1, <2>2
  <1>6. NewSource \in Sources /\ InOrder(NewSource, log) /\ NewSource.state = "connecting" /\ NewSource.seen = {}
    <2>1. "open" \in States
      BY DEF States
    <2>2. NewSource.state = "connecting" /\ NewSource.seen = {}
      BY DEF NewSource
    <2>. QED
      BY <1>3, <2>1, <2>2, NewInOrder
  <1>7. /\ sources' \in Seq(Sources) /\ Len(sources') = n + 1 /\ DOMAIN sources' = 1..(n + 1)
        /\ sources'[n + 1] = NewSource /\ \A t \in 1..n : sources'[t] = sources[t]
    <2>1. sources \in Seq(Sources)
      BY <1>3 DEF SourceTypes
    <2>. QED
      BY <1>1, <1>5, <1>6, <2>1, AppendProperties
  <1>8. PICK q : /\ timers' = Append(q, 0) /\ q \in Seq(Nat) /\ Len(q) = n /\ DOMAIN q = 1..n /\ q[s] = d
                 /\ \A t \in 1..n : t # s => q[t] = timers[t]
                 /\ SumFunctionOnSet(q, 1..n) + timers[s] = SumFunctionOnSet(timers, 1..n) + d
    <2>1. PICK q : q = [timers EXCEPT ![s] = d]
      OBVIOUS
    <2>2. /\ q \in Seq(Nat) /\ Len(q) = Len(timers) /\ DOMAIN q = DOMAIN timers /\ q[s] = d
          /\ \A t \in DOMAIN timers : t # s => q[t] = timers[t]
          /\ SumFunctionOnSet(q, DOMAIN timers) + timers[s] = SumFunctionOnSet(timers, DOMAIN timers) + d
      BY <1>3, <2>1, DelaySet
    <2>3. timers' = Append(q, 0)
      BY <1>1, <1>4, <2>1
    <2>. QED
      BY <1>5, <2>2, <2>3
  <1>9. /\ timers' \in Seq(Nat) /\ Len(timers') = n + 1 /\ DOMAIN timers' = 1..(n + 1)
        /\ timers'[n + 1] = 0 /\ \A t \in 1..n : timers'[t] = q[t]
    <2>1. 0 \in Nat
      OBVIOUS
    <2>. QED
      BY <1>8, <2>1, AppendProperties
  <1>10. current' = n + 1 /\ current' \in 1..(n + 1) /\ \A t \in 1..(n + 1) : t = n + 1 \/ t \in 1..n
    BY <1>1, <1>5, <1>7
  <1>11. WorldTypes' /\ ListsInv' /\ BufferTypes' /\ HistoryTypes'
    BY <1>2 DEF StreamInv, WorldTypes, ListsInv, BufferTypes, HistoryTypes
  <1>12. SourceTypes'
    BY <1>7, <1>9, <1>10 DEF SourceTypes
  <1>13. DelaysInv'
    <2>1. PICK a \in Nat : a = SumFunctionOnSet(timers, 1..n) /\ a + n <= errors + 1
      BY <1>3, <1>5, DelaysType DEF StreamInv, DelaysInv
    <2>2. IsFiniteSet(1..n) /\ IsFiniteSet(1..(n + 1)) /\ 1..(n + 1) \ {n + 1} = 1..n /\ n + 1 \in 1..(n + 1)
      BY FS_Interval
    <2>3. \A x \in 1..(n + 1) : timers'[x] \in Nat
      BY <1>9
    <2>4. PICK b \in Nat : b = SumFunctionOnSet(timers', 1..n)
      BY <2>2, <2>3, SumType
    <2>5. PICK c \in Nat : c = SumFunctionOnSet(q, 1..n)
      BY <1>8, <2>2, SumType
    <2>6. SumFunctionOnSet(timers', 1..(n + 1)) = b
      <3>1. PICK f, D, x : f = timers' /\ D = 1..(n + 1) /\ x = n + 1 /\ x \in D
        BY <2>2
      <3>2. IsFiniteSet(D) /\ \A y \in D : f[y] \in Nat
        BY <2>2, <2>3, <3>1
      <3>3. SumFunctionOnSet(f, D) = f[x] + SumFunctionOnSet(f, D \ {x})
        BY <3>1, <3>2, SumWithout
      <3>4. SumFunctionOnSet(timers', 1..(n + 1)) = 0 + SumFunctionOnSet(timers', 1..n)
        BY <1>9, <2>2, <3>1, <3>3
      <3>. QED
        BY <2>4, <3>4
    <2>7. b = c
      <3>1. PICK f, D : f = timers' /\ D = 1..n
        OBVIOUS
      <3>2. IsFiniteSet(D) /\ \A y \in D : f[y] \in Nat /\ q[y] \in Nat /\ f[y] <= q[y] /\ q[y] <= f[y]
        BY <1>8, <1>9, <2>2, <3>1
      <3>3. b <= c /\ c <= b
        BY <2>4, <2>5, <3>1, <3>2, SumGrows
      <3>. QED
        BY <3>3
    <2>8. c + timers[s] = a + d
      BY <1>8, <2>1, <2>5
    <2>9. errors \in Nat
      BY StreamAssumption DEF StreamInv, WorldTypes
    <2>10. b + (n + 1) <= errors + 1
      BY <1>3, <1>4, <2>1, <2>7, <2>8, <2>9
    <2>. QED
      BY <1>2, <1>7, <1>9, <2>6, <2>10 DEF DelaysInv
  <1>14. OneInv'
    <2> SUFFICES ASSUME ~doubled PROVE
          /\ \A t \in 1..(n + 1) : t # n + 1 => sources'[t].state = "closed" /\ timers'[t] = 0
          /\ sources'[n + 1].state # "closed"
          /\ ~(~mounted /\ ~leftPending)
      BY <1>2, <1>7, <1>10 DEF OneInv
    <2>1. s = current /\ timers[s] <= 1 /\ ~(~mounted /\ ~leftPending)
      BY <1>1, <1>3, <1>5 DEF OneInv
    <2>2. d = 0
      BY <1>1, <1>3, <1>4, <2>1
    <2>3. ASSUME NEW t \in 1..n PROVE sources[t].state = "closed" /\ q[t] = 0
      BY <1>1, <1>3, <1>5, <1>8, <2>1, <2>2 DEF OneInv
    <2>. QED
      BY <1>6, <1>7, <1>9, <1>10, <2>1, <2>3
  <1>15. SendInv'
    BY <1>2, <1>3, <1>5, <1>6, <1>7, <1>10 DEF SendInv
  <1>16. CopiesInv'
    <2>1. Opened' \subseteq Opened
      BY <1>5, <1>6, <1>7, <1>10 DEF Opened
    <2>2. \A e : MaySend(e)' \subseteq MaySend(e)
      BY <1>5, <1>7, <2>1 DEF MaySend, Opened
    <2>3. buffer' \in Seq(Events) /\ \A e \in Events : Cardinality(Places(buffer', e)) <= Cardinality(Places(buffer, e))
      <3>1. buffer' = buffer /\ buffer \in Seq(Events) /\ \A e : Cardinality(Places(buffer, e)) \in Nat
        BY <1>2, <1>3, PlacesType DEF BufferTypes
      <3>. QED
        BY <3>1
    <2>. QED
      BY <1>2, <1>3, <2>1, <2>2, <2>3, CopiesMade
  <1>17. BufferInv'
    BY <1>6, <1>7, <1>10 DEF BufferInv
  <1>. QED
    BY <1>11, <1>12, <1>13, <1>14, <1>15, <1>16, <1>17 DEF StreamInv

LEMMA LeaveStep ==
  ASSUME StreamInv, Leave
  PROVE  StreamInv'
  <1>1. mounted' = FALSE /\ wait' = Off /\ buffer' = <<>> /\ reads' = {}
        /\ leftPending' = (\E s \in DOMAIN timers : timers[s] > 0) /\ doubled' = (doubled \/ timers[current] > 1)
    BY DEF Leave
  <1>2. UNCHANGED <<log, up, timers, current, connected, issued, errors, renders, streams, lacking>>
    BY DEF Leave
  <1>3. SourceTypes /\ BufferTypes /\ OneInv /\ SendInv /\ CopiesInv /\ log \in Nat /\ current \in DOMAIN sources
    BY StreamAssumption DEF StreamInv, WorldTypes, SourceTypes
  <1>4. PICK c : c = [NewSource EXCEPT !.state = "closed"] /\ sources' = [sources EXCEPT ![current] = c]
    BY DEF Leave, Closed
  <1>5. c \in Sources /\ InOrder(c, log) /\ c.state = "closed"
    <2>1. "closed" \in States
      BY DEF States
    <2>2. c \in Sources /\ InOrder(c, log)
      BY <1>3, <1>4, <2>1, NewInOrder
    <2>. QED
      BY <1>4, <2>2 DEF NewSource
  <1>6. /\ sources' \in Seq(Sources) /\ Len(sources') = Len(sources) /\ DOMAIN sources' = DOMAIN sources
        /\ sources'[current] = c /\ \A t \in DOMAIN sources : t # current => sources'[t] = sources[t]
    BY <1>3, <1>4, <1>5, SourcePut DEF SourceTypes
  <1>7. WorldTypes'
    <2>1. Off \in 0..Off
      BY StreamAssumption DEF Off
    <2>. QED
      BY <1>1, <1>2, <2>1 DEF StreamInv, WorldTypes, Off
  <1>8. SourceTypes' /\ ListsInv'
    BY <1>1, <1>2, <1>3, <1>6 DEF SourceTypes, ListsInv
  <1>9. BufferTypes'
    <2>1. <<>> \in Seq(Events) /\ Len(<<>>) = 0 /\ ToSet(<<>>) = {} /\ Kept \in Nat
      BY StreamAssumption DEF ToSet
    <2>. QED
      BY <1>1, <1>2, <1>3, <2>1 DEF BufferTypes
  <1>10. HistoryTypes'
    BY <1>1 DEF StreamInv, HistoryTypes
  <1>11. DelaysInv'
    BY <1>2, <1>6 DEF StreamInv, DelaysInv
  <1>12. OneInv'
    <2> SUFFICES ASSUME ~doubled' PROVE
          /\ \A t \in DOMAIN sources : t # current => sources'[t].state = "closed" /\ timers[t] = 0
          /\ sources'[current].state = "closed" /\ timers[current] <= 1
          /\ ~leftPending' => timers[current] = 0
      BY <1>2, <1>6 DEF OneInv
    <2>1. timers[current] \in Nat /\ current \in DOMAIN timers
      BY <1>3, DelaysType
    <2>2. ~doubled /\ timers[current] <= 1
      <3>1. ~doubled /\ ~(timers[current] > 1)
        BY <1>1
      <3>. QED
        BY <2>1, <3>1
    <2>3. \A t \in DOMAIN sources : t # current => sources'[t].state = "closed" /\ timers[t] = 0
      BY <1>3, <1>6, <2>2 DEF OneInv
    <2>4. ~leftPending' => timers[current] = 0
      BY <1>1, <2>1
    <2>. QED
      BY <1>5, <1>6, <2>2, <2>3, <2>4
  <1>13. SendInv'
    BY <1>2, <1>3, <1>4, <1>5, OrderPut
  <1>14. CopiesInv'
    <2>1. Opened' \subseteq Opened
      BY <1>5, <1>6 DEF Opened
    <2>2. \A e : MaySend(e)' \subseteq MaySend(e)
      BY <1>5, <1>6 DEF MaySend, Opened
    <2>3. buffer' \in Seq(Events) /\ \A e \in Events : Cardinality(Places(buffer', e)) <= Cardinality(Places(buffer, e))
      <3>1. <<>> \in Seq(Events) /\ \A e : Places(<<>>, e) = {}
        BY DEF Places
      <3>2. \A e : Cardinality(Places(<<>>, e)) = 0
        BY <3>1, FS_EmptySet
      <3>3. \A e : Cardinality(Places(buffer, e)) \in Nat
        BY <1>3, PlacesType DEF BufferTypes
      <3>. QED
        BY <1>1, <3>1, <3>2, <3>3
    <2>. QED
      BY <1>2, <1>3, <2>1, <2>2, <2>3, CopiesMade
  <1>15. BufferInv'
    BY <1>1 DEF BufferInv
  <1>. QED
    BY <1>7, <1>8, <1>9, <1>10, <1>11, <1>12, <1>13, <1>14, <1>15 DEF StreamInv

LEMMA ListStep ==
  ASSUME StreamInv, NEW r \in reads, ListLanded(r)
  PROVE  StreamInv'
  <1>1. reads' = reads \ {r} /\ buffer' = Drop(r.rows, Kept)
        /\ lacking' = ToSet(Latest(log)) \ ToSet(r.rows) /\ wait' = Rearm(connected)
    BY DEF ListLanded, GetEvents
  <1>2. UNCHANGED <<log, up, sources, timers, current, connected, mounted, issued, errors, renders, streams, doubled, leftPending>>
    BY DEF ListLanded, connection
  <1>3. SourceTypes /\ BufferTypes /\ CopiesInv /\ log \in 0..MaxEvents /\ log \in Nat
    BY StreamAssumption DEF StreamInv, WorldTypes
  <1>4. PICK n \in 0..log : r.rows = <<>> \/ r.rows = Latest(n)
    <2>1. 0 \in 0..log
      BY <1>3
    <2>. QED
      BY <2>1 DEF StreamInv, ListsInv
  <1>5. PICK q : q = r.rows
    OBVIOUS
  <1>6. /\ q \in Seq(1..n) /\ Drop(q, Kept) = q /\ Len(q) <= Kept
        /\ \A e : Cardinality(Places(q, e)) <= 1
        /\ \A x \in ToSet(q) : Held(q, x)
    BY <1>3, <1>4, <1>5, ListHeld
  <1>7. buffer' = q /\ q \in Seq(1..log) /\ q \in Seq(Events)
    <2>1. 1..n \subseteq 1..log /\ 1..log \subseteq Events
      BY <1>3, StreamAssumption DEF Events
    <2>2. q \in Seq(1..log)
      BY <1>6, <2>1, SeqMonotonic
    <2>3. q \in Seq(Events)
      BY <2>1, <2>2, SeqMonotonic
    <2>. QED
      BY <1>1, <1>5, <1>6, <2>2, <2>3
  <1>8. ToSet(Latest(log)) = Recent(log) /\ Recent(log) \subseteq Events
    <2>1. ToSet(Latest(log)) = Recent(log)
      BY <1>3, LatestIs
    <2>2. Recent(log) \subseteq 1..log /\ 1..log \subseteq Events
      BY <1>3, RecentIs, StreamAssumption DEF Events
    <2>. QED
      BY <2>1, <2>2
  <1>9. WorldTypes'
    <2>1. Rearm(connected) \in 0..Off
      BY StreamAssumption DEF Rearm, Off
    <2>. QED
      BY <1>1, <1>2, <2>1 DEF StreamInv, WorldTypes, Off
  <1>10. SourceTypes' /\ HistoryTypes' /\ DelaysInv' /\ OneInv' /\ SendInv'
    BY <1>2 DEF StreamInv, SourceTypes, HistoryTypes, DelaysInv, OneInv, SendInv
  <1>11. ListsInv'
    BY <1>1, <1>2 DEF StreamInv, ListsInv
  <1>12. BufferTypes'
    <2>1. ToSet(q) \subseteq 1..log
      <3>1. PICK S : S = 1..log
        OBVIOUS
      <3>2. q \in Seq(S)
        BY <1>7, <3>1
      <3>3. \A i \in DOMAIN q : q[i] \in S
        BY <3>2
      <3>. QED
        BY <3>1, <3>3 DEF ToSet
    <2>2. lacking' \subseteq Events
      BY <1>1, <1>8
    <2>. QED
      BY <1>2, <1>3, <1>6, <1>7, <2>1, <2>2 DEF BufferTypes
  <1>13. CopiesInv'
    <2>1. Opened' = Opened /\ \A e : MaySend(e)' = MaySend(e)
      BY <1>2 DEF Opened, MaySend
    <2>2. streams \in Nat
      BY <1>3 DEF BufferTypes
    <2>3. ASSUME NEW e \in Events, streams + 1 < Kept PROVE Cardinality(Places(q, e)) + Cardinality(MaySend(e)) <= 1 + streams
      <3>1. Cardinality(MaySend(e)) \in Nat /\ Cardinality(MaySend(e)) <= Cardinality(Opened)
            /\ Cardinality(Opened) \in Nat /\ Cardinality(Opened) <= streams
        BY <1>3, <2>3, OpenedType DEF CopiesInv
      <3>2. Cardinality(Places(q, e)) \in Nat /\ Cardinality(Places(q, e)) <= 1
        BY <1>6, PlacesType
      <3>. QED
        BY <2>2, <3>1, <3>2
    <2>. QED
      BY <1>2, <1>3, <1>7, <2>1, <2>3 DEF CopiesInv
  <1>14. BufferInv'
    <2>1. \A x \in Recent(log) \ lacking' : Held(buffer', x)
      BY <1>1, <1>5, <1>6, <1>7, <1>8
    <2>. QED
      BY <1>2, <2>1 DEF BufferInv
  <1>. QED
    BY <1>9, <1>10, <1>11, <1>12, <1>13, <1>14 DEF StreamInv

LEMMA StreamStart == ASSUME StreamInit PROVE StreamInv
  <1>1. NewSource \in Sources /\ InOrder(NewSource, 0) /\ NewSource.state = "connecting" /\ NewSource.seen = {}
    <2>1. "open" \in States
      BY DEF States
    <2>2. NewSource.state = "connecting" /\ NewSource.seen = {}
      BY DEF NewSource
    <2>. QED
      BY <2>1, <2>2, NewInOrder
  <1>2. /\ log = 0 /\ up = TRUE /\ sources = <<NewSource>> /\ timers = <<0>> /\ current = 1 /\ connected = FALSE /\ mounted = TRUE
        /\ buffer = <<>> /\ reads = {[n |-> 1, state |-> "sent", rows |-> <<>>]} /\ issued = 1 /\ wait = 0 /\ errors = 0
        /\ renders = 0 /\ streams = 0 /\ lacking = {} /\ doubled = FALSE /\ leftPending = FALSE
    BY DEF StreamInit
  <1>3. /\ sources \in Seq(Sources) /\ Len(sources) = 1 /\ DOMAIN sources = {1} /\ sources[1] = NewSource
        /\ timers \in Seq(Nat) /\ Len(timers) = 1 /\ DOMAIN timers = {1} /\ timers[1] = 0
    BY <1>1, <1>2
  <1>4. WorldTypes
    <2>1. log = 0 /\ up = TRUE /\ connected = FALSE /\ mounted = TRUE /\ issued = 1 /\ wait = 0 /\ errors = 0 /\ renders = 0
      BY <1>2
    <2>2. Period \in Nat /\ MaxEvents \in Nat /\ MaxReads \in Nat /\ MaxReads > 0 /\ MaxErrors \in Nat /\ MaxRenders \in Nat
      BY StreamAssumption
    <2>3. 0 \in 0..MaxEvents /\ 0 \in 0..(Period + 1) /\ 1 \in 1..MaxReads /\ 0 \in 0..MaxErrors /\ 0 \in 0..MaxRenders
      BY <2>2
    <2>. QED
      BY <2>1, <2>3 DEF WorldTypes, Off
  <1>5. SourceTypes /\ HistoryTypes
    <2>1. current \in 1..Len(sources) /\ Len(timers) = Len(sources)
      BY <1>2, <1>3
    <2>. QED
      BY <1>2, <1>3, <2>1 DEF SourceTypes, HistoryTypes
  <1>6. BufferTypes
    <2>1. <<>> \in Seq(Events) /\ Len(<<>>) = 0 /\ ToSet(<<>>) = {} /\ Kept \in Nat
      BY StreamAssumption DEF ToSet
    <2>. QED
      BY <1>2, <2>1 DEF BufferTypes
  <1>7. ListsInv
    BY <1>2, StreamAssumption DEF ListsInv, Reads
  <1>8. DelaysInv
    <2>1. PICK f, D : f = timers /\ D = DOMAIN timers
      OBVIOUS
    <2>2. D = {1} /\ f[1] = 0
      BY <1>3, <2>1
    <2>3. IsFiniteSet(D) /\ 1 \in D /\ (\A x \in D : f[x] \in Nat) /\ D \ {1} = {}
      BY <2>2, FS_Singleton, SMTT(30)
    <2>4. SumFunctionOnSet(f, D) = f[1] + SumFunctionOnSet(f, D \ {1})
      BY <2>3, SumWithout
    <2>5. SumFunctionOnSet(f, D \ {1}) = 0
      BY <2>3, SumOfNone
    <2>6. SumFunctionOnSet(timers, DOMAIN timers) = 0 + 0
      BY <2>1, <2>2, <2>4, <2>5
    <2>7. Len(sources) = 1 /\ errors = 0
      BY <1>2, <1>3
    <2>. QED
      BY <2>6, <2>7 DEF DelaysInv
  <1>9. OneInv /\ SendInv
    BY <1>1, <1>2, <1>3 DEF OneInv, SendInv
  <1>10. CopiesInv
    <2>1. Opened = {} /\ \A e : MaySend(e) = {} /\ Places(buffer, e) = {}
      BY <1>1, <1>2, <1>3 DEF Opened, MaySend, Places
    <2>2. Cardinality(Opened) = 0 /\ \A e : Cardinality(MaySend(e)) = 0 /\ Cardinality(Places(buffer, e)) = 0
      BY <2>1, FS_EmptySet
    <2>3. 0 < Kept
      BY StreamAssumption
    <2>. QED
      BY <1>2, <2>2, <2>3 DEF CopiesInv
  <1>11. BufferInv
    BY <1>1, <1>2, <1>3 DEF BufferInv
  <1>. QED
    BY <1>4, <1>5, <1>6, <1>7, <1>8, <1>9, <1>10, <1>11 DEF StreamInv

\* The invariant holds of every behaviour of the timeline.
THEOREM StreamInvariant == StreamSpec => []StreamInv
  <1>1. StreamInit => StreamInv
    BY StreamStart
  <1>2. StreamInv /\ [StreamNext]_streamVars => StreamInv'
    <2> SUFFICES ASSUME StreamInv, [StreamNext]_streamVars PROVE StreamInv'
      OBVIOUS
    <2>1. CASE Append1
      BY <2>1, AppendStep
    <2>2. CASE Leave
      BY <2>2, LeaveStep
    <2>3. CASE Aside \/ UNCHANGED streamVars
      BY <2>3, AsideStep
    <2>4. ASSUME NEW s \in DOMAIN sources,
                 Accept(s) \/ ServerRound(s) \/ Deliver(s) \/ DelayEnds(s) \/ \E state \in {"connecting", "closed"} : Fail(s, state)
          PROVE  StreamInv'
      <3>1. CASE Accept(s)
        BY <3>1, AcceptStep
      <3>2. CASE ServerRound(s)
        BY <3>2, RoundStep
      <3>3. CASE Deliver(s)
        BY <3>3, DeliverStep
      <3>4. CASE DelayEnds(s)
        BY <3>4, DelayOverStep, ReplaceStep
      <3>5. CASE \E state \in {"connecting", "closed"} : Fail(s, state)
        BY <3>5, FailStep
      <3>. QED
        BY <2>4, <3>1, <3>2, <3>3, <3>4, <3>5
    <2>5. ASSUME NEW r \in reads, ListLanded(r) PROVE StreamInv'
      BY <2>5, ListStep
    <2>. QED
      BY <2>1, <2>2, <2>3, <2>4, <2>5 DEF StreamNext, Aside
  <1>. QED
    BY <1>1, <1>2, PTL DEF StreamSpec

(***************************************************************************)
(* What the page shows                                                     *)
(***************************************************************************)
LEMMA SetOfSequence ==
  ASSUME NEW A, NEW q \in Seq(A)
  PROVE  /\ IsFiniteSet(ToSet(q)) /\ Cardinality(ToSet(q)) \in Nat /\ Cardinality(ToSet(q)) <= Len(q)
         /\ ToSet(q) \subseteq A
  <1>1. DOMAIN q = 1..Len(q) /\ Len(q) \in Nat /\ \A i \in DOMAIN q : q[i] \in A
    OBVIOUS
  <1>2. IsFiniteSet(1..Len(q)) /\ Cardinality(1..Len(q)) = Len(q)
    <2>1. Cardinality(1..Len(q)) = IF 1 > Len(q) THEN 0 ELSE Len(q) - 1 + 1
      BY <1>1, FS_Interval
    <2>. QED
      BY <1>1, <2>1, FS_Interval
  <1>3. PICK T : T = ToSet(q) /\ T = {q[i] : i \in 1..Len(q)}
    BY <1>1 DEF ToSet
  <1>4. PICK f : f = [i \in 1..Len(q) |-> q[i]]
    OBVIOUS
  <1>5. f \in [1..Len(q) -> T] /\ \A t \in T : \E i \in 1..Len(q) : f[i] = t
    BY <1>3, <1>4
  <1>6. f \in Surjection(1..Len(q), T)
    BY <1>5 DEF Surjection
  <1>7. IsFiniteSet(T) /\ Cardinality(T) <= Len(q)
    BY <1>2, <1>6, FS_Surjection
  <1>8. T \subseteq A
    BY <1>1, <1>3
  <1>. QED
    BY <1>3, <1>7, <1>8, FS_CardinalityType

\* An invariant of the parts bounds each of them.
LEMMA TypesFollow == ASSUME StreamInv PROVE StreamTypeOK
  <1>0. /\ MaxEvents \in Nat /\ MaxErrors \in Nat /\ errors \in 0..MaxErrors /\ log \in 0..MaxEvents
        /\ WorldTypes /\ SourceTypes /\ BufferTypes /\ HistoryTypes /\ ListsInv
    BY StreamAssumption DEF StreamInv, WorldTypes
  <1>1. Len(sources) \in 1..(MaxErrors + 1) /\ \A s \in DOMAIN sources : timers[s] \in 0..MaxErrors
    <2>1. PICK a \in Nat : a = SumFunctionOnSet(timers, DOMAIN timers) /\ a + Len(sources) <= errors + 1
      BY <1>0, DelaysType DEF StreamInv, DelaysInv
    <2>2. Len(sources) \in Nat /\ Len(sources) >= 1 /\ \A s \in DOMAIN sources : timers[s] \in Nat /\ timers[s] <= a
      BY <1>0, <2>1, DelaysType
    <2>3. a <= MaxErrors /\ Len(sources) <= MaxErrors + 1
      BY <1>0, <2>1, <2>2
    <2>. QED
      BY <1>0, <2>1, <2>2, <2>3
  <1>2. \A s \in DOMAIN sources : sources[s].state \in States /\ ToSet(sources[s].batch) \cup sources[s].seen \subseteq Events
    <2>1. \A s \in DOMAIN sources : sources[s] \in Sources
      BY <1>0 DEF SourceTypes
    <2>2. ASSUME NEW c \in Sources PROVE c.state \in States /\ ToSet(c.batch) \cup c.seen \subseteq Events
      BY SetOfSequence DEF Sources
    <2>. QED
      BY <2>1, <2>2
  <1>3. ToSet(buffer) \subseteq Events
    BY <1>0, SetOfSequence DEF BufferTypes
  <1>4. \A r \in reads : r.n \in 1..MaxReads /\ ToSet(r.rows) \subseteq Events
    BY <1>0, SetOfSequence DEF ListsInv, Reads
  <1>5. current \in DOMAIN sources
    BY <1>0 DEF SourceTypes
  <1>6. {up, connected, mounted, doubled, leftPending} \subseteq BOOLEAN
    BY <1>0 DEF WorldTypes, HistoryTypes
  <1>. QED
    BY <1>0, <1>1, <1>2, <1>3, <1>4, <1>5, <1>6 DEF StreamTypeOK, WorldTypes, BufferTypes, States

\* An event of the API's that the page's stream has sent and the buffer lacks was
\* pushed out of a full buffer, and all that is in it is above: it holds the window
\* but for what its second copies take.
LEMMA MissedFollows == ASSUME StreamInv PROVE NothingMissed
  <1> SUFFICES ASSUME mounted, ~doubled, CaughtUp(current)
               PROVE  Cardinality(ToSet(GetEvents) \ (lacking \cup ToSet(buffer))) <= SecondCopies
    BY DEF NothingMissed
  <1>1. /\ log \in Nat /\ buffer \in Seq(Events) /\ ToSet(buffer) \subseteq 1..log /\ Kept \in Nat
        /\ Window \in Nat /\ Window <= Kept
    BY StreamAssumption DEF StreamInv, WorldTypes, BufferTypes
  <1>2. PICK B : B = ToSet(buffer)
    OBVIOUS
  <1>3. IsFiniteSet(B) /\ Cardinality(B) \in Nat /\ Cardinality(B) <= Len(buffer) /\ Len(buffer) \in Nat
    BY <1>1, <1>2, SetOfSequence
  <1>4. PICK R : R = Recent(log) /\ R = ToSet(GetEvents)
    BY <1>1, LatestIs DEF GetEvents
  <1>5. IsFiniteSet(R) /\ Cardinality(R) \in Nat /\ Cardinality(R) <= Window
    <2>1. PICK q, S : q = Latest(log) /\ S = 1..log
      OBVIOUS
    <2>2. q \in Seq(S) /\ Len(q) <= Window /\ R = ToSet(q)
      <3>1. Latest(log) \in Seq(1..log) /\ Len(Latest(log)) <= Window /\ ToSet(Latest(log)) = Recent(log)
        BY <1>1, LatestIs
      <3>. QED
        BY <1>4, <2>1, <3>1
    <2>3. IsFiniteSet(R) /\ Cardinality(R) \in Nat /\ Cardinality(R) <= Len(q) /\ Len(q) \in Nat
      BY <2>2, SetOfSequence
    <2>. QED
      BY <1>1, <2>2, <2>3
  <1>6. PICK M : M = R \ (lacking \cup B)
    OBVIOUS
  <1>7. \A x \in M : Held(buffer, x)
    <2>1. R \subseteq sources[current].seen
      BY <1>4 DEF CaughtUp
    <2>2. \A x \in M : x \in (Recent(log) \cap sources[current].seen) \ lacking
      BY <1>4, <1>6, <2>1
    <2>. QED
      BY <2>2 DEF StreamInv, BufferInv
  <1>8. Cardinality(M) <= Len(buffer) - Cardinality(B)
    <2>1. CASE M = {}
      BY <1>3, <2>1, FS_EmptySet
    <2>2. CASE M # {}
      <3>1. PICK x \in M : TRUE
        BY <2>2
      <3>2. PICK i \in 0..Len(buffer) : HeldFrom(buffer, x, i)
        BY <1>7, <3>1 DEF Held
      <3>3. i = 0
        <4>1. x \notin B
          BY <1>6, <3>1
        <4>2. \A j \in 1..Len(buffer) : buffer[j] # x
          BY <1>1, <1>2, <4>1 DEF ToSet
        <4>. QED
          BY <1>3, <3>2, <4>2 DEF HeldFrom
      <3>4. Len(buffer) = Kept /\ \A j \in 1..Len(buffer) : buffer[j] > x
        <4>1. 0 + 1 = 1
          OBVIOUS
        <4>. QED
          BY <3>2, <3>3, <4>1 DEF HeldFrom
      <3>5. \A b \in B : b > x
        BY <1>1, <1>2, <3>4 DEF ToSet
      <3>6. B \subseteq R
        <4>1. x \in R
          BY <1>6, <3>1
        <4>. QED
          BY <1>1, <1>2, <1>4, <3>5, <4>1 DEF Recent
      <3>7. Cardinality(R \ B) = Cardinality(R) - Cardinality(B)
        <4>1. R \cap B = B
          BY <3>6
        <4>2. Cardinality(R \ B) = Cardinality(R) - Cardinality(R \cap B)
          BY <1>5, FS_Difference
        <4>. QED
          BY <4>1, <4>2
      <3>8. M \in SUBSET (R \ B)
        BY <1>6
      <3>9. IsFiniteSet(R \ B) /\ Cardinality(R \ B) \in Nat
        BY <1>5, FS_Difference, FS_CardinalityType
      <3>10. Cardinality(M) <= Cardinality(R \ B) /\ Cardinality(M) \in Nat
        BY <3>8, <3>9, FS_Subset, FS_CardinalityType
      <3>. QED
        BY <1>1, <1>3, <1>5, <3>4, <3>7, <3>9, <3>10
    <2>. QED
      BY <2>1, <2>2
  <1>. QED
    BY <1>2, <1>4, <1>6, <1>8 DEF SecondCopies

LEMMA CopiesFollow == ASSUME StreamInv PROVE OncePerStream
  <1> SUFFICES ASSUME NEW e \in ToSet(buffer) PROVE Copies(e) <= 1 + streams
    BY DEF OncePerStream
  <1>1. SourceTypes /\ CopiesInv /\ buffer \in Seq(Events) /\ Len(buffer) <= Kept /\ streams \in Nat /\ Kept \in Nat
    BY StreamAssumption DEF StreamInv, BufferTypes
  <1>2. Copies(e) = Cardinality(Places(buffer, e)) /\ e \in Events
    BY <1>1, SetOfSequence DEF Copies, Places
  <1>3. Cardinality(Places(buffer, e)) \in Nat /\ Cardinality(Places(buffer, e)) <= Len(buffer) /\ Len(buffer) \in Nat
    BY <1>1, PlacesType
  <1>4. CASE streams + 1 < Kept
    <2>1. Cardinality(Places(buffer, e)) + Cardinality(MaySend(e)) <= 1 + streams
      BY <1>1, <1>2, <1>4 DEF CopiesInv
    <2>2. Cardinality(MaySend(e)) \in Nat
      BY <1>1, OpenedType
    <2>. QED
      BY <1>1, <1>2, <1>3, <2>1, <2>2
  <1>5. CASE ~(streams + 1 < Kept)
    BY <1>1, <1>2, <1>3, <1>5
  <1>. QED
    BY <1>4, <1>5

\* The page's sources other than the current one are closed.
LEMMA OneFollows == ASSUME StreamInv PROVE OneSource
  <1>1. CASE doubled
    BY <1>1 DEF OneSource
  <1>2. CASE ~doubled
    <2>1. Live = {} \/ Live = {current}
      BY <1>2 DEF StreamInv, OneInv, Live
    <2>2. Cardinality(Live) = 0 \/ Cardinality(Live) = 1
      BY <2>1, FS_EmptySet, FS_Singleton, Zenon
    <2>3. ~mounted /\ ~leftPending => Live = {}
      BY <1>2, <2>1 DEF StreamInv, OneInv, Live
    <2>. QED
      BY <2>2, <2>3 DEF OneSource
  <1>. QED
    BY <1>1, <1>2

\* The timeline of the simple interface misses no event its stream was sent, but for
\* those a list lacked and those second copies pushed out, and shows an event at most
\* once more than streams sent it, whatever the sizes of the window and the buffer.
THEOREM TimelineIsFaithful == StreamSpec => []TimelineFaithful
  <1>1. StreamInv => TimelineFaithful
    BY TypesFollow, MissedFollows, CopiesFollow DEF TimelineFaithful
  <1>. QED
    BY <1>1, StreamInvariant, PTL

\* The simple interface holds one connection at a time, and none when it was left,
\* but for the reconnect delays that were doubled or were pending.
THEOREM OneSourceAtATime == StreamSpec => []OneSource
  <1>. QED
    BY OneFollows, StreamInvariant, PTL

(***************************************************************************)
(* The pages: what the API stores, the list, and the requests              *)
(***************************************************************************)

\* What the rows of a page may say.
PageValues == IF page \in {"approvals", "approval-queue"} THEN Statuses \cup {Blank} ELSE Contents \cup {Blank}
Readings == [rows : [Ids -> PageValues], outcome : ReadOutcomes \cup {"none"}]
RequestsOf(values) ==
  [n : Nat, kind : Kinds, id : Ids, content : values, outcome : {"sent"} \cup Outcomes, here : BOOLEAN]

\* Two pages say themselves what the API does.
Plain == page \notin {"versions", "catalog"}

Numbered ==
  /\ sent \in 0..Limit /\ \A q \in requests : q.n \in 1..sent
  /\ \A q, s \in requests : q.n = s.n => q = s

PageTypes ==
  /\ rows \in [Ids -> PageValues] /\ list \in [data : Readings, flight : Readings]
  /\ requests \subseteq RequestsOf(PageValues) /\ Numbered /\ opened \in 0..MaxReopens
  /\ latest \in [Ids -> [n : Nat, content : PageValues]] /\ \A i \in Ids : latest[i].n <= sent
  /\ crossed \subseteq Ids /\ unseen \subseteq Ids

\* A write on its way was sent after all that were done, or stores what is stored;
\* several to one row store the same.
ToWrite(q) == q.outcome = "sent" /\ Writes(q)
SendsAgree ==
  \A q \in requests : ToWrite(q) /\ q.id \notin crossed =>
    /\ q.n > latest[q.id].n \/ Effect(q) = latest[q.id].content
    /\ \A s \in requests : ToWrite(s) /\ s.id = q.id => Effect(s) = Effect(q)
LastStored == \A i \in Ids \ crossed : rows[i] = latest[i].content
DoneCounts == \A q \in requests : Performed(q.outcome) /\ Writes(q) => q.n <= latest[q.id].n

\* The reading that shows, or will show when it arrives, what the API has: but for
\* rows whose write is going to be followed by another reading.
LastReading == IF list.flight = NoRead THEN list.data ELSE list.flight
BatchRows == UNION {b.items : b \in Batches}
ToBeRead(i) == (\E q \in requests : q.outcome = "done" /\ Writes(q) /\ q.id = i) \/ i \in BatchRows
ReadsAgree ==
  LastReading.outcome = "done" => \A i \in Ids \ unseen : LastReading.rows[i] = rows[i] \/ ToBeRead(i)

\* Pages without a list.
Listless == {"daily", "builder", "browser"}
NoList == page \in Listless => list.data = NoRead /\ list.flight = NoRead

RowsInv == PageTypes /\ SendsAgree /\ LastStored /\ DoneCounts /\ ReadsAgree /\ NoList

LEMMA PageFacts ==
  /\ Blank \in PageValues /\ NoRows \in [Ids -> PageValues] /\ NoRead \in Readings
  /\ NoRead.outcome = "none" /\ MaxSends \in Nat /\ Limit \in Nat
  BY ConsoleAssumption DEF PageValues, NoRows, NoRead, Readings, Limit

\* A step that touches neither the rows nor the requests.
LEMMA QuietRows ==
  ASSUME RowsInv, UNCHANGED Local, BatchRows \subseteq BatchRows'
  PROVE  RowsInv'
  <1>1. UNCHANGED <<page, rows, list, requests, sent, opened, latest, crossed, unseen>>
    BY DEF Local
  <1>2. PageTypes'
    BY <1>1 DEF RowsInv, PageTypes, PageValues, Readings, Numbered, Limit
  <1>3. SendsAgree' /\ LastStored' /\ DoneCounts' /\ NoList'
    BY <1>1 DEF RowsInv, SendsAgree, LastStored, DoneCounts, NoList, ToWrite, Writes, Effect
  <1>4. \A i : ToBeRead(i) => ToBeRead(i)'
    BY <1>1 DEF ToBeRead, Writes
  <1>5. ReadsAgree'
    BY <1>1, <1>4 DEF RowsInv, ReadsAgree, LastReading
  <1>. QED
    BY <1>2, <1>3, <1>5 DEF RowsInv

\* A request is added, from a button that is disabled while one of its kind is on
\* its way, or on a page where all of them may cross.
Fit(kind) == kind \in {"delete", "reset", "act", "plan"} \/ ~Pending({kind}) \/ page \in Unguarded

LEMMA SentRows ==
  ASSUME RowsInv, NEW kind \in Kinds, NEW id \in Ids, NEW content \in PageValues, Fit(kind),
         Request(kind, id, content), UNCHANGED Click, BatchRows \subseteq BatchRows'
  PROVE  RowsInv'
  <1>1. UNCHANGED <<page, rows, list, opened, latest, unseen>>
    BY DEF Click
  <1>2. sent < Limit /\ sent' = sent + 1 /\ sent \in Nat /\ Limit \in Nat /\ Limit' = Limit
        /\ crossed' = (IF MayCross(kind, id) THEN crossed \cup {id} ELSE crossed)
    BY <1>1, PageFacts DEF Request, RowsInv, PageTypes, Numbered, Limit
  <1>3. PICK r : r = NewRequest(kind, id, content) /\ requests' = requests \cup {r}
    BY DEF Request
  <1>4. r \in RequestsOf(PageValues) /\ r.n = sent + 1 /\ r.kind = kind /\ r.id = id /\ r.content = content
        /\ r.outcome = "sent" /\ r.here
    BY <1>2, <1>3 DEF NewRequest, RequestsOf
  <1>5. \A q \in requests : q \in RequestsOf(PageValues) /\ q.n \in 1..sent /\ q.n # r.n /\ q.n \in 1..(sent + 1)
    BY <1>2, <1>4 DEF RowsInv, PageTypes, Numbered
  <1>6. PageTypes'
    <2>1. \A i \in Ids : latest[i].n \in Nat /\ latest[i].n <= sent + 1
      BY <1>2 DEF RowsInv, PageTypes
    <2>2. Numbered'
      BY <1>2, <1>3, <1>4, <1>5 DEF RowsInv, PageTypes, Numbered
    <2>3. PageValues' = PageValues /\ Readings' = Readings
      BY <1>1 DEF PageValues, Readings
    <2>. QED
      BY <1>1, <1>2, <1>3, <1>4, <2>1, <2>2, <2>3 DEF RowsInv, PageTypes
  <1>7. SendsAgree'
    <2>1. ASSUME NEW s \in requests, ToWrite(s), s.id = id, Writes(r), id \notin crossed' PROVE Effect(s) = Effect(r)
      <3>1. s.kind = kind /\ s.here /\ page \notin Unguarded
        BY <1>2, <2>1 DEF MayCross, ToWrite
      <3>2. kind \in {"delete", "reset"}
        BY <1>4, <2>1, <3>1 DEF Fit, Pending, Writes
      <3>. QED
        BY <1>4, <3>1, <3>2 DEF Effect
    <2>2. r.n > latest[id].n
      BY <1>2, <1>4 DEF RowsInv, PageTypes
    <2>3. crossed \subseteq crossed'
      BY <1>2
    <2> SUFFICES ASSUME NEW q \in requests', ToWrite(q), q.id \notin crossed'
                 PROVE  /\ q.n > latest[q.id].n \/ Effect(q) = latest[q.id].content
                        /\ \A s \in requests' : ToWrite(s) /\ s.id = q.id => Effect(s) = Effect(q)
      BY <1>1 DEF SendsAgree, ToWrite, Writes, Effect
    <2>4. CASE q = r
      BY <1>3, <1>4, <2>1, <2>2, <2>4 DEF ToWrite
    <2>5. CASE q \in requests
      <3>1. /\ q.n > latest[q.id].n \/ Effect(q) = latest[q.id].content
            /\ \A s \in requests : ToWrite(s) /\ s.id = q.id => Effect(s) = Effect(q)
        BY <2>3, <2>5 DEF RowsInv, SendsAgree
      <3>2. ToWrite(r) /\ r.id = q.id => Effect(r) = Effect(q)
        BY <1>4, <2>1, <2>5 DEF ToWrite
      <3>. QED
        BY <1>3, <3>1, <3>2
    <2>. QED
      BY <1>3, <2>4, <2>5
  <1>8. LastStored' /\ NoList'
    BY <1>1, <1>2 DEF RowsInv, LastStored, NoList
  <1>9. DoneCounts'
    BY <1>1, <1>3, <1>4 DEF RowsInv, DoneCounts, Performed, Writes
  <1>10. \A i : ToBeRead(i) => ToBeRead(i)'
    BY <1>3 DEF ToBeRead, Writes
  <1>11. ReadsAgree'
    BY <1>1, <1>10 DEF RowsInv, ReadsAgree, LastReading
  <1>. QED
    BY <1>6, <1>7, <1>8, <1>9, <1>11 DEF RowsInv

\* The API works on a request.
LEMMA ServedRows ==
  ASSUME RowsInv, NEW q \in requests, NEW outcome \in Outcomes, Serve(q, outcome), page # "simple-runs" \/ ~Writes(q)
  PROVE  RowsInv'
  <1>1. UNCHANGED <<page, ui, list, sent, opened, crossed>> /\ q.outcome = "sent"
    BY DEF Serve, Work
  <1>2. PICK done : done = (IF Performed(outcome) THEN Written(q) ELSE {})
    OBVIOUS
  <1>3. /\ rows' = [i \in Ids |-> IF i \in done THEN Effect(q) ELSE rows[i]]
        /\ latest' = [i \in Ids |-> IF i \in done /\ q.n > latest[i].n
                                      THEN [n |-> q.n, content |-> Effect(q)] ELSE latest[i]]
        /\ unseen' = (IF outcome = "lost" THEN unseen \cup done ELSE unseen)
    BY <1>2 DEF Serve, Work
  <1>4. PICK r : r = [q EXCEPT !.outcome = outcome] /\ requests' = (requests \ {q}) \cup {r}
    BY DEF Serve, Work
  <1>5. q \in RequestsOf(PageValues) /\ q.n \in 1..sent /\ q.n \in Nat /\ sent \in Nat
    BY PageFacts DEF RowsInv, PageTypes, Numbered
  <1>6. r \in RequestsOf(PageValues) /\ r.n = q.n /\ r.kind = q.kind /\ r.id = q.id /\ r.content = q.content
        /\ r.outcome = outcome
    BY <1>4, <1>5 DEF RequestsOf
  <1>7. (Writes(r) <=> Writes(q)) /\ Effect(r) = Effect(q)
    BY <1>6 DEF Writes, Effect
  <1>8. Effect(q) \in PageValues
    BY <1>5, PageFacts DEF Effect, RequestsOf
  <1>9. done \subseteq Ids /\ \A i \in done : i = q.id /\ Writes(q) /\ Performed(outcome)
    BY <1>2, <1>5 DEF Written, RequestsOf
  <1>10. \A i \in Ids : latest[i].n \in Nat /\ latest[i].content \in PageValues /\ latest[i].n <= sent
    BY DEF RowsInv, PageTypes
  <1>11. \A i \in Ids : /\ i \in done => rows'[i] = Effect(q)
                        /\ i \notin done => rows'[i] = rows[i] /\ latest'[i] = latest[i]
                        /\ i \in done /\ q.n > latest[i].n => latest'[i].n = q.n /\ latest'[i].content = Effect(q)
                        /\ i \in done /\ ~(q.n > latest[i].n) => latest'[i] = latest[i]
    BY <1>3
  <1>12. \A i \in Ids : latest'[i].n \in Nat /\ latest'[i].n >= latest[i].n /\ latest'[i].n <= sent
                        /\ (i \in done => latest'[i].n >= q.n)
    BY <1>5, <1>10, <1>11
  <1>13. PageTypes'
    <2>1. PageValues' = PageValues /\ Readings' = Readings /\ Limit' = Limit
      BY <1>1 DEF PageValues, Readings, Limit
    <2>2. rows' \in [Ids -> PageValues]
      BY <1>3, <1>8 DEF RowsInv, PageTypes
    <2>3. latest' \in [Ids -> [n : Nat, content : PageValues]]
      <3>1. \A i \in Ids : latest[i] \in [n : Nat, content : PageValues]
        BY DEF RowsInv, PageTypes
      <3>2. [n |-> q.n, content |-> Effect(q)] \in [n : Nat, content : PageValues]
        BY <1>5, <1>8
      <3>. QED
        BY <1>3, <3>1, <3>2
    <2>4. unseen' \subseteq Ids
      BY <1>3, <1>9 DEF RowsInv, PageTypes
    <2>5. Numbered'
      <3>1. /\ \A s \in requests : s.n \in 1..sent
            /\ \A s, t \in requests : s.n = t.n => s = t
        BY DEF RowsInv, PageTypes, Numbered
      <3>2. \A s \in requests' : s.n \in 1..sent
        BY <1>4, <1>5, <1>6, <3>1
      <3>3. ASSUME NEW s \in requests', NEW t \in requests', s.n = t.n PROVE s = t
        <4>1. s = r \/ (s \in requests /\ s # q)
          BY <1>4
        <4>2. t = r \/ (t \in requests /\ t # q)
          BY <1>4
        <4>. QED
          BY <1>6, <3>1, <3>3, <4>1, <4>2
      <3>4. sent' \in 0..Limit'
        BY <1>1, <2>1 DEF RowsInv, PageTypes, Numbered
      <3>. QED
        BY <1>1, <3>2, <3>3, <3>4 DEF Numbered
    <2>6. requests' \subseteq RequestsOf(PageValues)
      BY <1>4, <1>6 DEF RowsInv, PageTypes
    <2>. QED
      BY <1>1, <1>12, <2>1, <2>2, <2>3, <2>4, <2>5, <2>6 DEF RowsInv, PageTypes
  <1>14. \A s : ToWrite(s)' <=> ToWrite(s)
    BY DEF ToWrite, Writes
  <1>15. ~ToWrite(r)
    BY <1>6 DEF ToWrite, Outcomes
  <1>16. SendsAgree'
    <2>1. \A s \in requests' : ToWrite(s)' => s \in requests /\ ToWrite(s)
      BY <1>4, <1>14, <1>15
    <2>2. \A s, t \in requests : ToWrite(s) /\ ToWrite(t) /\ t.id = s.id /\ s.id \notin crossed => Effect(t) = Effect(s)
      BY DEF RowsInv, SendsAgree
    <2>3. \A s \in requests', t \in requests' :
            ToWrite(s)' /\ ToWrite(t)' /\ t.id = s.id /\ s.id \notin crossed => Effect(t) = Effect(s)
      BY <2>1, <2>2
    <2> SUFFICES ASSUME NEW s \in requests, ToWrite(s), s.id \notin crossed
                 PROVE  s.n > latest'[s.id].n \/ Effect(s) = latest'[s.id].content
      BY <1>1, <2>1, <2>3 DEF SendsAgree, Effect
    <2>4. s.id \in Ids /\ s.n \in Nat
      BY DEF RowsInv, PageTypes, RequestsOf
    <2>5. s.n > latest[s.id].n \/ Effect(s) = latest[s.id].content
      BY DEF RowsInv, SendsAgree
    <2>6. CASE s.id \notin done
      BY <1>11, <2>4, <2>5, <2>6
    <2>7. CASE s.id \in done
      <3>1. ToWrite(q) /\ q.id = s.id
        BY <1>1, <1>9, <2>7 DEF ToWrite
      <3>2. Effect(q) = Effect(s)
        BY <3>1 DEF RowsInv, SendsAgree
      <3>3. q.n > latest[s.id].n \/ Effect(q) = latest[s.id].content
        BY <3>1 DEF RowsInv, SendsAgree
      <3>. QED
        BY <1>11, <2>4, <2>7, <3>2, <3>3
    <2>. QED
      BY <2>6, <2>7
  <1>17. LastStored'
    <2> SUFFICES ASSUME NEW i \in Ids, i \notin crossed PROVE rows'[i] = latest'[i].content
      BY <1>1 DEF LastStored
    <2>1. CASE i \notin done
      BY <1>11, <2>1 DEF RowsInv, LastStored
    <2>2. CASE i \in done
      <3>1. ToWrite(q) /\ q.id = i
        BY <1>1, <1>9, <2>2 DEF ToWrite
      <3>2. q.n > latest[i].n \/ Effect(q) = latest[i].content
        BY <3>1 DEF RowsInv, SendsAgree
      <3>. QED
        BY <1>11, <2>2, <3>2
    <2>. QED
      BY <2>1, <2>2
  <1>18. DoneCounts'
    <2> SUFFICES ASSUME NEW s \in requests', Performed(s.outcome), Writes(s) PROVE s.n <= latest'[s.id].n
      BY DEF DoneCounts, Writes, Performed
    <2>1. CASE s \in requests
      <3>1. s.n \in Nat /\ s.id \in Ids /\ s.n <= latest[s.id].n
        BY <2>1 DEF RowsInv, DoneCounts, PageTypes, RequestsOf
      <3>. QED
        BY <1>10, <1>12, <3>1
    <2>2. CASE s = r
      <3>1. q.id \in done
        BY <1>2, <1>6, <1>7, <2>2 DEF Written
      <3>. QED
        BY <1>6, <1>9, <1>12, <2>2, <3>1
    <2>. QED
      BY <1>4, <2>1, <2>2
  <1>19. ReadsAgree'
    <2>1. LastReading' = LastReading /\ BatchRows' = BatchRows
      BY <1>1 DEF LastReading, BatchRows, Batches
    <2>2. \A i : ToBeRead(i) => ToBeRead(i)'
      BY <1>1, <1>4, <2>1 DEF ToBeRead, Writes
    <2>3. ASSUME NEW i \in done, i \notin unseen' PROVE ToBeRead(i)'
      <3>1. outcome = "done"
        BY <1>3, <1>9, <2>3 DEF Performed
      <3>. QED
        BY <1>4, <1>6, <1>7, <1>9, <2>3, <3>1 DEF ToBeRead, Writes
    <2>. QED
      BY <1>3, <1>11, <2>1, <2>2, <2>3 DEF RowsInv, ReadsAgree
  <1>20. NoList'
    BY <1>1 DEF RowsInv, NoList
  <1>. QED
    BY <1>13, <1>16, <1>17, <1>18, <1>19, <1>20 DEF RowsInv

\* A reading is sent: it brings what the API stores now.
LEMMA ReadingIs ==
  ASSUME RowsInv, NEW reader, NEW o \in ReadOutcomes
  PROVE  /\ Reading(reader, o) \in Readings /\ Reading(reader, o) # NoRead /\ Reading(reader, o).outcome = o
         /\ o = "done" => Reading(reader, o).rows = rows
  <1>1. o = "done" => Answer(reader, o) # Empty
    BY DEF Answer, Empty
  <1>2. Reading(reader, o).outcome = o /\ (o = "done" => Reading(reader, o).rows = rows)
    BY <1>1 DEF Reading
  <1>3. Reading(reader, o) \in Readings
    BY PageFacts DEF Reading, Readings, RowsInv, PageTypes
  <1>4. o # "none"
    BY DEF ReadOutcomes
  <1>. QED
    BY <1>2, <1>3, <1>4, PageFacts

LEMMA IssuedReads ==
  ASSUME RowsInv, NEW reader, NEW o \in ReadOutcomes, Issue(reader, o), page \notin Listless,
         UNCHANGED <<page, rows>>
  PROVE  ReadsAgree' /\ NoList' /\ list' \in [data : Readings, flight : Readings] /\ unseen' \subseteq unseen
  <1>1. PICK r : r = Reading(reader, o) /\ list' = [list EXCEPT !.flight = r]
    BY DEF Issue
  <1>2. r \in Readings /\ r # NoRead /\ r.outcome = o /\ (o = "done" => r.rows = rows)
    BY <1>1, ReadingIs
  <1>3. list' \in [data : Readings, flight : Readings] /\ list'.flight = r
    BY <1>1, <1>2 DEF RowsInv, PageTypes
  <1>4. LastReading' = r
    BY <1>2, <1>3 DEF LastReading
  <1>5. ReadsAgree'
    BY <1>2, <1>4 DEF ReadsAgree
  <1>6. unseen' \subseteq unseen
    BY DEF Issue
  <1>. QED
    BY <1>3, <1>5, <1>6 DEF NoList

LEMMA PolledRows ==
  ASSUME RowsInv, NEW reader, NEW o \in ReadOutcomes, Poll(reader, o), page \notin Listless
  PROVE  RowsInv'
  <1>1. UNCHANGED <<page, ui, rows, requests, sent, opened, latest, crossed>> /\ Issue(reader, o)
    BY DEF Poll
  <1>2. ReadsAgree' /\ NoList' /\ list' \in [data : Readings, flight : Readings] /\ unseen' \subseteq unseen
    BY <1>1, IssuedReads
  <1>3. PageTypes'
    <2>1. PageValues' = PageValues /\ Readings' = Readings /\ Limit' = Limit
      BY <1>1 DEF PageValues, Readings, Limit
    <2>. QED
      BY <1>1, <1>2, <2>1 DEF RowsInv, PageTypes, Numbered
  <1>4. SendsAgree' /\ LastStored' /\ DoneCounts'
    BY <1>1 DEF RowsInv, SendsAgree, LastStored, DoneCounts, ToWrite, Writes, Effect
  <1>. QED
    BY <1>2, <1>3, <1>4 DEF RowsInv

LEMMA LandedRows ==
  ASSUME RowsInv, NEW effect, Land(effect), BatchRows \subseteq BatchRows', page \notin Listless
  PROVE  RowsInv'
  <1>1. UNCHANGED <<page, rows, requests, sent, opened, latest, crossed, unseen>> /\ list.flight # NoRead /\ list' = Landed
    BY DEF Land
  <1>2. list' \in [data : Readings, flight : Readings] /\ LastReading' = LastReading
    BY <1>1, PageFacts DEF Landed, LastReading, RowsInv, PageTypes
  <1>3. PageTypes'
    <2>1. PageValues' = PageValues /\ Readings' = Readings /\ Limit' = Limit
      BY <1>1 DEF PageValues, Readings, Limit
    <2>. QED
      BY <1>1, <1>2, <2>1 DEF RowsInv, PageTypes, Numbered
  <1>4. SendsAgree' /\ LastStored' /\ DoneCounts'
    BY <1>1 DEF RowsInv, SendsAgree, LastStored, DoneCounts, ToWrite, Writes, Effect
  <1>5. \A i : ToBeRead(i) => ToBeRead(i)'
    BY <1>1 DEF ToBeRead, Writes
  <1>6. ReadsAgree' /\ NoList'
    BY <1>1, <1>2, <1>5 DEF RowsInv, ReadsAgree, NoList
  <1>. QED
    BY <1>3, <1>4, <1>6 DEF RowsInv

\* The page is left: its requests are answered to nobody, and go on.
LEMMA ReopenedRows ==
  ASSUME RowsInv, NEW empty, Reopen(empty), BatchRows \subseteq BatchRows'
  PROVE  RowsInv'
  <1>1. UNCHANGED <<page, rows, list, sent, latest, crossed, unseen>> /\ opened < MaxReopens /\ opened' = opened + 1
    BY DEF Reopen
  <1>2. requests' = {[q EXCEPT !.here = FALSE] : q \in requests}
    BY DEF Reopen
  <1>3. ASSUME NEW r \in requests'
        PROVE  \E q \in requests : /\ r = [q EXCEPT !.here = FALSE] /\ r \in RequestsOf(PageValues) /\ r.n = q.n /\ r.kind = q.kind
                                   /\ r.id = q.id /\ r.content = q.content /\ r.outcome = q.outcome
    <2>1. PICK q \in requests : r = [q EXCEPT !.here = FALSE]
      BY <1>2
    <2>2. q \in RequestsOf(PageValues)
      BY DEF RowsInv, PageTypes
    <2>. QED
      BY <2>1, <2>2 DEF RequestsOf
  <1>4. ASSUME NEW q \in requests
        PROVE  \E r \in requests' : r.id = q.id /\ r.outcome = q.outcome /\ r.kind = q.kind
    <2>1. q \in RequestsOf(PageValues) /\ [q EXCEPT !.here = FALSE] \in requests'
      BY <1>2 DEF RowsInv, PageTypes
    <2>. QED
      BY <2>1 DEF RequestsOf
  <1>5. PageTypes'
    <2>1. PageValues' = PageValues /\ Readings' = Readings /\ Limit' = Limit
      BY <1>1 DEF PageValues, Readings, Limit
    <2>2. opened' \in 0..MaxReopens
      BY <1>1, ConsoleAssumption DEF RowsInv, PageTypes
    <2>3. \A r \in requests' : r \in RequestsOf(PageValues) /\ r.n \in 1..sent
      BY <1>3 DEF RowsInv, PageTypes, Numbered
    <2>4. ASSUME NEW r \in requests', NEW s \in requests', r.n = s.n PROVE r = s
      <3>1. PICK q \in requests : r = [q EXCEPT !.here = FALSE] /\ r.n = q.n
        BY <1>3
      <3>2. PICK t \in requests : s = [t EXCEPT !.here = FALSE] /\ s.n = t.n
        BY <1>3
      <3>3. q.n = t.n
        BY <2>4, <3>1, <3>2
      <3>4. q = t
        BY <3>3 DEF RowsInv, PageTypes, Numbered
      <3>. QED
        BY <3>1, <3>2, <3>4
    <2>. QED
      BY <1>1, <2>1, <2>2, <2>3, <2>4 DEF RowsInv, PageTypes, Numbered
  <1>6. SendsAgree'
    <2>1. ASSUME NEW r \in requests'
          PROVE  \E q \in requests : /\ (ToWrite(r) <=> ToWrite(q)) /\ Effect(r) = Effect(q) /\ r.id = q.id /\ r.n = q.n
      BY <1>3 DEF ToWrite, Writes, Effect
    <2>2. \A r : (ToWrite(r)' <=> ToWrite(r)) /\ Effect(r)' = Effect(r)
      BY DEF ToWrite, Writes, Effect
    <2> SUFFICES ASSUME NEW r \in requests', ToWrite(r), r.id \notin crossed
                 PROVE  /\ r.n > latest[r.id].n \/ Effect(r) = latest[r.id].content
                        /\ \A s \in requests' : ToWrite(s) /\ s.id = r.id => Effect(s) = Effect(r)
      BY <1>1, <2>2 DEF SendsAgree
    <2>. QED
      BY <2>1 DEF RowsInv, SendsAgree
  <1>7. LastStored' /\ NoList'
    BY <1>1 DEF RowsInv, LastStored, NoList
  <1>8. DoneCounts'
    BY <1>1, <1>3 DEF RowsInv, DoneCounts, Writes, Performed
  <1>9. ReadsAgree'
    <2>1. \A i : ToBeRead(i) => ToBeRead(i)'
      BY <1>4 DEF ToBeRead, Writes
    <2>. QED
      BY <1>1, <2>1 DEF RowsInv, ReadsAgree, LastReading
  <1>. QED
    BY <1>5, <1>6, <1>7, <1>8, <1>9 DEF RowsInv

\* A request is over: what is stored, and what the other requests will store, stays.
LEMMA OverRows ==
  ASSUME RowsInv, NEW q \in requests, Over(q), list' \in [data : Readings, flight : Readings], unseen' \subseteq Ids
  PROVE  PageTypes' /\ SendsAgree' /\ LastStored' /\ DoneCounts'
  <1>1. UNCHANGED <<page, rows, sent, opened, latest, crossed>> /\ requests' = requests \ {q}
    BY DEF Over
  <1>2. PageValues' = PageValues /\ Readings' = Readings /\ Limit' = Limit
    BY <1>1 DEF PageValues, Readings, Limit
  <1>3. Numbered'
    BY <1>1, <1>2 DEF RowsInv, PageTypes, Numbered
  <1>4. PageTypes'
    BY <1>1, <1>2, <1>3 DEF RowsInv, PageTypes
  <1>5. SendsAgree' /\ LastStored' /\ DoneCounts'
    BY <1>1 DEF RowsInv, SendsAgree, LastStored, DoneCounts, ToWrite, Writes, Effect
  <1>. QED
    BY <1>4, <1>5

\* ... and the page needs no reading, or has no list.
LEMMA DroppedRows ==
  ASSUME RowsInv, NEW q \in requests, Over(q), UNCHANGED <<list, unseen>>,
         ((q.outcome # "done" \/ ~Writes(q)) /\ BatchRows \subseteq BatchRows') \/ page \in Listless
  PROVE  RowsInv'
  <1>1. UNCHANGED <<page, rows, sent, opened, latest, crossed>> /\ requests' = requests \ {q}
    BY DEF Over
  <1>2. PageTypes' /\ SendsAgree' /\ LastStored' /\ DoneCounts'
    <2>1. list' \in [data : Readings, flight : Readings] /\ unseen' \subseteq Ids
      BY DEF RowsInv, PageTypes
    <2>. QED
      BY <2>1, OverRows
  <1>3. NoList' /\ LastReading' = LastReading
    BY <1>1 DEF RowsInv, NoList, LastReading
  <1>4. CASE (q.outcome # "done" \/ ~Writes(q)) /\ BatchRows \subseteq BatchRows'
    <2>1. \A i : ToBeRead(i) => ToBeRead(i)'
      BY <1>1, <1>4 DEF ToBeRead, Writes
    <2>2. ReadsAgree'
      BY <1>1, <1>3, <2>1 DEF RowsInv, ReadsAgree
    <2>. QED
      BY <1>2, <1>3, <2>2 DEF RowsInv
  <1>5. CASE page \in Listless
    <2>1. LastReading = NoRead
      BY <1>5 DEF RowsInv, NoList, LastReading
    <2>2. ReadsAgree'
      BY <1>3, <2>1, PageFacts DEF ReadsAgree
    <2>. QED
      BY <1>2, <1>3, <2>2 DEF RowsInv
  <1>. QED
    BY <1>4, <1>5

\* ... and the list is read again.
LEMMA InvalidatedRows ==
  ASSUME RowsInv, NEW q \in requests, Over(q), NEW reader, NEW o \in ReadOutcomes, NEW ids \in SUBSET Ids,
         q.id \in ids, InvalidateAfter(reader, o, ids), BatchRows \subseteq BatchRows' \cup ids, page \notin Listless
  PROVE  RowsInv'
  <1>1. UNCHANGED <<page, rows, sent, opened, latest, crossed>> /\ requests' = requests \ {q}
    BY DEF Over
  <1>2. ReadsAgree' /\ NoList' /\ list' \in [data : Readings, flight : Readings] /\ unseen' \subseteq Ids
    <2>1. CASE JoinsFirst
      <3>1. UNCHANGED list /\ unseen' = unseen \cup ids
        BY <2>1 DEF InvalidateAfter
      <3>2. \A i : i \notin ids /\ ToBeRead(i) => ToBeRead(i)'
        BY <1>1 DEF ToBeRead, Writes
      <3>3. LastReading' = LastReading
        BY <3>1 DEF LastReading
      <3>4. ReadsAgree'
        BY <1>1, <3>1, <3>2, <3>3 DEF RowsInv, ReadsAgree
      <3>. QED
        BY <1>1, <3>1, <3>4 DEF RowsInv, PageTypes, NoList
    <2>2. CASE ~JoinsFirst
      <3>1. Issue(reader, o)
        BY <2>2 DEF InvalidateAfter
      <3>2. ReadsAgree' /\ NoList' /\ list' \in [data : Readings, flight : Readings] /\ unseen' \subseteq unseen
        BY <1>1, <3>1, IssuedReads
      <3>. QED
        BY <3>2 DEF RowsInv, PageTypes
    <2>. QED
      BY <2>1, <2>2
  <1>3. PageTypes' /\ SendsAgree' /\ LastStored' /\ DoneCounts'
    BY <1>2, OverRows
  <1>. QED
    BY <1>2, <1>3 DEF RowsInv

\* One row was written.
LEMMA ReadAgainRows ==
  ASSUME RowsInv, NEW q \in requests, Over(q), NEW reader, NEW o \in ReadOutcomes, Invalidate(reader, o, q),
         BatchRows \subseteq BatchRows', page \notin Listless
  PROVE  RowsInv'
  <1>1. {q.id} \in SUBSET Ids
    BY DEF RowsInv, PageTypes, RequestsOf
  <1>2. InvalidateAfter(reader, o, {q.id})
    BY DEF Invalidate
  <1>3. BatchRows \subseteq BatchRows' \cup {q.id} /\ q.id \in {q.id}
    OBVIOUS
  <1>. QED
    BY <1>1, <1>2, <1>3, InvalidatedRows

\* ... if the API confirmed it.
LEMMA MaybeReadAgainRows ==
  ASSUME RowsInv, NEW q \in requests, Over(q), NEW call, NEW reader, NEW o \in ReadOutcomes,
         IF Confirms(call, q.outcome) THEN Invalidate(reader, o, q) ELSE UNCHANGED <<list, unseen>>,
         BatchRows \subseteq BatchRows', page \notin Listless
  PROVE  RowsInv'
  <1>1. CASE Confirms(call, q.outcome)
    <2>1. Invalidate(reader, o, q)
      BY <1>1
    <2>. QED
      BY <2>1, ReadAgainRows
  <1>2. CASE ~Confirms(call, q.outcome)
    <2>1. q.outcome # "done"
      BY <1>2 DEF Confirms, Answer
    <2>2. UNCHANGED <<list, unseen>>
      BY <1>2
    <2>. QED
      BY <2>1, <2>2, DroppedRows
  <1>. QED
    BY <1>1, <1>2

\* Only the pages with batches have rows that a batch is going to read.
LEMMA NoBatches ==
  ASSUME page \notin BatchPageNames, UNCHANGED page
  PROVE  BatchRows = {} /\ BatchRows' = {} /\ BatchRows \subseteq BatchRows'
  BY DEF BatchRows, Batches

LEMMA ShownFacts ==
  ASSUME RowsInv
  PROVE  /\ Shown \in [Ids -> PageValues] /\ list.data \in Readings /\ list.flight \in Readings
         /\ page \notin {"approvals", "approval-queue"} => PageValues = Contents \cup {Blank}
         /\ PageValues \subseteq Values
         /\ Listed \subseteq Ids /\ \A i \in Listed : Shown[i] # Blank
  BY DEF RowsInv, PageTypes, Shown, Readings, PageValues, Values, Listed

\* What the invariant says of the properties that every page has.
LEMMA RowsGood ==
  ASSUME RowsInv, requests = {} => BatchRows = {}
  PROVE  BaseTypeOK /\ ShowsOwnWrites /\ LastWriteWins
  <1>1. BaseTypeOK
    <2>1. PageValues \subseteq Values
      BY ShownFacts
    <2>2. rows \in [Ids -> Values] /\ {list.data, list.flight} \subseteq [rows : [Ids -> Values], outcome : ReadOutcomes \cup {"none"}]
      <3>1. list.data \in Readings /\ list.flight \in Readings
        BY ShownFacts
      <3>2. \A r \in Readings : r \in [rows : [Ids -> Values], outcome : ReadOutcomes \cup {"none"}]
        BY <2>1 DEF Readings
      <3>. QED
        BY <2>1, <3>1, <3>2 DEF RowsInv, PageTypes
    <2>3. sent \in 0..Limit /\ Limit \in Nat /\ opened \in 0..MaxReopens /\ crossed \subseteq Ids /\ unseen \subseteq Ids
          /\ \A q, s \in requests : q.n = s.n => q = s
      BY PageFacts DEF RowsInv, PageTypes, Numbered
    <2>4. ASSUME NEW q \in requests
          PROVE  q \in [n : 1..Limit, kind : Kinds, id : Ids, content : Values, outcome : {"sent"} \cup Outcomes, here : BOOLEAN]
      <3>1. q.n \in 1..Limit
        BY <2>3 DEF RowsInv, PageTypes, Numbered
      <3>. QED
        BY <2>1, <3>1 DEF RowsInv, PageTypes, RequestsOf
    <2>5. latest \in [Ids -> [n : 0..Limit, content : Values]]
      <3>1. \A i \in Ids : latest[i] \in [n : Nat, content : PageValues] /\ latest[i].n <= sent
        BY DEF RowsInv, PageTypes
      <3>2. \A i \in Ids : latest[i].n \in 0..Limit
        BY <2>3, <3>1
      <3>3. \A i \in Ids : latest[i] \in [n : 0..Limit, content : Values]
        BY <2>1, <3>1, <3>2
      <3>. QED
        BY <3>3 DEF RowsInv, PageTypes
    <2>. QED
      BY <2>2, <2>3, <2>4, <2>5 DEF BaseTypeOK
  <1>2. ShowsOwnWrites
    <2> SUFFICES ASSUME NoneComing, list.data.outcome = "done", NEW i \in Ids \ unseen PROVE Shown[i] = rows[i]
      BY DEF ShowsOwnWrites
    <2>1. LastReading = list.data
      BY DEF NoneComing, LastReading
    <2>2. ~ToBeRead(i)
      BY DEF NoneComing, ToBeRead
    <2>. QED
      BY <2>1, <2>2 DEF RowsInv, ReadsAgree, Shown
  <1>3. LastWriteWins
    BY DEF RowsInv, LastStored, LastWriteWins
  <1>. QED
    BY <1>1, <1>2, <1>3

(***************************************************************************)
(* The editors                                                             *)
(***************************************************************************)
EditorInv == page \in EditorPageNames /\ RowsInv /\ ui \in EditorUi /\ ~ui.lost

\* The steps of an editor, by what they do to the requests and the list.
LEMMA EditorQuiet ==
  ASSUME EditorInv, UNCHANGED Local, ui' \in EditorUi, ~ui'.lost
  PROVE  EditorInv'
  <1>1. page \notin BatchPageNames /\ page' = page
    BY DEF EditorInv, EditorPageNames, BatchPageNames, AutomationNames, Local
  <1>2. RowsInv'
    BY <1>1, QuietRows, NoBatches DEF EditorInv
  <1>. QED
    BY <1>1, <1>2 DEF EditorInv, EditorUi

LEMMA EditorSent ==
  ASSUME EditorInv, NEW kind \in Kinds, NEW id \in Ids, NEW content \in Contents \cup {Blank},
         Fit(kind), Request(kind, id, content), UNCHANGED Click, UNCHANGED ui
  PROVE  EditorInv'
  <1>1. page \notin BatchPageNames /\ page' = page /\ content \in PageValues
    BY DEF EditorInv, EditorPageNames, BatchPageNames, AutomationNames, Click, PageValues
  <1>2. RowsInv'
    BY <1>1, SentRows, NoBatches DEF EditorInv
  <1>. QED
    BY <1>1, <1>2 DEF EditorInv, EditorUi

LEMMA EditorPolled ==
  ASSUME EditorInv, NEW reader, NEW o \in ReadOutcomes, Poll(reader, o)
  PROVE  EditorInv'
  <1>1. page \notin Listless /\ ui' = ui /\ page' = page
    BY DEF EditorInv, EditorPageNames, Listless, Poll
  <1>2. RowsInv'
    BY <1>1, PolledRows DEF EditorInv
  <1>. QED
    BY <1>1, <1>2 DEF EditorInv, EditorUi

LEMMA EditorReadAgain ==
  ASSUME EditorInv, NEW q \in requests, Over(q), ui' \in EditorUi, ~ui'.lost,
         NEW reader, NEW o \in ReadOutcomes, Invalidate(reader, o, q)
  PROVE  EditorInv'
  <1>1. page \notin BatchPageNames /\ page \notin Listless /\ page' = page
    BY DEF EditorInv, EditorPageNames, BatchPageNames, AutomationNames, Listless, Over
  <1>2. RowsInv'
    BY <1>1, ReadAgainRows, NoBatches DEF EditorInv
  <1>. QED
    BY <1>1, <1>2 DEF EditorInv, EditorUi

LEMMA EditorDropped ==
  ASSUME EditorInv, NEW q \in requests, Over(q), ui' \in EditorUi, ~ui'.lost,
         UNCHANGED <<list, unseen>>, q.outcome # "done" \/ ~Writes(q)
  PROVE  EditorInv'
  <1>1. page \notin BatchPageNames /\ page \notin Listless /\ page' = page
    BY DEF EditorInv, EditorPageNames, BatchPageNames, AutomationNames, Listless, Over
  <1>2. RowsInv'
    BY <1>1, DroppedRows, NoBatches DEF EditorInv
  <1>. QED
    BY <1>1, <1>2 DEF EditorInv, EditorUi

LEMMA FormFacts ==
  ASSUME EditorInv
  PROVE  /\ EmptyForm \in EditorUi /\ ~EmptyForm.lost /\ [EmptyForm EXCEPT !.selected = ui.selected] \in EditorUi
         /\ \A i \in Listed : Filled(i) \in EditorUi /\ ~Filled(i).lost
         /\ \A i \in Listed : [Filled(i) EXCEPT !.selected = Blank] \in EditorUi
         /\ \A d \in Drafts : Typed(d[1], d[2]) \in EditorUi /\ ~Typed(d[1], d[2]).lost
         /\ \A d \in Drafts : d[1] \in Ids /\ d[2] \in Contents
         /\ \A i \in Ids : [ui EXCEPT !.selected = i] \in EditorUi
         /\ \A i \in Ids \cup {Blank} : [ui EXCEPT !.selected = i] \in EditorUi
         /\ Complete => ui.id \in Ids /\ ui.content \in Contents
         /\ ui.selected # Blank => ui.selected \in Ids
  <1>1. \A i \in Listed : i \in Ids /\ Shown[i] \in Contents \cup {Blank}
    BY ShownFacts DEF EditorInv, EditorPageNames
  <1>2. \A i \in Listed : Filled(i) \in EditorUi /\ ~Filled(i).lost /\ [Filled(i) EXCEPT !.selected = Blank] \in EditorUi
    BY <1>1 DEF Filled, EditorUi
  <1>3. \A d \in Drafts : d[1] \in Ids /\ d[2] \in Contents
    BY ConsoleAssumption
  <1>4. \A i \in Ids, c \in Contents : Typed(i, c) \in EditorUi /\ ~Typed(i, c).lost
    BY DEF Typed, EditorInv, EditorUi
  <1>5. EmptyForm \in EditorUi /\ ~EmptyForm.lost /\ [EmptyForm EXCEPT !.selected = ui.selected] \in EditorUi
    BY DEF EmptyForm, EditorInv, EditorUi
  <1>6. \A i \in Ids \cup {Blank} : [ui EXCEPT !.selected = i] \in EditorUi
    BY DEF EditorInv, EditorUi
  <1>7. /\ Complete => ui.id \in Ids /\ ui.content \in Contents
        /\ ui.selected # Blank => ui.selected \in Ids
    BY DEF EditorInv, EditorUi, Complete
  <1>. QED
    BY <1>2, <1>3, <1>4, <1>5, <1>6, <1>7

\* What a page is told of a call is a list read again, or nothing it has done.
LEMMA ConfirmedOrNot ==
  ASSUME NEW call, NEW q
  PROVE  q.outcome = "done" => Confirms(call, q.outcome)
  BY DEF Confirms, Answer

SkillActs ==
  \/ \E o \in ReadOutcomes : SkillQuery(o)
  \/ \E d \in Drafts : SkillType(d[1], d[2]) \/ SkillSync(d[1], d[2])
  \/ \E i \in Ids : SkillSelect(i)
  \/ SkillClear \/ SkillSave \/ SkillDelete
  \/ \E q \in requests, o \in ReadOutcomes : SkillSaved(q, o) \/ SkillDeleted(q, o) \/ SkillSynced(q, o)

LEMMA SkillStep ==
  ASSUME EditorInv, page = "skills", SkillActs
  PROVE  EditorInv'
  <1>1. ui \in EditorUi /\ ~ui.lost
    BY DEF EditorInv
  <1>2. \A v : SetUi(v, EmptyForm) => ui' \in EditorUi /\ ~ui'.lost
    BY <1>1, FormFacts DEF SetUi, EditorInv
  <1>3. ASSUME NEW o \in ReadOutcomes, SkillQuery(o) PROVE EditorInv'
    BY <1>1, <1>3, EditorPolled DEF SkillQuery
  <1>4. ASSUME NEW d \in Drafts, SkillType(d[1], d[2]) PROVE EditorInv'
    BY <1>1, <1>4, EditorQuiet, FormFacts DEF SkillType
  <1>5. ASSUME NEW d \in Drafts, SkillSync(d[1], d[2]) PROVE EditorInv'
    <2>1. d[1] \in Ids /\ d[2] \in Contents \cup {Blank} /\ "sync" \in Kinds /\ Fit("sync")
      BY <1>1, <1>5, FormFacts DEF SkillSync, Kinds, Fit
    <2>. QED
      BY <1>1, <1>5, <2>1, EditorSent DEF SkillSync
  <1>6. ASSUME NEW i \in Ids, SkillSelect(i) PROVE EditorInv'
    BY <1>1, <1>6, EditorQuiet, FormFacts DEF SkillSelect
  <1>7. CASE SkillClear
    BY <1>1, <1>7, EditorQuiet, FormFacts DEF SkillClear
  <1>8. CASE SkillSave
    <2>1. ui.id \in Ids /\ ui.content \in Contents \cup {Blank} /\ "save" \in Kinds /\ Fit("save")
      BY <1>1, <1>8, FormFacts DEF SkillSave, SkillCanSave, Kinds, Fit
    <2>. QED
      BY <1>1, <1>8, <2>1, EditorSent DEF SkillSave
  <1>9. CASE SkillDelete
    <2>1. ui.selected \in Ids /\ Blank \in Contents \cup {Blank} /\ "delete" \in Kinds /\ Fit("delete")
      BY <1>1, <1>9, FormFacts DEF SkillDelete, Kinds, Fit
    <2>. QED
      BY <1>1, <1>9, <2>1, EditorSent DEF SkillDelete
  <1>10. ASSUME NEW q \in requests, NEW o \in ReadOutcomes, SkillSaved(q, o) PROVE EditorInv'
    <2>1. ui' \in EditorUi /\ ~ui'.lost
      <3>1. [ui EXCEPT !.selected = ui.id] \in EditorUi
        BY DEF EditorInv, EditorUi
      <3>. QED
        BY <1>10, <3>1 DEF SkillSaved, SetUi, EditorInv, EditorUi
    <2>. QED
      BY <1>1, <1>10, <2>1, EditorReadAgain DEF SkillSaved
  <1>11. ASSUME NEW q \in requests, NEW o \in ReadOutcomes, SkillDeleted(q, o) PROVE EditorInv'
    BY <1>1, <1>2, <1>11, EditorReadAgain DEF SkillDeleted
  <1>12. ASSUME NEW q \in requests, NEW o \in ReadOutcomes, SkillSynced(q, o) PROVE EditorInv'
    BY <1>1, <1>12, EditorReadAgain DEF SkillSynced, EditorInv
  <1>. QED
    BY <1>3, <1>4, <1>5, <1>6, <1>7, <1>8, <1>9, <1>10, <1>11, <1>12 DEF SkillActs

TriggerActs ==
  \/ \E o \in ReadOutcomes : TriggerQuery(o)
  \/ \E d \in Drafts : TriggerType(d[1], d[2])
  \/ \E i \in Ids : TriggerSelect(i)
  \/ TriggerDeselect \/ TriggerReset \/ TriggerSave \/ TriggerDelete \/ TriggerFire
  \/ \E q \in requests, o \in ReadOutcomes : TriggerSaved(q, o) \/ TriggerDeleted(q, o)
  \/ \E q \in requests : TriggerFired(q)

LEMMA TriggerStep ==
  ASSUME EditorInv, page = "triggers", TriggerActs
  PROVE  EditorInv'
  <1>1. ui \in EditorUi /\ ~ui.lost
    BY DEF EditorInv
  <1>2. ASSUME NEW o \in ReadOutcomes, TriggerQuery(o) PROVE EditorInv'
    BY <1>1, <1>2, EditorPolled DEF TriggerQuery
  <1>3. ASSUME NEW d \in Drafts, TriggerType(d[1], d[2]) PROVE EditorInv'
    BY <1>1, <1>3, EditorQuiet, FormFacts DEF TriggerType
  <1>4. ASSUME NEW i \in Ids, TriggerSelect(i) PROVE EditorInv'
    BY <1>1, <1>4, EditorQuiet, FormFacts DEF TriggerSelect
  <1>5. CASE TriggerDeselect
    BY <1>1, <1>5, EditorQuiet, FormFacts DEF TriggerDeselect
  <1>6. CASE TriggerReset
    <2>1. [EmptyForm EXCEPT !.selected = ui.selected].lost = FALSE
      BY DEF EmptyForm
    <2>. QED
      BY <1>1, <1>6, <2>1, EditorQuiet, FormFacts DEF TriggerReset
  <1>7. CASE TriggerSave
    <2>1. ui.id \in Ids /\ ui.content \in Contents \cup {Blank} /\ "save" \in Kinds /\ Fit("save")
      BY <1>1, <1>7, FormFacts DEF TriggerSave, TriggerCanSave, Kinds, Fit
    <2>. QED
      BY <1>1, <1>7, <2>1, EditorSent DEF TriggerSave
  <1>8. CASE TriggerDelete
    <2>1. ui.selected \in Ids /\ Blank \in Contents \cup {Blank} /\ "delete" \in Kinds /\ Fit("delete")
      BY <1>1, <1>8, FormFacts DEF TriggerDelete, Kinds, Fit
    <2>. QED
      BY <1>1, <1>8, <2>1, EditorSent DEF TriggerDelete
  <1>9. CASE TriggerFire
    <2>1. ui.selected \in Ids /\ Blank \in Contents \cup {Blank} /\ "act" \in Kinds /\ Fit("act")
      BY <1>1, <1>9, ShownFacts DEF TriggerFire, Kinds, Fit, EditorInv
    <2>. QED
      BY <1>1, <1>9, <2>1, EditorSent DEF TriggerFire
  <1>10. ASSUME NEW q \in requests, NEW o \in ReadOutcomes, TriggerSaved(q, o) PROVE EditorInv'
    <2>1. q.id \in Ids
      BY DEF EditorInv, RowsInv, PageTypes, RequestsOf
    <2>2. CASE Confirms("upsertTrigger", q.outcome)
      <3>1. PICK v : v = (IF ui.selected = q.id THEN ui
                          ELSE IF q.id \in Listed THEN Filled(q.id) ELSE [ui EXCEPT !.selected = q.id])
        OBVIOUS
      <3>2. SetUi(q, v) /\ Over(q) /\ Invalidate("getTriggers", o, q)
        BY <1>10, <2>2, <3>1 DEF TriggerSaved
      <3>3. v \in EditorUi /\ ~v.lost
        <4>1. [ui EXCEPT !.selected = q.id] \in EditorUi /\ ~[ui EXCEPT !.selected = q.id].lost
          BY <1>1, <2>1, FormFacts DEF EditorUi
        <4>2. q.id \in Listed => Filled(q.id) \in EditorUi /\ ~Filled(q.id).lost
          BY <1>1, FormFacts
        <4>. QED
          BY <1>1, <3>1, <4>1, <4>2
      <3>4. ui' \in EditorUi /\ ~ui'.lost
        BY <1>1, <3>2, <3>3 DEF SetUi
      <3>. QED
        BY <1>1, <3>2, <3>4, EditorReadAgain
    <2>3. CASE ~Confirms("upsertTrigger", q.outcome)
      BY <1>1, <1>10, <2>3, ConfirmedOrNot, EditorDropped DEF TriggerSaved
    <2>. QED
      BY <2>2, <2>3
  <1>11. ASSUME NEW q \in requests, NEW o \in ReadOutcomes, TriggerDeleted(q, o) PROVE EditorInv'
    <2>1. ui' \in EditorUi /\ ~ui'.lost
      BY <1>1, <1>11, FormFacts DEF TriggerDeleted, SetUi
    <2>. QED
      BY <1>1, <1>11, <2>1, EditorReadAgain DEF TriggerDeleted
  <1>12. ASSUME NEW q \in requests, TriggerFired(q) PROVE EditorInv'
    <2>1. ~Writes(q)
      BY <1>12 DEF TriggerFired, Writes
    <2>. QED
      BY <1>1, <1>12, <2>1, EditorDropped DEF TriggerFired
  <1>. QED
    BY <1>2, <1>3, <1>4, <1>5, <1>6, <1>7, <1>8, <1>9, <1>10, <1>11, <1>12 DEF TriggerActs

TabActs ==
  \/ \E o \in ReadOutcomes : TabQuery(o)
  \/ \E d \in Drafts : TabType(d[1], d[2])
  \/ \E i \in Ids : TabEdit(i) \/ TabDelete(i) \/ TabTest(i)
  \/ TabReset \/ TabSave
  \/ \E q \in requests, o \in ReadOutcomes : TabSaved(q, o) \/ TabDeleted(q, o)
  \/ \E q \in requests : TabTested(q)

LEMMA TabStep ==
  ASSUME EditorInv, page = "triggers-tab", TabActs
  PROVE  EditorInv'
  <1>1. ui \in EditorUi /\ ~ui.lost
    BY DEF EditorInv
  <1>2. ASSUME NEW o \in ReadOutcomes, TabQuery(o) PROVE EditorInv'
    BY <1>1, <1>2, EditorPolled DEF TabQuery
  <1>3. ASSUME NEW d \in Drafts, TabType(d[1], d[2]) PROVE EditorInv'
    <2>1. Typed(d[1], d[2]) \in EditorUi /\ ~Typed(d[1], d[2]).lost
      BY <1>1, FormFacts
    <2>2. [Typed(d[1], d[2]) EXCEPT !.dirty = FALSE] \in EditorUi /\ ~[Typed(d[1], d[2]) EXCEPT !.dirty = FALSE].lost
      BY <2>1 DEF EditorUi
    <2>. QED
      BY <1>1, <1>3, <2>2, EditorQuiet DEF TabType
  <1>4. ASSUME NEW i \in Ids, TabEdit(i) PROVE EditorInv'
    <2>1. [Filled(i) EXCEPT !.selected = Blank].lost = FALSE
      BY DEF Filled
    <2>. QED
      BY <1>1, <1>4, <2>1, EditorQuiet, FormFacts DEF TabEdit
  <1>5. ASSUME NEW i \in Ids, TabDelete(i) PROVE EditorInv'
    <2>1. Blank \in Contents \cup {Blank} /\ "delete" \in Kinds /\ Fit("delete")
      BY DEF Kinds, Fit
    <2>. QED
      BY <1>1, <1>5, <2>1, EditorSent DEF TabDelete
  <1>6. ASSUME NEW i \in Ids, TabTest(i) PROVE EditorInv'
    <2>1. Blank \in Contents \cup {Blank} /\ "act" \in Kinds /\ Fit("act")
      BY DEF Kinds, Fit
    <2>. QED
      BY <1>1, <1>6, <2>1, EditorSent DEF TabTest
  <1>7. CASE TabReset
    BY <1>1, <1>7, EditorQuiet, FormFacts DEF TabReset
  <1>8. CASE TabSave
    <2>1. ui.id \in Ids /\ ui.content \in Contents \cup {Blank} /\ "save" \in Kinds /\ Fit("save")
      BY <1>1, <1>8, FormFacts DEF TabSave, TabCanSave, Kinds, Fit
    <2>. QED
      BY <1>1, <1>8, <2>1, EditorSent DEF TabSave
  <1>9. ASSUME NEW q \in requests, NEW o \in ReadOutcomes, TabSaved(q, o) PROVE EditorInv'
    <2>1. ui' \in EditorUi /\ ~ui'.lost
      BY <1>1, <1>9, FormFacts DEF TabSaved, SetUi
    <2>. QED
      BY <1>1, <1>9, <2>1, EditorReadAgain DEF TabSaved
  <1>10. ASSUME NEW q \in requests, NEW o \in ReadOutcomes, TabDeleted(q, o) PROVE EditorInv'
    BY <1>1, <1>10, EditorReadAgain DEF TabDeleted
  <1>11. ASSUME NEW q \in requests, TabTested(q) PROVE EditorInv'
    <2>1. ~Writes(q)
      BY <1>11 DEF TabTested, Writes
    <2>. QED
      BY <1>1, <1>11, <2>1, EditorDropped DEF TabTested
  <1>. QED
    BY <1>2, <1>3, <1>4, <1>5, <1>6, <1>7, <1>8, <1>9, <1>10, <1>11 DEF TabActs

ExperimentActs ==
  \/ \E o \in ReadOutcomes : ExperimentQuery(o)
  \/ \E d \in Drafts : ExperimentType(d[1], d[2])
  \/ \E i \in Ids, c \in Contents : ExperimentToggle(i, c)
  \/ \E i \in Ids : ExperimentEdit(i) \/ ExperimentDelete(i)
  \/ ExperimentReset \/ ExperimentSave
  \/ \E q \in requests, o \in ReadOutcomes :
       ExperimentSaved(q, o) \/ ExperimentToggled(q, o) \/ ExperimentDeleted(q, o)

LEMMA ExperimentStep ==
  ASSUME EditorInv, page = "experiments", ExperimentActs
  PROVE  EditorInv'
  <1>1. ui \in EditorUi /\ ~ui.lost
    BY DEF EditorInv
  <1>2. ASSUME NEW o \in ReadOutcomes, ExperimentQuery(o) PROVE EditorInv'
    BY <1>1, <1>2, EditorPolled DEF ExperimentQuery
  <1>3. ASSUME NEW d \in Drafts, ExperimentType(d[1], d[2]) PROVE EditorInv'
    <2>1. Typed(d[1], d[2]) \in EditorUi /\ ~Typed(d[1], d[2]).lost
      BY <1>1, FormFacts
    <2>2. [Typed(d[1], d[2]) EXCEPT !.dirty = FALSE] \in EditorUi /\ ~[Typed(d[1], d[2]) EXCEPT !.dirty = FALSE].lost
      BY <2>1 DEF EditorUi
    <2>. QED
      BY <1>1, <1>3, <2>2, EditorQuiet DEF ExperimentType
  <1>4. ASSUME NEW i \in Ids, NEW c \in Contents, ExperimentToggle(i, c) PROVE EditorInv'
    <2>1. c \in Contents \cup {Blank} /\ "toggle" \in Kinds /\ Fit("toggle")
      BY <1>4 DEF ExperimentToggle, Kinds, Fit
    <2>. QED
      BY <1>1, <1>4, <2>1, EditorSent DEF ExperimentToggle
  <1>5. ASSUME NEW i \in Ids, ExperimentEdit(i) PROVE EditorInv'
    BY <1>1, <1>5, EditorQuiet, FormFacts DEF ExperimentEdit
  <1>6. ASSUME NEW i \in Ids, ExperimentDelete(i) PROVE EditorInv'
    <2>1. Blank \in Contents \cup {Blank} /\ "delete" \in Kinds /\ Fit("delete")
      BY DEF Kinds, Fit
    <2>. QED
      BY <1>1, <1>6, <2>1, EditorSent DEF ExperimentDelete
  <1>7. CASE ExperimentReset
    BY <1>1, <1>7, EditorQuiet, FormFacts DEF ExperimentReset
  <1>8. CASE ExperimentSave
    <2>1. ui.id \in Ids /\ ui.content \in Contents \cup {Blank} /\ "save" \in Kinds /\ Fit("save")
      BY <1>1, <1>8, FormFacts DEF ExperimentSave, ExperimentCanSave, Kinds, Fit
    <2>. QED
      BY <1>1, <1>8, <2>1, EditorSent DEF ExperimentSave
  <1>9. ASSUME NEW q \in requests, NEW o \in ReadOutcomes, ExperimentSaved(q, o) PROVE EditorInv'
    <2>1. CASE Confirms("upsertExperiment", q.outcome)
      <3>1. ui' \in EditorUi /\ ~ui'.lost
        BY <1>1, <1>9, <2>1, FormFacts DEF ExperimentSaved, SetUi
      <3>. QED
        BY <1>1, <1>9, <2>1, <3>1, EditorReadAgain DEF ExperimentSaved
    <2>2. CASE ~Confirms("upsertExperiment", q.outcome)
      BY <1>1, <1>9, <2>2, ConfirmedOrNot, EditorDropped DEF ExperimentSaved
    <2>. QED
      BY <2>1, <2>2
  <1>10. ASSUME NEW q \in requests, NEW o \in ReadOutcomes, ExperimentToggled(q, o) PROVE EditorInv'
    <2>1. CASE Confirms("setExperimentEnabled", q.outcome)
      BY <1>1, <1>10, <2>1, EditorReadAgain DEF ExperimentToggled
    <2>2. CASE ~Confirms("setExperimentEnabled", q.outcome)
      BY <1>1, <1>10, <2>2, ConfirmedOrNot, EditorDropped DEF ExperimentToggled
    <2>. QED
      BY <2>1, <2>2
  <1>11. ASSUME NEW q \in requests, NEW o \in ReadOutcomes, ExperimentDeleted(q, o) PROVE EditorInv'
    <2>1. CASE Confirms("deleteExperiment", q.outcome)
      <3>1. ui' \in EditorUi /\ ~ui'.lost
        BY <1>1, <1>11, <2>1, FormFacts DEF ExperimentDeleted, SetUi
      <3>. QED
        BY <1>1, <1>11, <2>1, <3>1, EditorReadAgain DEF ExperimentDeleted
    <2>2. CASE ~Confirms("deleteExperiment", q.outcome)
      BY <1>1, <1>11, <2>2, ConfirmedOrNot, EditorDropped DEF ExperimentDeleted
    <2>. QED
      BY <2>1, <2>2
  <1>. QED
    BY <1>2, <1>3, <1>4, <1>5, <1>6, <1>7, <1>8, <1>9, <1>10, <1>11 DEF ExperimentActs

ArmoryActs ==
  \/ \E o \in ReadOutcomes : ArmoryQuery(o)
  \/ \E d \in Drafts : ArmoryType(d[1], d[2])
  \/ ArmoryAdd
  \/ \E q \in requests, o \in ReadOutcomes : ArmoryAdded(q, o)

LEMMA ArmoryStep ==
  ASSUME EditorInv, page = "armory", ArmoryActs
  PROVE  EditorInv'
  <1>1. ui \in EditorUi /\ ~ui.lost
    BY DEF EditorInv
  <1>2. ASSUME NEW o \in ReadOutcomes, ArmoryQuery(o) PROVE EditorInv'
    BY <1>1, <1>2, EditorPolled DEF ArmoryQuery
  <1>3. ASSUME NEW d \in Drafts, ArmoryType(d[1], d[2]) PROVE EditorInv'
    <2>1. Typed(d[1], d[2]) \in EditorUi /\ ~Typed(d[1], d[2]).lost
      BY <1>1, FormFacts
    <2>2. [Typed(d[1], d[2]) EXCEPT !.dirty = FALSE] \in EditorUi /\ ~[Typed(d[1], d[2]) EXCEPT !.dirty = FALSE].lost
      BY <2>1 DEF EditorUi
    <2>. QED
      BY <1>1, <1>3, <2>2, EditorQuiet DEF ArmoryType
  <1>4. CASE ArmoryAdd
    <2>1. ui.id \in Ids /\ ui.content \in Contents \cup {Blank} /\ "save" \in Kinds /\ Fit("save")
      BY <1>1, <1>4, FormFacts DEF ArmoryAdd, Kinds, Fit, Unguarded
    <2>. QED
      BY <1>1, <1>4, <2>1, EditorSent DEF ArmoryAdd
  <1>5. ASSUME NEW q \in requests, NEW o \in ReadOutcomes, ArmoryAdded(q, o) PROVE EditorInv'
    <2>1. ui' \in EditorUi /\ ~ui'.lost
      BY <1>1, <1>5, FormFacts DEF ArmoryAdded, SetUi
    <2>. QED
      BY <1>1, <1>5, <2>1, EditorReadAgain DEF ArmoryAdded
  <1>. QED
    BY <1>2, <1>3, <1>4, <1>5 DEF ArmoryActs

\* A reading fills the form of a trigger only with something new.
LEMMA EditorLandStep ==
  ASSUME EditorInv, EditorLand
  PROVE  EditorInv'
  <1>1. PICK v : v = (IF page = "triggers" THEN TriggerForm(list.data, list.flight) ELSE ui) /\ Land(v)
    BY DEF EditorLand
  <1>2. v \in EditorUi /\ ~v.lost
    <2>1. CASE v = ui
      BY <2>1 DEF EditorInv
    <2>2. CASE v # ui
      <3>1. /\ page = "triggers" /\ ui.selected # Blank /\ Reapplies(list.data, list.flight)
            /\ v = [id |-> ui.selected, content |-> list.flight.rows[ui.selected], selected |-> ui.selected,
                    dirty |-> FALSE, lost |-> ForNothing(list.data, list.flight)]
        BY <1>1, <2>2 DEF TriggerForm
      <3>2. ~ForNothing(list.data, list.flight)
        BY <3>1 DEF Reapplies, ForNothing
      <3>3. ui.selected \in Ids
        BY <3>1 DEF EditorInv, EditorUi
      <3>4. list.flight.rows[ui.selected] \in Contents \cup {Blank}
        BY <3>1, <3>3, ShownFacts DEF EditorInv, Readings
      <3>5. ForNothing(list.data, list.flight) = FALSE
        BY <3>2 DEF ForNothing
      <3>6. PICK c \in Contents \cup {Blank} : c = list.flight.rows[ui.selected]
        BY <3>4
      <3>7. v = [id |-> ui.selected, content |-> c, selected |-> ui.selected, dirty |-> FALSE, lost |-> FALSE]
        BY <3>1, <3>5, <3>6
      <3>. QED
        BY <3>3, <3>7 DEF EditorUi
    <2>. QED
      BY <2>1, <2>2
  <1>3. page' = page /\ ui' = v
    BY <1>1 DEF Land
  <1>4. page \notin Listless /\ page \notin BatchPageNames
    BY DEF EditorInv, EditorPageNames, Listless, BatchPageNames, AutomationNames
  <1>5. RowsInv'
    BY <1>1, <1>3, <1>4, LandedRows, NoBatches DEF EditorInv
  <1>. QED
    BY <1>2, <1>3, <1>5 DEF EditorInv, EditorUi

LEMMA EditorReopenStep ==
  ASSUME EditorInv, EditorReopen
  PROVE  EditorInv'
  <1>1. page' = page /\ ui' = EmptyForm /\ Reopen(EmptyForm)
    BY DEF EditorReopen, Reopen
  <1>2. page \notin BatchPageNames
    BY DEF EditorInv, EditorPageNames, BatchPageNames, AutomationNames
  <1>3. RowsInv'
    BY <1>1, <1>2, ReopenedRows, NoBatches DEF EditorInv
  <1>. QED
    BY <1>1, <1>3, FormFacts DEF EditorInv, EditorUi

LEMMA EditorServed ==
  ASSUME EditorInv, NEW q \in requests, NEW o \in Outcomes, Serve(q, o)
  PROVE  EditorInv'
  <1>1. page' = page /\ ui' = ui
    BY DEF Serve, Work
  <1>2. page # "simple-runs"
    BY DEF EditorInv, EditorPageNames
  <1>3. RowsInv'
    BY <1>2, ServedRows DEF EditorInv
  <1>. QED
    BY <1>1, <1>3 DEF EditorInv, EditorUi

LEMMA EditorActs ==
  ASSUME EditorNext
  PROVE  \/ SkillActs /\ page = "skills"
         \/ TriggerActs /\ page = "triggers"
         \/ TabActs /\ page = "triggers-tab"
         \/ ExperimentActs /\ page = "experiments"
         \/ ArmoryActs /\ page = "armory"
         \/ EditorLand /\ page \in EditorPageNames
         \/ EditorReopen /\ page \in EditorPageNames
  <1>1. SkillActs \/ TriggerActs \/ TabActs \/ ExperimentActs \/ ArmoryActs \/ EditorReopen \/ EditorLand
    BY DEF EditorNext, EditorClicks, EditorQueries, EditorAnswers, SkillActs, TriggerActs, TabActs, ExperimentActs, ArmoryActs
  <1>2. SkillActs => page = "skills"
    BY DEF SkillActs, SkillQuery, SkillType, SkillSync, SkillSelect, SkillClear, SkillSave, SkillDelete,
           SkillSaved, SkillDeleted, SkillSynced, OnPage
  <1>3. TriggerActs => page = "triggers"
    BY DEF TriggerActs, TriggerQuery, TriggerType, TriggerSelect, TriggerDeselect, TriggerReset, TriggerSave,
           TriggerDelete, TriggerFire, TriggerSaved, TriggerDeleted, TriggerFired, OnPage
  <1>4. TabActs => page = "triggers-tab"
    BY DEF TabActs, TabQuery, TabType, TabEdit, TabDelete, TabTest, TabReset, TabSave, TabSaved, TabDeleted,
           TabTested, OnPage
  <1>5. ExperimentActs => page = "experiments"
    BY DEF ExperimentActs, ExperimentQuery, ExperimentType, ExperimentToggle, ExperimentEdit, ExperimentDelete,
           ExperimentReset, ExperimentSave, ExperimentSaved, ExperimentToggled, ExperimentDeleted, OnPage
  <1>6. ArmoryActs => page = "armory"
    BY DEF ArmoryActs, ArmoryQuery, ArmoryType, ArmoryAdd, ArmoryAdded, OnPage
  <1>7. EditorLand \/ EditorReopen => page \in EditorPageNames
    BY DEF EditorLand, EditorReopen
  <1>. QED
    BY <1>1, <1>2, <1>3, <1>4, <1>5, <1>6, <1>7

LEMMA EditorStep ==
  ASSUME EditorInv, EditorNext
  PROVE  EditorInv'
  BY EditorActs, SkillStep, TriggerStep, TabStep, ExperimentStep, ArmoryStep, EditorLandStep, EditorReopenStep

LEMMA EditorsOnly ==
  ASSUME EditorNext
  PROVE  page \in EditorPageNames
  BY EditorActs DEF EditorPageNames

\* What the invariant says of the properties.
LEMMA EditorsGood ==
  ASSUME EditorInv
  PROVE  EditorTypeOK /\ ShowsOwnWrites /\ LastWriteWins /\ ~ui.lost
  <1>1. BatchRows = {}
    BY DEF BatchRows, Batches, EditorInv, EditorPageNames, BatchPageNames, AutomationNames
  <1>2. BaseTypeOK /\ ShowsOwnWrites /\ LastWriteWins
    BY <1>1, RowsGood DEF EditorInv
  <1>. QED
    BY <1>2 DEF EditorInv, EditorTypeOK

(***************************************************************************)
(* The steps of a page without batches, by what they do to its rows        *)
(***************************************************************************)
LEMMA QuietPage ==
  ASSUME RowsInv, page \notin BatchPageNames, UNCHANGED Local
  PROVE  RowsInv' /\ page' = page /\ requests' = requests
  <1>1. page' = page /\ requests' = requests
    BY DEF Local
  <1>. QED
    BY <1>1, QuietRows, NoBatches

LEMMA SentPage ==
  ASSUME RowsInv, page \notin BatchPageNames, NEW kind \in Kinds, NEW id \in Ids, NEW content \in PageValues,
         Fit(kind), Request(kind, id, content), UNCHANGED Click
  PROVE  RowsInv' /\ page' = page /\ requests' = requests \cup {NewRequest(kind, id, content)}
  <1>1. page' = page /\ requests' = requests \cup {NewRequest(kind, id, content)}
    BY DEF Click, Request
  <1>. QED
    BY <1>1, SentRows, NoBatches

LEMMA ServedPage ==
  ASSUME RowsInv, NEW q \in requests, NEW o \in Outcomes, Serve(q, o), page # "simple-runs" \/ ~Writes(q)
  PROVE  /\ RowsInv' /\ page' = page /\ ui' = ui
         /\ \A r \in requests' : \E s \in requests : r.here = s.here /\ r.id = s.id /\ r.kind = s.kind /\ r.n = s.n
         /\ \A r, s \in requests' : r.here /\ s.here /\ (\A x, y \in requests : x.here /\ y.here => x = y) => r = s
  <1>1. page' = page /\ ui' = ui
    BY DEF Serve, Work
  <1>2. RowsInv'
    BY ServedRows
  <1>3. PICK t : t = [q EXCEPT !.outcome = o] /\ requests' = (requests \ {q}) \cup {t}
    BY DEF Serve, Work
  <1>4. t.here = q.here /\ t.id = q.id /\ t.kind = q.kind /\ t.n = q.n
    BY <1>3 DEF RowsInv, PageTypes, RequestsOf
  <1>5. \A r \in requests' : \E s \in requests : r.here = s.here /\ r.id = s.id /\ r.kind = s.kind /\ r.n = s.n
    BY <1>3, <1>4
  <1>6. ASSUME NEW r \in requests', NEW s \in requests', r.here, s.here, \A x, y \in requests : x.here /\ y.here => x = y
        PROVE  r = s
    <2>1. (r = t \/ (r \in requests /\ r # q)) /\ (s = t \/ (s \in requests /\ s # q))
      BY <1>3
    <2>. QED
      BY <1>4, <1>6, <2>1
  <1>. QED
    BY <1>1, <1>2, <1>5, <1>6

LEMMA PolledPage ==
  ASSUME RowsInv, NEW reader, NEW o \in ReadOutcomes, Poll(reader, o), page \notin Listless
  PROVE  RowsInv' /\ page' = page /\ ui' = ui /\ requests' = requests
  <1>1. page' = page /\ ui' = ui /\ requests' = requests
    BY DEF Poll
  <1>. QED
    BY <1>1, PolledRows

LEMMA LandedPage ==
  ASSUME RowsInv, page \notin BatchPageNames, page \notin Listless, NEW effect, Land(effect)
  PROVE  RowsInv' /\ page' = page /\ ui' = effect /\ requests' = requests
  <1>1. page' = page /\ ui' = effect /\ requests' = requests
    BY DEF Land
  <1>. QED
    BY <1>1, LandedRows, NoBatches

LEMMA ReopenedPage ==
  ASSUME RowsInv, page \notin BatchPageNames, NEW empty, Reopen(empty)
  PROVE  /\ RowsInv' /\ page' = page /\ ui' = empty /\ UNCHANGED <<rows, list>>
         /\ \A r \in requests' : ~r.here /\ \E s \in requests : r.id = s.id /\ r.kind = s.kind
  <1>1. page' = page /\ ui' = empty /\ UNCHANGED <<rows, list>>
    BY DEF Reopen
  <1>2. ASSUME NEW r \in requests' PROVE ~r.here /\ \E s \in requests : r.id = s.id /\ r.kind = s.kind
    <2>1. PICK s \in requests : r = [s EXCEPT !.here = FALSE]
      BY DEF Reopen
    <2>2. s \in RequestsOf(PageValues)
      BY DEF RowsInv, PageTypes
    <2>. QED
      BY <2>1, <2>2 DEF RequestsOf
  <1>. QED
    BY <1>1, <1>2, ReopenedRows, NoBatches

LEMMA ReadAgainPage ==
  ASSUME RowsInv, page \notin BatchPageNames, page \notin Listless, NEW q \in requests, Over(q),
         NEW reader, NEW o \in ReadOutcomes, Invalidate(reader, o, q)
  PROVE  RowsInv' /\ page' = page /\ requests' = requests \ {q}
  <1>1. page' = page /\ requests' = requests \ {q}
    BY DEF Over
  <1>. QED
    BY <1>1, ReadAgainRows, NoBatches

LEMMA DroppedPage ==
  ASSUME RowsInv, page \notin BatchPageNames, NEW q \in requests, Over(q), UNCHANGED <<list, unseen>>,
         q.outcome # "done" \/ ~Writes(q) \/ page \in Listless
  PROVE  RowsInv' /\ page' = page /\ requests' = requests \ {q}
  <1>1. page' = page /\ requests' = requests \ {q}
    BY DEF Over
  <1>. QED
    BY <1>1, DroppedRows, NoBatches

\* A page that looks at the answer of a call before it reads its list again.
LEMMA MaybeReadAgainPage ==
  ASSUME RowsInv, page \notin BatchPageNames, page \notin Listless, NEW q \in requests, Over(q),
         NEW call, NEW reader, NEW o \in ReadOutcomes,
         IF Confirms(call, q.outcome) THEN Invalidate(reader, o, q) ELSE UNCHANGED <<list, unseen>>
  PROVE  RowsInv' /\ page' = page /\ requests' = requests \ {q}
  <1>1. page' = page /\ requests' = requests \ {q}
    BY DEF Over
  <1>. QED
    BY <1>1, MaybeReadAgainRows, NoBatches

(***************************************************************************)
(* The pages that act                                                      *)
(***************************************************************************)
LEMMA FinishedPage ==
  ASSUME RowsInv, page \in {"jobs", "agents"}, NEW q \in requests, Over(q), NEW call, NEW reader, NEW o \in ReadOutcomes,
         Finish(call, reader, q, o)
  PROVE  /\ RowsInv' /\ page' = page /\ requests' = requests \ {q}
         /\ ~q.here => ui' = ui
         /\ q.here => ui' = [ui EXCEPT !.busy = "refetch"] \/ ui' = [ui EXCEPT !.busy = "no"]
  <1>1. page \notin BatchPageNames /\ page \notin Listless
    BY DEF BatchPageNames, AutomationNames, Listless
  <1>2. CASE Confirms(call, q.outcome)
    <2>1. Invalidate(reader, o, q) /\ SetUi(q, [ui EXCEPT !.busy = "refetch"])
      BY <1>2 DEF Finish
    <2>2. RowsInv' /\ page' = page /\ requests' = requests \ {q}
      BY <1>1, <2>1, ReadAgainPage
    <2>. QED
      BY <2>1, <2>2 DEF SetUi
  <1>3. CASE ~Confirms(call, q.outcome)
    <2>1. UNCHANGED <<list, unseen>> /\ SetUi(q, [ui EXCEPT !.busy = "no"])
      BY <1>3 DEF Finish
    <2>2. q.outcome # "done"
      BY <1>3, ConfirmedOrNot
    <2>3. RowsInv' /\ page' = page /\ requests' = requests \ {q}
      BY <1>1, <2>1, <2>2, DroppedPage
    <2>. QED
      BY <2>1, <2>3 DEF SetUi
  <1>. QED
    BY <1>2, <1>3

\* On the page of jobs one action is on its way, while the flag is up.
OneHere ==
  /\ \A q, s \in requests : q.here /\ s.here => q = s
  /\ \A q \in requests : q.here => ui.busy = "request"
JobsInv == page = "jobs" /\ RowsInv /\ ui \in [busy : Busy] /\ OneHere

JobsActs ==
  \/ \E o \in ReadOutcomes : JobQuery(o)
  \/ \E i \in Ids : JobRun(i)
  \/ \E i \in Ids, c \in Contents : JobToggle(i, c)
  \/ \E q \in requests, o \in ReadOutcomes : JobActed(q, o)
  \/ Land(Refetched)
  \/ Reopen(OperationEmpty)
  \/ \E q \in requests, o \in Outcomes : Serve(q, o)

LEMMA JobsSent ==
  ASSUME JobsInv, NEW kind \in Kinds, NEW id \in Ids, NEW content \in Contents \cup {Blank},
         Free, Request(kind, id, content), Started, UNCHANGED Click
  PROVE  JobsInv'
  <1>1. page \notin BatchPageNames /\ content \in PageValues /\ RowsInv
    BY DEF JobsInv, BatchPageNames, AutomationNames, PageValues
  <1>2. \A q \in requests : ~q.here
    BY DEF JobsInv, OneHere, Free
  <1>3. Fit(kind)
    BY <1>2 DEF Fit, Pending
  <1>4. PICK r : r = NewRequest(kind, id, content)
    OBVIOUS
  <1>5. RowsInv' /\ page' = page /\ requests' = requests \cup {r}
    BY <1>1, <1>3, <1>4, SentPage
  <1>6. ui' \in [busy : Busy] /\ ui'.busy = "request"
    BY DEF Started, JobsInv, Busy
  <1>7. OneHere'
    BY <1>2, <1>5, <1>6 DEF OneHere
  <1>. QED
    BY <1>5, <1>6, <1>7 DEF JobsInv, Busy

LEMMA JobsStep ==
  ASSUME JobsInv, JobsActs
  PROVE  JobsInv'
  <1>1. RowsInv /\ page = "jobs" /\ page \notin BatchPageNames /\ page \notin Listless /\ ui \in [busy : Busy] /\ OneHere
    BY DEF JobsInv, BatchPageNames, AutomationNames, Listless
  <1>2. ASSUME NEW o \in ReadOutcomes, JobQuery(o) PROVE JobsInv'
    <2>1. RowsInv' /\ page' = page /\ ui' = ui /\ requests' = requests
      BY <1>1, <1>2, PolledPage DEF JobQuery
    <2>. QED
      BY <1>1, <2>1 DEF JobsInv, OneHere, Busy
  <1>3. ASSUME NEW i \in Ids, JobRun(i) PROVE JobsInv'
    <2>1. "act" \in Kinds /\ Blank \in Contents \cup {Blank}
      BY DEF Kinds
    <2>. QED
      BY <1>3, <2>1, JobsSent DEF JobRun, JobCanAct
  <1>4. ASSUME NEW i \in Ids, NEW c \in Contents, JobToggle(i, c) PROVE JobsInv'
    <2>1. "toggle" \in Kinds /\ c \in Contents \cup {Blank}
      BY DEF Kinds
    <2>. QED
      BY <1>4, <2>1, JobsSent DEF JobToggle, JobCanAct
  <1>5. ASSUME NEW q \in requests, NEW o \in ReadOutcomes, JobActed(q, o) PROVE JobsInv'
    <2>1. /\ RowsInv' /\ page' = page /\ requests' = requests \ {q}
          /\ ~q.here => ui' = ui
          /\ q.here => ui' = [ui EXCEPT !.busy = "refetch"] \/ ui' = [ui EXCEPT !.busy = "no"]
      BY <1>1, <1>5, FinishedPage DEF JobActed
    <2>2. ui' \in [busy : Busy]
      BY <1>1, <2>1 DEF Busy
    <2>3. OneHere'
      BY <1>1, <2>1 DEF OneHere
    <2>. QED
      BY <1>1, <2>1, <2>2, <2>3 DEF JobsInv, Busy
  <1>6. CASE Land(Refetched)
    <2>1. RowsInv' /\ page' = page /\ ui' = Refetched /\ requests' = requests
      BY <1>1, <1>6, LandedPage
    <2>2. ui' \in [busy : Busy] /\ (ui.busy = "request" => ui'.busy = "request")
      BY <1>1, <2>1 DEF Refetched, Busy
    <2>. QED
      BY <1>1, <2>1, <2>2 DEF JobsInv, OneHere, Busy
  <1>7. CASE Reopen(OperationEmpty)
    <2>1. RowsInv' /\ page' = page /\ ui' = OperationEmpty /\ \A r \in requests' : ~r.here
      BY <1>1, <1>7, ReopenedPage
    <2>2. ui' \in [busy : Busy]
      BY <1>1, <2>1 DEF OperationEmpty, Busy
    <2>. QED
      BY <1>1, <2>1, <2>2 DEF JobsInv, OneHere, Busy
  <1>8. ASSUME NEW q \in requests, NEW o \in Outcomes, Serve(q, o) PROVE JobsInv'
    <2>1. /\ RowsInv' /\ page' = page /\ ui' = ui
          /\ \A r \in requests' : \E s \in requests : r.here = s.here
          /\ \A r, s \in requests' : r.here /\ s.here => r = s
      BY <1>1, <1>8, ServedPage DEF OneHere
    <2>. QED
      BY <1>1, <2>1 DEF JobsInv, OneHere, Busy
  <1>. QED
    BY <1>2, <1>3, <1>4, <1>5, <1>6, <1>7, <1>8 DEF JobsActs

AgentsUi == [selected : Ids \cup {Blank}, busy : Busy]
AgentsInv == page = "agents" /\ RowsInv /\ ui \in AgentsUi
AgentsActs ==
  \/ \E o \in ReadOutcomes : AgentQuery(o)
  \/ \E i \in Ids : AgentChoose(i)
  \/ AgentReset
  \/ \E q \in requests, o \in ReadOutcomes : AgentWasReset(q, o)
  \/ Land(Refetched)
  \/ Reopen(OperationEmpty)
  \/ \E q \in requests, o \in Outcomes : Serve(q, o)

LEMMA AgentsStep ==
  ASSUME AgentsInv, AgentsActs
  PROVE  AgentsInv'
  <1>1. RowsInv /\ page = "agents" /\ page \notin BatchPageNames /\ page \notin Listless /\ ui \in AgentsUi
    BY DEF AgentsInv, BatchPageNames, AutomationNames, Listless
  <1>2. ASSUME NEW o \in ReadOutcomes, AgentQuery(o) PROVE AgentsInv'
    <2>1. RowsInv' /\ page' = page /\ ui' = ui
      BY <1>1, <1>2, PolledPage DEF AgentQuery
    <2>. QED
      BY <1>1, <2>1 DEF AgentsInv, AgentsUi, Busy
  <1>3. ASSUME NEW i \in Ids, AgentChoose(i) PROVE AgentsInv'
    <2>1. UNCHANGED Local /\ ui' = [ui EXCEPT !.selected = i]
      BY <1>3 DEF AgentChoose
    <2>2. RowsInv' /\ page' = page
      BY <1>1, <2>1, QuietPage
    <2>. QED
      BY <1>1, <2>1, <2>2 DEF AgentsInv, AgentsUi, Busy
  <1>4. CASE AgentReset
    <2>1. ShownAgent \in Ids
      <3>1. Listed \subseteq Ids /\ FirstListed \in Listed \cup {Blank}
        BY <1>1, ShownFacts DEF FirstListed
      <3>. QED
        BY <1>4, <3>1 DEF AgentReset, ShownAgent
    <2>2. PICK i \in Ids : i = ShownAgent
      BY <2>1
    <2>3. Request("reset", i, Blank) /\ Started /\ UNCHANGED Click
      BY <1>4, <2>2 DEF AgentReset
    <2>4. "reset" \in Kinds /\ Blank \in PageValues /\ Fit("reset")
      BY PageFacts DEF Kinds, Fit
    <2>5. RowsInv' /\ page' = page
      BY <1>1, <2>3, <2>4, SentPage
    <2>6. ui' \in AgentsUi
      BY <1>1, <2>3 DEF Started, AgentsUi, Busy
    <2>. QED
      BY <1>1, <2>5, <2>6 DEF AgentsInv, AgentsUi, Busy
  <1>5. ASSUME NEW q \in requests, NEW o \in ReadOutcomes, AgentWasReset(q, o) PROVE AgentsInv'
    <2>1. /\ RowsInv' /\ page' = page
          /\ ~q.here => ui' = ui
          /\ q.here => ui' = [ui EXCEPT !.busy = "refetch"] \/ ui' = [ui EXCEPT !.busy = "no"]
      BY <1>1, <1>5, FinishedPage DEF AgentWasReset
    <2>2. ui' \in AgentsUi
      BY <1>1, <2>1 DEF Busy, AgentsUi
    <2>. QED
      BY <1>1, <2>1, <2>2 DEF AgentsInv, AgentsUi, Busy
  <1>6. CASE Land(Refetched)
    <2>1. RowsInv' /\ page' = page /\ ui' = Refetched
      BY <1>1, <1>6, LandedPage
    <2>2. ui' \in AgentsUi
      BY <1>1, <2>1 DEF Refetched, AgentsUi, Busy
    <2>. QED
      BY <1>1, <2>1, <2>2 DEF AgentsInv, AgentsUi, Busy
  <1>7. CASE Reopen(OperationEmpty)
    <2>1. RowsInv' /\ page' = page /\ ui' = OperationEmpty
      BY <1>1, <1>7, ReopenedPage
    <2>2. ui' \in AgentsUi
      BY <1>1, <2>1 DEF OperationEmpty, AgentsUi, Busy
    <2>. QED
      BY <1>1, <2>1, <2>2 DEF AgentsInv, AgentsUi, Busy
  <1>8. ASSUME NEW q \in requests, NEW o \in Outcomes, Serve(q, o) PROVE AgentsInv'
    <2>1. RowsInv' /\ page' = page /\ ui' = ui
      BY <1>1, <1>8, ServedPage
    <2>. QED
      BY <1>1, <2>1 DEF AgentsInv, AgentsUi, Busy
  <1>. QED
    BY <1>2, <1>3, <1>4, <1>5, <1>6, <1>7, <1>8 DEF AgentsActs

DecisionPages == {"approvals", "approval-queue"}
DecisionUi == IF page = "approvals" THEN [busy : Ids \cup {Blank}] ELSE [none : {TRUE}]
DecisionsInv == page \in DecisionPages /\ RowsInv /\ ui \in DecisionUi
DecisionsActs ==
  \/ \E o \in ReadOutcomes : ApprovalQuery(o) \/ QueueQuery(o)
  \/ \E i \in Ids, c \in {"approved", "rejected"} : ApprovalDecide(i, c) \/ QueueDecide(i, c)
  \/ \E q \in requests, o \in ReadOutcomes : ApprovalDecided(q, o) \/ QueueDecided(q, o)
  \/ Land(ui)
  \/ Reopen(OperationEmpty)
  \/ \E q \in requests, o \in Outcomes : Serve(q, o)

LEMMA DecisionsStep ==
  ASSUME DecisionsInv, DecisionsActs
  PROVE  DecisionsInv'
  <1>1. /\ RowsInv /\ page \in DecisionPages /\ page \notin BatchPageNames /\ page \notin Listless /\ ui \in DecisionUi
        /\ page \in Unguarded /\ page # "simple-runs"
    BY DEF DecisionsInv, BatchPageNames, AutomationNames, Listless, DecisionPages, Unguarded
  <1> SUFFICES RowsInv' /\ page' = page /\ ui' \in DecisionUi
    BY <1>1 DEF DecisionsInv, DecisionUi
  <1>2. ASSUME NEW reader, NEW o \in ReadOutcomes, Poll(reader, o) PROVE RowsInv' /\ page' = page /\ ui' \in DecisionUi
    BY <1>1, <1>2, PolledPage
  <1>3. ASSUME NEW i \in Ids, NEW c \in {"approved", "rejected"}, Request("decide", i, c), UNCHANGED Click
        PROVE  RowsInv' /\ page' = page
    <2>1. "decide" \in Kinds /\ c \in PageValues /\ Fit("decide")
      BY <1>1 DEF Kinds, PageValues, DecisionPages, Statuses, Fit
    <2>. QED
      BY <1>1, <1>3, <2>1, SentPage
  <1>4. ASSUME NEW i \in Ids, NEW c \in {"approved", "rejected"}, ApprovalDecide(i, c)
        PROVE  RowsInv' /\ page' = page /\ ui' \in DecisionUi
    <2>1. ui' = [busy |-> i] /\ page = "approvals"
      BY <1>4 DEF ApprovalDecide, OnPage
    <2>2. ui' \in DecisionUi
      BY <2>1 DEF DecisionUi
    <2>. QED
      BY <1>3, <1>4, <2>2 DEF ApprovalDecide
  <1>5. ASSUME NEW i \in Ids, NEW c \in {"approved", "rejected"}, QueueDecide(i, c)
        PROVE  RowsInv' /\ page' = page /\ ui' \in DecisionUi
    BY <1>1, <1>3, <1>5 DEF QueueDecide
  <1>6. ASSUME NEW q \in requests, NEW o \in ReadOutcomes, ApprovalDecided(q, o)
        PROVE  RowsInv' /\ page' = page /\ ui' \in DecisionUi
    <2>1. RowsInv' /\ page' = page
      BY <1>1, <1>6, ReadAgainPage DEF ApprovalDecided
    <2>2. page = "approvals" /\ ui' \in {ui, [busy |-> Blank]}
      BY <1>6 DEF ApprovalDecided, OnPage, SetUi
    <2>. QED
      BY <1>1, <2>1, <2>2 DEF DecisionUi
  <1>7. ASSUME NEW q \in requests, NEW o \in ReadOutcomes, QueueDecided(q, o)
        PROVE  RowsInv' /\ page' = page /\ ui' \in DecisionUi
    BY <1>1, <1>7, MaybeReadAgainPage DEF QueueDecided
  <1>8. CASE Land(ui)
    BY <1>1, <1>8, LandedPage
  <1>9. CASE Reopen(OperationEmpty)
    <2>1. RowsInv' /\ page' = page /\ ui' = OperationEmpty
      BY <1>1, <1>9, ReopenedPage
    <2>2. ui' \in DecisionUi
      BY <1>1, <2>1 DEF OperationEmpty, DecisionUi, DecisionPages
    <2>. QED
      BY <2>1, <2>2
  <1>10. ASSUME NEW q \in requests, NEW o \in Outcomes, Serve(q, o) PROVE RowsInv' /\ page' = page /\ ui' \in DecisionUi
    BY <1>1, <1>10, ServedPage
  <1>. QED
    BY <1>2, <1>4, <1>5, <1>6, <1>7, <1>8, <1>9, <1>10 DEF DecisionsActs, ApprovalQuery, QueueQuery

\* A mandate has an agent it is for.
MandateUi == {m \in [id : Ids \cup {Blank}, text : Contents \cup {Blank}] : m.text # Blank => m.id # Blank}
DashboardInv == page = "dashboard" /\ RowsInv /\ ui \in MandateUi
DashboardActs ==
  \/ \E o \in ReadOutcomes : MandateQuery(o)
  \/ \E d \in Drafts : MandateType(d[1], d[2])
  \/ MandateSend
  \/ \E q \in requests, o \in ReadOutcomes : MandateSent(q, o)
  \/ Land(ui)
  \/ Reopen(OperationEmpty)
  \/ \E q \in requests, o \in Outcomes : Serve(q, o)

LEMMA DashboardStep ==
  ASSUME DashboardInv, DashboardActs
  PROVE  DashboardInv'
  <1>1. /\ RowsInv /\ page = "dashboard" /\ page \notin BatchPageNames /\ page \notin Listless /\ ui \in MandateUi
        /\ page \in Unguarded
    BY DEF DashboardInv, BatchPageNames, AutomationNames, Listless, Unguarded
  <1>0. OperationEmpty \in MandateUi
    BY <1>1 DEF OperationEmpty, MandateUi
  <1> SUFFICES RowsInv' /\ page' = page /\ ui' \in MandateUi
    BY <1>1 DEF DashboardInv, MandateUi
  <1>2. ASSUME NEW o \in ReadOutcomes, MandateQuery(o) PROVE RowsInv' /\ page' = page /\ ui' \in MandateUi
    BY <1>1, <1>2, PolledPage DEF MandateQuery
  <1>3. ASSUME NEW d \in Drafts, MandateType(d[1], d[2]) PROVE RowsInv' /\ page' = page /\ ui' \in MandateUi
    <2>1. RowsInv' /\ page' = page
      BY <1>1, <1>3, QuietPage DEF MandateType
    <2>2. d[1] \in Ids /\ d[2] \in Contents /\ d[1] # Blank
      BY ConsoleAssumption
    <2>3. ui' \in MandateUi
      BY <1>3, <2>2 DEF MandateType, MandateUi
    <2>. QED
      BY <2>1, <2>3
  <1>4. CASE MandateSend
    <2>1. ui.id \in Ids /\ ui.text \in PageValues /\ "save" \in Kinds /\ Fit("save")
      BY <1>1, <1>4 DEF MandateSend, MandateUi, PageValues, Kinds, Fit
    <2>2. Request("save", ui.id, ui.text) /\ UNCHANGED Click /\ ui' = ui
      BY <1>4 DEF MandateSend
    <2>3. RowsInv' /\ page' = page
      BY <1>1, <2>1, <2>2, SentPage
    <2>. QED
      BY <1>1, <2>2, <2>3
  <1>5. ASSUME NEW q \in requests, NEW o \in ReadOutcomes, MandateSent(q, o) PROVE RowsInv' /\ page' = page /\ ui' \in MandateUi
    <2>1. RowsInv' /\ page' = page
      BY <1>1, <1>5, ReadAgainPage DEF MandateSent
    <2>2. ui' \in {ui, OperationEmpty}
      BY <1>5 DEF MandateSent, SetUi
    <2>. QED
      BY <1>0, <1>1, <2>1, <2>2
  <1>6. CASE Land(ui)
    BY <1>1, <1>6, LandedPage
  <1>7. CASE Reopen(OperationEmpty)
    BY <1>0, <1>1, <1>7, ReopenedPage
  <1>8. ASSUME NEW q \in requests, NEW o \in Outcomes, Serve(q, o) PROVE RowsInv' /\ page' = page /\ ui' \in MandateUi
    BY <1>1, <1>8, ServedPage
  <1>. QED
    BY <1>2, <1>3, <1>4, <1>5, <1>6, <1>7, <1>8 DEF DashboardActs

PromptUi == [useAi : BOOLEAN, rules : BOOLEAN, provider : AiProviders, result : BOOLEAN]
PromptInv == page = "prompt" /\ RowsInv /\ ui \in PromptUi
PromptActs ==
  \/ \E o \in ReadOutcomes : PromptQuery(o)
  \/ \E ai, r \in BOOLEAN, p \in AiProviders : PromptOption(ai, r, p)
  \/ \E i \in Ids : PromptSubmit(i)
  \/ \E q \in requests : PromptDone(q)
  \/ Land(ui)
  \/ Reopen(OperationEmpty)
  \/ \E q \in requests, o \in Outcomes : Serve(q, o)

LEMMA PromptStep ==
  ASSUME PromptInv, PromptActs
  PROVE  PromptInv'
  <1>1. RowsInv /\ page = "prompt" /\ page \notin BatchPageNames /\ page \notin Listless /\ ui \in PromptUi
    BY DEF PromptInv, BatchPageNames, AutomationNames, Listless
  <1> SUFFICES RowsInv' /\ page' = page /\ ui' \in PromptUi
    BY <1>1 DEF PromptInv, PromptUi, AiProviders
  <1>2. ASSUME NEW o \in ReadOutcomes, PromptQuery(o) PROVE RowsInv' /\ page' = page /\ ui' \in PromptUi
    BY <1>1, <1>2, PolledPage DEF PromptQuery
  <1>3. ASSUME NEW ai \in BOOLEAN, NEW r \in BOOLEAN, NEW p \in AiProviders, PromptOption(ai, r, p)
        PROVE  RowsInv' /\ page' = page /\ ui' \in PromptUi
    <2>1. RowsInv' /\ page' = page
      BY <1>1, <1>3, QuietPage DEF PromptOption
    <2>2. ui' \in PromptUi
      BY <1>1, <1>3 DEF PromptOption, PromptUi
    <2>. QED
      BY <2>1, <2>2
  <1>4. ASSUME NEW i \in Ids, PromptSubmit(i) PROVE RowsInv' /\ page' = page /\ ui' \in PromptUi
    <2>1. Blank \in PageValues /\ "plan" \in Kinds /\ Fit("plan")
      BY PageFacts DEF Kinds, Fit
    <2>2. RowsInv' /\ page' = page
      BY <1>1, <1>4, <2>1, SentPage DEF PromptSubmit
    <2>. QED
      BY <1>1, <1>4, <2>2 DEF PromptSubmit
  <1>5. ASSUME NEW q \in requests, PromptDone(q) PROVE RowsInv' /\ page' = page /\ ui' \in PromptUi
    <2>1. ~Writes(q)
      BY <1>5 DEF PromptDone, Writes
    <2>2. RowsInv' /\ page' = page
      BY <1>1, <1>5, <2>1, DroppedPage DEF PromptDone
    <2>3. ui' = ui \/ ui' = [ui EXCEPT !.result = TRUE]
      BY <1>5 DEF PromptDone, SetUi
    <2>4. [ui EXCEPT !.result = TRUE] \in PromptUi
      BY <1>1 DEF PromptUi
    <2>. QED
      BY <1>1, <2>2, <2>3, <2>4
  <1>6. CASE Land(ui)
    BY <1>1, <1>6, LandedPage
  <1>7. CASE Reopen(OperationEmpty)
    <2>1. RowsInv' /\ page' = page /\ ui' = OperationEmpty
      BY <1>1, <1>7, ReopenedPage
    <2>2. OperationEmpty \in PromptUi
      BY <1>1 DEF OperationEmpty, PromptUi, AiProviders
    <2>. QED
      BY <2>1, <2>2
  <1>8. ASSUME NEW q \in requests, NEW o \in Outcomes, Serve(q, o) PROVE RowsInv' /\ page' = page /\ ui' \in PromptUi
    BY <1>1, <1>8, ServedPage
  <1>. QED
    BY <1>2, <1>3, <1>4, <1>5, <1>6, <1>7, <1>8 DEF PromptActs

OperationInv == JobsInv \/ AgentsInv \/ DecisionsInv \/ DashboardInv \/ PromptInv

LEMMA OperationActs ==
  ASSUME OperationNext
  PROVE  /\ page \in OperationPageNames
         /\ page = "jobs" => JobsActs
         /\ page = "agents" => AgentsActs
         /\ page \in DecisionPages => DecisionsActs
         /\ page = "dashboard" => DashboardActs
         /\ page = "prompt" => PromptActs
  <1>1. \/ (\E o \in ReadOutcomes : JobQuery(o)) \/ (\E i \in Ids : JobRun(i)) \/ (\E i \in Ids, c \in Contents : JobToggle(i, c))
        \/ \E q \in requests, o \in ReadOutcomes : JobActed(q, o)
        => page = "jobs" /\ JobsActs
    BY DEF JobsActs, JobQuery, JobRun, JobToggle, JobActed, OnPage
  <1>2. (\E o \in ReadOutcomes : AgentQuery(o)) \/ (\E i \in Ids : AgentChoose(i)) \/ AgentReset
        \/ (\E q \in requests, o \in ReadOutcomes : AgentWasReset(q, o))
        => page = "agents" /\ AgentsActs
    BY DEF AgentsActs, AgentQuery, AgentChoose, AgentReset, AgentWasReset, OnPage
  <1>3. \/ \E o \in ReadOutcomes : ApprovalQuery(o) \/ QueueQuery(o)
        \/ \E i \in Ids, c \in {"approved", "rejected"} : ApprovalDecide(i, c) \/ QueueDecide(i, c)
        \/ \E q \in requests, o \in ReadOutcomes : ApprovalDecided(q, o) \/ QueueDecided(q, o)
        => page \in DecisionPages /\ DecisionsActs
    BY DEF DecisionsActs, DecisionPages, ApprovalQuery, QueueQuery, ApprovalDecide, QueueDecide, ApprovalDecided, QueueDecided, OnPage
  <1>4. (\E o \in ReadOutcomes : MandateQuery(o)) \/ (\E d \in Drafts : MandateType(d[1], d[2])) \/ MandateSend
        \/ (\E q \in requests, o \in ReadOutcomes : MandateSent(q, o))
        => page = "dashboard" /\ DashboardActs
    BY DEF DashboardActs, MandateQuery, MandateType, MandateSend, MandateSent, OnPage
  <1>5. \/ \E o \in ReadOutcomes : PromptQuery(o)
        \/ \E ai, r \in BOOLEAN, p \in AiProviders : PromptOption(ai, r, p)
        \/ \E i \in Ids : PromptSubmit(i)
        \/ \E q \in requests : PromptDone(q)
        => page = "prompt" /\ PromptActs
    BY DEF PromptActs, PromptQuery, PromptOption, PromptSubmit, PromptDone, OnPage
  <1>6. OperationLand =>
          /\ page \in OperationPageNames
          /\ page = "jobs" => JobsActs
          /\ page = "agents" => AgentsActs
          /\ page \in DecisionPages => DecisionsActs
          /\ page = "dashboard" => DashboardActs
          /\ page = "prompt" => PromptActs
    BY DEF OperationLand, JobsActs, AgentsActs, DecisionsActs, DashboardActs, PromptActs, DecisionPages
  <1>7. OperationReopen =>
          /\ page \in OperationPageNames
          /\ page = "jobs" => JobsActs
          /\ page = "agents" => AgentsActs
          /\ page \in DecisionPages => DecisionsActs
          /\ page = "dashboard" => DashboardActs
          /\ page = "prompt" => PromptActs
    BY DEF OperationReopen, JobsActs, AgentsActs, DecisionsActs, DashboardActs, PromptActs
  <1>8. {"jobs", "agents", "dashboard", "prompt"} \cup DecisionPages = OperationPageNames
        /\ DecisionPages \cap {"jobs", "agents", "dashboard", "prompt"} = {}
    BY DEF OperationPageNames, DecisionPages
  <1>9. CASE OperationClicks
    <2>1. \/ \E i \in Ids : JobRun(i)
          \/ \E i \in Ids, c \in Contents : JobToggle(i, c)
          \/ \E i \in Ids : AgentChoose(i)
          \/ AgentReset
          \/ \E i \in Ids, c \in {"approved", "rejected"} : ApprovalDecide(i, c) \/ QueueDecide(i, c)
          \/ \E d \in Drafts : MandateType(d[1], d[2])
          \/ MandateSend
          \/ \E ai, r \in BOOLEAN, p \in AiProviders : PromptOption(ai, r, p)
          \/ \E i \in Ids : PromptSubmit(i)
          \/ OperationReopen
      BY <1>9 DEF OperationClicks
    <2>. QED
      BY <2>1, <1>1, <1>2, <1>3, <1>4, <1>5, <1>7, <1>8
  <1>10. CASE OperationQueries
    <2>1. \/ \E o \in ReadOutcomes : JobQuery(o)
          \/ \E o \in ReadOutcomes : AgentQuery(o)
          \/ \E o \in ReadOutcomes : ApprovalQuery(o) \/ QueueQuery(o)
          \/ \E o \in ReadOutcomes : MandateQuery(o)
          \/ \E o \in ReadOutcomes : PromptQuery(o)
      BY <1>10 DEF OperationQueries
    <2>. QED
      BY <2>1, <1>1, <1>2, <1>3, <1>4, <1>5, <1>8
  <1>11. CASE OperationAnswers
    <2>1. \/ OperationLand
          \/ \E q \in requests, o \in ReadOutcomes : JobActed(q, o)
          \/ \E q \in requests, o \in ReadOutcomes : AgentWasReset(q, o)
          \/ \E q \in requests, o \in ReadOutcomes : ApprovalDecided(q, o) \/ QueueDecided(q, o)
          \/ \E q \in requests, o \in ReadOutcomes : MandateSent(q, o)
          \/ \E q \in requests : PromptDone(q)
      BY <1>11 DEF OperationAnswers
    <2>. QED
      BY <2>1, <1>1, <1>2, <1>3, <1>4, <1>5, <1>6, <1>8
  <1>. QED
    BY <1>9, <1>10, <1>11 DEF OperationNext

LEMMA OperationStep ==
  ASSUME OperationInv, OperationNext \/ \E q \in requests, o \in Outcomes : Serve(q, o)
  PROVE  OperationInv'
  <1>1. ASSUME JobsInv PROVE JobsInv'
    <2>1. JobsActs
      BY <1>1, OperationActs DEF JobsInv, JobsActs
    <2>. QED
      BY <1>1, <2>1, JobsStep
  <1>2. ASSUME AgentsInv PROVE AgentsInv'
    <2>1. AgentsActs
      BY <1>2, OperationActs DEF AgentsInv, AgentsActs
    <2>. QED
      BY <1>2, <2>1, AgentsStep
  <1>3. ASSUME DecisionsInv PROVE DecisionsInv'
    <2>1. DecisionsActs
      BY <1>3, OperationActs DEF DecisionsInv, DecisionsActs
    <2>. QED
      BY <1>3, <2>1, DecisionsStep
  <1>4. ASSUME DashboardInv PROVE DashboardInv'
    <2>1. DashboardActs
      BY <1>4, OperationActs DEF DashboardInv, DashboardActs
    <2>. QED
      BY <1>4, <2>1, DashboardStep
  <1>5. ASSUME PromptInv PROVE PromptInv'
    <2>1. PromptActs
      BY <1>5, OperationActs DEF PromptInv, PromptActs
    <2>. QED
      BY <1>5, <2>1, PromptStep
  <1>. QED
    BY <1>1, <1>2, <1>3, <1>4, <1>5 DEF OperationInv

LEMMA OperationsGood ==
  ASSUME OperationInv
  PROVE  OperationTypeOK /\ ShowsOwnWrites /\ LastWriteWins
  <1>1. page \in OperationPageNames /\ RowsInv
    BY DEF OperationInv, JobsInv, AgentsInv, DecisionsInv, DashboardInv, PromptInv, DecisionPages, OperationPageNames
  <1>2. BatchRows = {}
    BY <1>1 DEF BatchRows, Batches, OperationPageNames, BatchPageNames, AutomationNames
  <1>3. BaseTypeOK /\ ShowsOwnWrites /\ LastWriteWins
    BY <1>1, <1>2, RowsGood
  <1>4. ui \in OperationUi
    <2>1. CASE JobsInv
      BY <2>1 DEF JobsInv, OperationUi
    <2>2. CASE AgentsInv
      BY <2>2 DEF AgentsInv, AgentsUi, OperationUi
    <2>3. CASE DecisionsInv
      BY <2>3 DEF DecisionsInv, DecisionUi, DecisionPages, OperationUi
    <2>4. CASE DashboardInv
      BY <2>4 DEF DashboardInv, MandateUi, OperationUi
    <2>5. CASE PromptInv
      BY <2>5 DEF PromptInv, PromptUi, OperationUi
    <2>. QED
      BY <2>1, <2>2, <2>3, <2>4, <2>5 DEF OperationInv
  <1>. QED
    BY <1>1, <1>3, <1>4 DEF OperationTypeOK

(***************************************************************************)
(* The sections of the settings                                            *)
(***************************************************************************)
SectionInv == page \in SectionNames /\ RowsInv /\ ui \in SectionUi /\ ~ui.lost

LEMMA SectionFacts ==
  ASSUME SectionInv
  PROVE  /\ RowsInv /\ page \notin BatchPageNames /\ page \notin Listless /\ page \in Unguarded /\ page # "simple-runs"
         /\ PageValues = Contents \cup {Blank} /\ Limit = MaxSends
         /\ ui \in SectionUi /\ ~ui.lost /\ SectionEmpty \in SectionUi /\ ~SectionEmpty.lost
         /\ Listed \subseteq Ids /\ \A i \in Listed : Shown[i] \in Contents \cup {Blank}
         /\ \A d \in Drafts : d[1] \in Ids /\ d[2] \in Contents
  <1>1. /\ RowsInv /\ page \notin BatchPageNames /\ page \notin Listless /\ page \in Unguarded /\ page # "simple-runs"
        /\ page \notin {"approvals", "approval-queue"} /\ page \notin {"versions", "daily"} /\ ui \in SectionUi /\ ~ui.lost
    BY DEF SectionInv, SectionNames, BatchPageNames, AutomationNames, Listless, Unguarded
  <1>2. SectionEmpty \in SectionUi /\ ~SectionEmpty.lost
    BY ConsoleAssumption DEF SectionEmpty, SectionUi
  <1>3. PageValues = Contents \cup {Blank} /\ Listed \subseteq Ids /\ \A i \in Listed : Shown[i] \in Contents \cup {Blank}
    BY <1>1, ShownFacts
  <1>. QED
    BY <1>1, <1>2, <1>3, ConsoleAssumption DEF Limit

\* A step that leaves the rows right and loses no secret.
LEMMA SectionKept ==
  ASSUME SectionInv, RowsInv', page' = page, ui' \in SectionUi, ~ui'.lost
  PROVE  SectionInv'
  BY DEF SectionInv, SectionUi

LEMMA SectionTypedStep ==
  ASSUME SectionInv, NEW d \in Drafts, SectionTyped(d[1], d[2])
  PROVE  SectionInv'
  <1>1. RowsInv' /\ page' = page
    BY SectionFacts, QuietPage DEF SectionTyped
  <1>2. ui' \in SectionUi /\ ~ui'.lost
    <2>1. d[1] \in Ids /\ d[2] \in Contents /\ ui \in SectionUi /\ ~ui.lost
      BY SectionFacts
    <2>. QED
      BY <2>1 DEF SectionTyped, SectionUi
  <1>. QED
    BY <1>1, <1>2, SectionKept

LEMMA FormFromStep ==
  ASSUME SectionInv, NEW id \in Ids, NEW content \in Contents \cup {Blank}, FormFrom(id, content)
  PROVE  SectionInv'
  <1>1. RowsInv' /\ page' = page
    BY SectionFacts, QuietPage DEF FormFrom
  <1>2. ui' \in SectionUi /\ ~ui'.lost
    BY SectionFacts DEF FormFrom, SectionUi
  <1>. QED
    BY <1>1, <1>2, SectionKept

LEMMA SaveAccountStep ==
  ASSUME SectionInv, SaveAccount
  PROVE  SectionInv'
  <1>1. ui.id \in Ids /\ ui.content \in PageValues /\ "save" \in Kinds /\ Fit("save")
    BY SectionFacts DEF SaveAccount, SectionUi, Kinds, Fit
  <1>2. RowsInv' /\ page' = page
    BY <1>1, SectionFacts, SentPage DEF SaveAccount
  <1>3. sent + 1 \in 0..MaxSends
    <2>1. sent < MaxSends /\ MaxSends \in Nat
      BY SectionFacts, PageFacts DEF SaveAccount, Request
    <2>2. sent \in 0..MaxSends
      BY SectionFacts DEF RowsInv, PageTypes, Numbered
    <2>. QED
      BY <2>1, <2>2
  <1>4. [ui EXCEPT !.carried = sent + 1] \in SectionUi /\ ~[ui EXCEPT !.carried = sent + 1].lost
    BY <1>3, SectionFacts DEF SectionUi
  <1>5. ui' = [ui EXCEPT !.carried = sent + 1] \/ ui' = ui
    BY DEF SaveAccount
  <1>. QED
    BY <1>2, <1>4, <1>5, SectionFacts, SectionKept

\* Without a confirmation the secret stays.
LEMMA AccountSavedStep ==
  ASSUME SectionInv, NEW upsert, NEW reader, NEW q \in requests, NEW o \in ReadOutcomes, AccountSaved(upsert, reader, q, o)
  PROVE  SectionInv'
  <1>1. CASE Confirms(upsert, q.outcome)
    <2>1. Over(q) /\ Invalidate(reader, o, q) /\ SetUi(q, WithoutSecret(q, TRUE))
      BY <1>1 DEF AccountSaved
    <2>2. RowsInv' /\ page' = page
      BY <2>1, SectionFacts, ReadAgainPage
    <2>3. WithoutSecret(q, TRUE) = [ui EXCEPT !.secret = FALSE, !.carried = 0, !.lost = FALSE]
      <3>1. PICK l : l = (ui.secret /\ ui.carried \in 1..q.n /\ ~TRUE)
        OBVIOUS
      <3>2. WithoutSecret(q, TRUE) = [ui EXCEPT !.secret = FALSE, !.carried = 0, !.lost = l]
        BY <3>1, Zenon DEF WithoutSecret
      <3>3. l = FALSE
        BY <3>1
      <3>. QED
        BY <3>2, <3>3
    <2>4. PICK v : v = [ui EXCEPT !.secret = FALSE, !.carried = 0, !.lost = FALSE]
      OBVIOUS
    <2>5. v \in SectionUi /\ ~v.lost
      <3>1. ui \in SectionUi /\ 0 \in 0..MaxSends
        BY SectionFacts, ConsoleAssumption
      <3>. QED
        BY <2>4, <3>1 DEF SectionUi
    <2>6. ui' = v \/ ui' = ui
      BY <2>1, <2>3, <2>4 DEF SetUi
    <2>. QED
      BY <2>2, <2>5, <2>6, SectionFacts, SectionKept
  <1>2. CASE ~Confirms(upsert, q.outcome)
    <2>1. Over(q) /\ UNCHANGED <<ui, list, unseen>>
      BY <1>2 DEF AccountSaved
    <2>2. RowsInv' /\ page' = page
      BY <1>2, <2>1, SectionFacts, ConfirmedOrNot, DroppedPage
    <2>. QED
      BY <2>1, <2>2, SectionFacts, SectionKept
  <1>. QED
    BY <1>1, <1>2

LEMMA DeleteAccountStep ==
  ASSUME SectionInv, NEW id \in Ids, DeleteAccount(id)
  PROVE  SectionInv'
  <1>1. Blank \in PageValues /\ "delete" \in Kinds /\ Fit("delete")
    BY PageFacts DEF Kinds, Fit
  <1>2. RowsInv' /\ page' = page
    BY <1>1, SectionFacts, SentPage DEF DeleteAccount
  <1>. QED
    BY <1>2, SectionFacts, SectionKept DEF DeleteAccount

LEMMA AccountDeletedStep ==
  ASSUME SectionInv, NEW delete, NEW reader, NEW q \in requests, NEW o \in ReadOutcomes, AccountDeleted(delete, reader, q, o)
  PROVE  SectionInv'
  <1>1. RowsInv' /\ page' = page
    BY SectionFacts, MaybeReadAgainPage DEF AccountDeleted
  <1>. QED
    BY <1>1, SectionFacts, SectionKept DEF AccountDeleted

\* What a click on a section, or an answer to it, comes to.
SectionActs ==
  \/ \E d \in Drafts : SectionTyped(d[1], d[2]) \/ FormFrom(d[1], d[2])
  \/ SecretType \/ SaveAccount
  \/ \E i \in Listed : FormFrom(i, Shown[i]) \/ DeleteAccount(i)
  \/ \E q \in requests, o \in ReadOutcomes :
       \/ \E upsert, reader : AccountSaved(upsert, reader, q, o)
       \/ \E delete, reader : AccountDeleted(delete, reader, q, o)
  \/ \E o \in ReadOutcomes : \E reader : Poll(reader, o)
  \/ Land(ui) \/ Reopen(SectionEmpty)
  \/ \E q \in requests, o \in Outcomes : Serve(q, o)

LEMMA SectionStep ==
  ASSUME SectionInv, SectionActs
  PROVE  SectionInv'
  <1>1. ASSUME NEW d \in Drafts, SectionTyped(d[1], d[2]) PROVE SectionInv'
    BY <1>1, SectionTypedStep
  <1>2. ASSUME NEW d \in Drafts, FormFrom(d[1], d[2]) PROVE SectionInv'
    <2>1. d[1] \in Ids /\ d[2] \in Contents \cup {Blank}
      BY SectionFacts
    <2>. QED
      BY <1>2, <2>1, FormFromStep
  <1>3. CASE SecretType
    <2>1. RowsInv' /\ page' = page
      BY <1>3, SectionFacts, QuietPage DEF SecretType
    <2>2. ui' \in SectionUi /\ ~ui'.lost
      <3>1. ui \in SectionUi /\ ~ui.lost /\ 0 \in 0..MaxSends
        BY SectionFacts, ConsoleAssumption
      <3>. QED
        BY <1>3, <3>1 DEF SecretType, SectionUi
    <2>. QED
      BY <2>1, <2>2, SectionKept
  <1>4. CASE SaveAccount
    BY <1>4, SaveAccountStep
  <1>5. ASSUME NEW i \in Listed, FormFrom(i, Shown[i]) PROVE SectionInv'
    <2>1. i \in Ids /\ Shown[i] \in Contents \cup {Blank}
      BY SectionFacts
    <2>. QED
      BY <1>5, <2>1, FormFromStep
  <1>6. ASSUME NEW i \in Listed, DeleteAccount(i) PROVE SectionInv'
    <2>1. i \in Ids
      BY SectionFacts
    <2>. QED
      BY <1>6, <2>1, DeleteAccountStep
  <1>7. ASSUME NEW q \in requests, NEW o \in ReadOutcomes, NEW upsert, NEW reader, AccountSaved(upsert, reader, q, o)
        PROVE  SectionInv'
    BY <1>7, AccountSavedStep
  <1>8. ASSUME NEW q \in requests, NEW o \in ReadOutcomes, NEW delete, NEW reader, AccountDeleted(delete, reader, q, o)
        PROVE  SectionInv'
    BY <1>8, AccountDeletedStep
  <1>9. ASSUME NEW o \in ReadOutcomes, NEW reader, Poll(reader, o) PROVE SectionInv'
    <2>1. RowsInv' /\ page' = page /\ ui' = ui
      BY <1>9, SectionFacts, PolledPage
    <2>. QED
      BY <2>1, SectionFacts, SectionKept
  <1>10. CASE Land(ui)
    <2>1. RowsInv' /\ page' = page /\ ui' = ui
      BY <1>10, SectionFacts, LandedPage
    <2>. QED
      BY <2>1, SectionFacts, SectionKept
  <1>11. CASE Reopen(SectionEmpty)
    <2>1. RowsInv' /\ page' = page /\ ui' = SectionEmpty
      BY <1>11, SectionFacts, ReopenedPage
    <2>. QED
      BY <2>1, SectionFacts, SectionKept
  <1>12. ASSUME NEW q \in requests, NEW o \in Outcomes, Serve(q, o) PROVE SectionInv'
    <2>1. RowsInv' /\ page' = page /\ ui' = ui
      BY <1>12, SectionFacts, ServedPage
    <2>. QED
      BY <2>1, SectionFacts, SectionKept
  <1>. QED
    BY <1>1, <1>2, <1>3, <1>4, <1>5, <1>6, <1>7, <1>8, <1>9, <1>10, <1>11, <1>12 DEF SectionActs

LEMMA SectionsGood ==
  ASSUME SectionInv
  PROVE  BaseTypeOK /\ ShowsOwnWrites /\ LastWriteWins /\ ~ui.lost /\ ui \in SectionUi
  <1>1. BatchRows = {}
    BY SectionFacts DEF BatchRows, Batches
  <1>. QED
    BY <1>1, SectionFacts, RowsGood

(***************************************************************************)
(* The token of the browser                                                *)
(***************************************************************************)
\* No token is stored that the field did not show, and none while nothing was saved.
BrowserInv ==
  /\ page = "browser" /\ RowsInv /\ ui \in BrowserUi /\ ~ui.lost
  /\ ui.saved \/ ui.stored = NoToken
  /\ ui.shown \/ (ui.stored = NoToken /\ ui.field = NoToken)

BrowserActs ==
  \/ \E t \in Tokens : BrowserType(t)
  \/ BrowserSave \/ BrowserForget \/ BrowserReopen
  \/ \E q \in requests, o \in Outcomes : Serve(q, o)

LEMMA OpeningIs ==
  ASSUME NEW stored \in Tokens, NEW saved \in BOOLEAN, NEW builtIn \in Tokens, saved \/ stored = NoToken
  PROVE  LET o == Opening(stored, saved, builtIn, FALSE)
         IN o \in BrowserUi /\ ~o.lost /\ (o.saved \/ o.stored = NoToken) /\ (o.shown \/ (o.stored = NoToken /\ o.field = NoToken))
  <1>0. PICK o : o = Opening(stored, saved, builtIn, FALSE)
    OBVIOUS
  <1> SUFFICES o \in BrowserUi /\ ~o.lost /\ (o.saved \/ o.stored = NoToken) /\ (o.shown \/ (o.stored = NoToken /\ o.field = NoToken))
    BY <1>0
  <1>1. PICK token : token = GetApiAuthToken(stored, builtIn)
    OBVIOUS
  <1>2. token \in Tokens /\ NoToken \in Tokens
    BY <1>1 DEF GetApiAuthToken, ResolveToken, Tokens
  <1>3. CASE saved
    <2>1. o = [field |-> token, stored |-> stored, saved |-> TRUE, builtIn |-> builtIn, shown |-> TRUE, lost |-> FALSE]
      BY <1>0, <1>1, <1>3 DEF Opening
    <2>. QED
      BY <1>2, <2>1 DEF BrowserUi
  <1>4. CASE ~saved /\ token = NoToken
    <2>1. o = [field |-> NoToken, stored |-> stored, saved |-> FALSE, builtIn |-> builtIn, shown |-> TRUE, lost |-> FALSE]
      BY <1>0, <1>1, <1>4 DEF Opening
    <2>. QED
      BY <1>2, <1>4, <2>1 DEF BrowserUi
  <1>5. CASE ~saved /\ token # NoToken
    <2>1. o = [field |-> NoToken, stored |-> stored, saved |-> FALSE, builtIn |-> builtIn, shown |-> FALSE, lost |-> FALSE]
      BY <1>0, <1>1, <1>5 DEF Opening
    <2>. QED
      BY <1>2, <1>5, <2>1 DEF BrowserUi
  <1>. QED
    BY <1>3, <1>4, <1>5

LEMMA BrowserStep ==
  ASSUME BrowserInv, BrowserActs
  PROVE  BrowserInv'
  <1>1. /\ RowsInv /\ page = "browser" /\ page \notin BatchPageNames /\ page # "simple-runs" /\ ui \in BrowserUi /\ ~ui.lost
        /\ ui.saved \/ ui.stored = NoToken
        /\ ui.shown \/ (ui.stored = NoToken /\ ui.field = NoToken)
        /\ NoToken \in Tokens
    BY DEF BrowserInv, BatchPageNames, AutomationNames, Tokens
  <1> SUFFICES /\ RowsInv' /\ page' = page /\ ui' \in BrowserUi /\ ~ui'.lost
               /\ ui'.saved \/ ui'.stored = NoToken
               /\ ui'.shown \/ (ui'.stored = NoToken /\ ui'.field = NoToken)
    BY <1>1 DEF BrowserInv, BrowserUi, Tokens
  <1>2. ASSUME UNCHANGED Local PROVE RowsInv' /\ page' = page
    BY <1>1, <1>2, QuietPage
  <1>3. ASSUME NEW t \in Tokens, BrowserType(t)
        PROVE  /\ RowsInv' /\ page' = page /\ ui' \in BrowserUi /\ ~ui'.lost
               /\ ui'.saved \/ ui'.stored = NoToken
               /\ ui'.shown \/ (ui'.stored = NoToken /\ ui'.field = NoToken)
    BY <1>1, <1>2, <1>3 DEF BrowserType, BrowserUi
  <1>4. ASSUME BrowserSave
        PROVE  /\ RowsInv' /\ page' = page /\ ui' \in BrowserUi /\ ~ui'.lost
               /\ ui'.saved \/ ui'.stored = NoToken
               /\ ui'.shown \/ (ui'.stored = NoToken /\ ui'.field = NoToken)
    <2>1. ui' = [ui EXCEPT !.stored = StoreToken(ui.field), !.saved = TRUE,
                           !.lost = ui.lost \/ (ui.stored # NoToken /\ ~ui.shown)]
      BY <1>4 DEF BrowserSave
    <2>2. PICK l : l = (ui.lost \/ (ui.stored # NoToken /\ ~ui.shown))
      OBVIOUS
    <2>3. ui' = [ui EXCEPT !.stored = ui.field, !.saved = TRUE, !.lost = l]
      BY <2>1, <2>2, Zenon DEF StoreToken
    <2>4. l = FALSE
      BY <1>1, <2>2
    <2>5. ui' = [ui EXCEPT !.stored = ui.field, !.saved = TRUE, !.lost = FALSE]
      BY <2>3, <2>4
    <2>. QED
      BY <1>1, <1>2, <1>4, <2>5 DEF BrowserSave, BrowserUi
  <1>5. ASSUME BrowserForget
        PROVE  /\ RowsInv' /\ page' = page /\ ui' \in BrowserUi /\ ~ui'.lost
               /\ ui'.saved \/ ui'.stored = NoToken
               /\ ui'.shown \/ (ui'.stored = NoToken /\ ui'.field = NoToken)
    BY <1>1, <1>2, <1>5 DEF BrowserForget, BrowserUi, ClearToken
  <1>6. ASSUME BrowserReopen
        PROVE  /\ RowsInv' /\ page' = page /\ ui' \in BrowserUi /\ ~ui'.lost
               /\ ui'.saved \/ ui'.stored = NoToken
               /\ ui'.shown \/ (ui'.stored = NoToken /\ ui'.field = NoToken)
    <2>1. PICK o : o = Opening(ui.stored, ui.saved, ui.builtIn, ui.lost) /\ Reopen(o)
      BY <1>6 DEF BrowserReopen
    <2>2. ui.lost = FALSE /\ ui.stored \in Tokens /\ ui.saved \in BOOLEAN /\ ui.builtIn \in Tokens
      BY <1>1 DEF BrowserUi
    <2>3. o = Opening(ui.stored, ui.saved, ui.builtIn, FALSE)
      BY <2>1, <2>2
    <2>4. o \in BrowserUi /\ ~o.lost /\ (o.saved \/ o.stored = NoToken) /\ (o.shown \/ (o.stored = NoToken /\ o.field = NoToken))
      BY <1>1, <2>2, <2>3, OpeningIs
    <2>5. RowsInv' /\ page' = page /\ ui' = o
      BY <1>1, <2>1, ReopenedPage
    <2>. QED
      BY <2>4, <2>5
  <1>7. ASSUME NEW q \in requests, NEW o \in Outcomes, Serve(q, o)
        PROVE  /\ RowsInv' /\ page' = page /\ ui' \in BrowserUi /\ ~ui'.lost
               /\ ui'.saved \/ ui'.stored = NoToken
               /\ ui'.shown \/ (ui'.stored = NoToken /\ ui'.field = NoToken)
    BY <1>1, <1>7, ServedPage
  <1>. QED
    BY <1>3, <1>4, <1>5, <1>6, <1>7 DEF BrowserActs

LEMMA BrowserGood ==
  ASSUME BrowserInv
  PROVE  BaseTypeOK /\ ShowsOwnWrites /\ LastWriteWins /\ ~ui.lost /\ ui \in BrowserUi
  <1>1. BatchRows = {}
    BY DEF BatchRows, Batches, BrowserInv, BatchPageNames, AutomationNames
  <1>. QED
    BY <1>1, RowsGood DEF BrowserInv

(***************************************************************************)
(* The catalog of templates                                                *)
(***************************************************************************)
CatalogReadings == [rows : [Ids -> {Blank, Made}], outcome : ReadOutcomes \cup {"none"}]
CatalogAsks == [providers : SUBSET Providers, mcp : SUBSET McpTemplates, reload : SUBSET Ids]
CatalogRequests ==
  [n : Nat, kind : {"templates"}, id : {CHOOSE i \in Ids : TRUE}, content : CatalogAsks,
   outcome : {"sent"} \cup Outcomes, here : BOOLEAN]

\* What was made is shown, or is going to be read with the list it is in.
CatalogReads ==
  LastReading.outcome = "done" => \A i \in Ids \ unseen :
    LastReading.rows[i] = rows[i] \/ \E q \in requests : q.outcome = "done" /\ i \in q.content.reload

CatalogTypes ==
  /\ page = "catalog" /\ ui = CatalogEmpty
  /\ rows \in [Ids -> {Blank, Made}] /\ list \in [data : CatalogReadings, flight : CatalogReadings]
  /\ requests \subseteq CatalogRequests /\ sent \in 0..MaxSends /\ unseen \subseteq Ids
CatalogInv ==
  /\ CatalogTypes /\ CatalogReads
  /\ \A i \in Ids : latest[i].content = rows[i]
  /\ \A reading \in {list.data, list.flight} : reading = NoRead \/ reading.outcome # "none"
  /\ list.data = NoRead => requests = {}

LEMMA CatalogAsked ==
  ASSUME CatalogInv, NEW providers \in SUBSET Providers, NEW mcp \in SUBSET McpTemplates, NEW reload \in SUBSET Ids,
         AskFor(providers, mcp, reload), list.data # NoRead
  PROVE  CatalogInv'
  <1>1. UNCHANGED <<page, ui, rows, list, latest, unseen>> /\ page = "catalog"
    BY DEF AskFor, Click, CatalogInv, CatalogTypes
  <1>2. PICK ask : ask = [providers |-> providers, mcp |-> mcp, reload |-> reload]
    OBVIOUS
  <1>3. PICK r : r = NewRequest("templates", CHOOSE i \in Ids : TRUE, ask)
    OBVIOUS
  <1>4. requests' = requests \cup {r} /\ sent' = sent + 1 /\ sent < MaxSends
    BY <1>1, <1>2, <1>3 DEF AskFor, Request, Limit
  <1>5. sent \in 0..MaxSends /\ sent' \in 0..MaxSends
    BY <1>4, ConsoleAssumption DEF CatalogInv, CatalogTypes
  <1>6. r \in CatalogRequests
    <2>1. ask \in CatalogAsks
      BY <1>2 DEF CatalogAsks
    <2>2. r = [n |-> sent + 1, kind |-> "templates", id |-> CHOOSE i \in Ids : TRUE, content |-> ask,
               outcome |-> "sent", here |-> TRUE]
      BY <1>3 DEF NewRequest
    <2>. QED
      BY <1>5, <2>1, <2>2 DEF CatalogRequests
  <1>7. CatalogTypes'
    BY <1>1, <1>4, <1>5, <1>6 DEF CatalogInv, CatalogTypes, CatalogReadings, CatalogRequests, CatalogAsks, CatalogEmpty
  <1>8. CatalogReads'
    BY <1>1, <1>4 DEF CatalogInv, CatalogReads, LastReading
  <1>. QED
    BY <1>1, <1>7, <1>8 DEF CatalogInv

\* A new reading of the list of accounts, of all rows or of some.
LEMMA CatalogIssued ==
  ASSUME CatalogInv, NEW r \in CatalogReadings, r.outcome # "none", list' = [list EXCEPT !.flight = r],
         UNCHANGED <<page, ui, rows, latest, sent>>, requests' \subseteq requests, unseen' \subseteq unseen,
         CatalogReads'
  PROVE  CatalogInv'
  <1>1. list' \in [data : CatalogReadings, flight : CatalogReadings] /\ list'.data = list.data /\ list'.flight = r
    BY DEF CatalogInv, CatalogTypes
  <1>2. CatalogTypes'
    BY <1>1 DEF CatalogInv, CatalogTypes, CatalogReadings, CatalogRequests, CatalogAsks, CatalogEmpty
  <1>3. \A reading \in {list.data, list.flight} : reading = NoRead \/ reading.outcome # "none"
    BY DEF CatalogInv
  <1>4. \A reading \in {list'.data, list'.flight} : reading = NoRead \/ reading.outcome # "none"
    BY <1>1, <1>3
  <1>5. list'.data = NoRead => requests' = {}
    BY <1>1 DEF CatalogInv
  <1>6. \A i \in Ids : latest'[i].content = rows'[i]
    BY DEF CatalogInv
  <1>. QED
    BY <1>2, <1>4, <1>5, <1>6 DEF CatalogInv

LEMMA CatalogPolled ==
  ASSUME CatalogInv, NEW o \in ReadOutcomes, CatalogQuery(o)
  PROVE  CatalogInv'
  <1>1. Poll("getIntegrationAccounts", o)
    BY DEF CatalogQuery
  <1>2. UNCHANGED <<page, ui, rows, requests, sent, latest>> /\ Issue("getIntegrationAccounts", o)
    BY <1>1 DEF Poll
  <1>3. PICK r : r = Reading("getIntegrationAccounts", o) /\ list' = [list EXCEPT !.flight = r]
    BY <1>2 DEF Issue
  <1>4. r \in CatalogReadings /\ r.outcome = o /\ o # "none" /\ (o = "done" => r.rows = rows)
    <2>1. o = "done" => Answer("getIntegrationAccounts", o) # Empty
      BY DEF Answer, Empty
    <2>2. NoRows \in [Ids -> {Blank, Made}] /\ rows \in [Ids -> {Blank, Made}]
      BY DEF NoRows, CatalogInv, CatalogTypes
    <2>. QED
      BY <1>3, <2>1, <2>2 DEF Reading, CatalogReadings, ReadOutcomes
  <1>5. LastReading' = r /\ unseen' \subseteq unseen
    <2>1. r # NoRead
      BY <1>4 DEF NoRead
    <2>2. list'.flight = r
      BY <1>3 DEF CatalogInv, CatalogTypes
    <2>. QED
      BY <1>2, <2>1, <2>2 DEF LastReading, Issue
  <1>6. CatalogReads'
    BY <1>2, <1>4, <1>5 DEF CatalogReads
  <1>. QED
    BY <1>2, <1>3, <1>4, <1>5, <1>6, CatalogIssued

\* Only the rows of the list that is read again change in what is shown of it.
LEMMA CatalogAdded ==
  ASSUME CatalogInv, NEW q \in requests, NEW o \in ReadOutcomes, TemplatesAdded(q, o)
  PROVE  CatalogInv'
  <1>1. UNCHANGED <<page, ui, rows, sent, latest>> /\ requests' = requests \ {q}
    BY DEF TemplatesAdded, Over
  <1>2. CASE ~Confirms("bootstrapIntegrationsCatalog", q.outcome)
    <2>1. q.outcome # "done" /\ UNCHANGED <<list, unseen>>
      BY <1>2, ConfirmedOrNot DEF TemplatesAdded
    <2>2. CatalogReads'
      BY <1>1, <2>1 DEF CatalogInv, CatalogReads, LastReading
    <2>3. CatalogTypes'
      BY <1>1, <2>1 DEF CatalogInv, CatalogTypes, CatalogReadings, CatalogRequests, CatalogAsks, CatalogEmpty
    <2>. QED
      BY <1>1, <2>1, <2>2, <2>3 DEF CatalogInv
  <1>3. CASE Confirms("bootstrapIntegrationsCatalog", q.outcome)
    <2>1. PICK reload : reload = q.content.reload
      OBVIOUS
    <2>2. Reread(reload, o) /\ reload \subseteq Ids
      BY <1>3, <2>1 DEF TemplatesAdded, CatalogInv, CatalogTypes, CatalogRequests, CatalogAsks
    <2>3. PICK other : other = LastReading
      OBVIOUS
    <2>4. other \in CatalogReadings /\ other.outcome # "none"
      <3>1. list.data \in CatalogReadings /\ list.flight \in CatalogReadings
        BY DEF CatalogInv, CatalogTypes
      <3>2. list.data # NoRead
        BY DEF CatalogInv
      <3>. QED
        BY <2>3, <3>1, <3>2 DEF CatalogInv, LastReading
    <2>5. PICK now : now = [i \in Ids |-> IF i \notin reload THEN other.rows[i] ELSE IF o = "done" THEN rows[i] ELSE Blank]
      OBVIOUS
    <2>6. PICK r : r = [rows |-> now, outcome |-> IF o = "done" THEN other.outcome ELSE o] /\ list' = [list EXCEPT !.flight = r]
      BY <2>2, <2>3, <2>5 DEF Reread, LastReading
    <2>7. unseen' = (IF o = "done" THEN unseen \ reload ELSE unseen)
      BY <2>2 DEF Reread
    <2>8. r \in CatalogReadings /\ r.outcome # "none"
      <3>1. now \in [Ids -> {Blank, Made}]
        BY <2>4, <2>5 DEF CatalogReadings, CatalogInv, CatalogTypes
      <3>. QED
        BY <2>4, <2>6, <3>1 DEF CatalogReadings, ReadOutcomes
    <2>9. LastReading' = r
      <3>1. r # NoRead
        BY <2>8 DEF NoRead
      <3>2. list'.flight = r
        BY <2>6 DEF CatalogInv, CatalogTypes
      <3>. QED
        BY <3>1, <3>2 DEF LastReading
    <2>10. CatalogReads'
      <3> SUFFICES ASSUME r.outcome = "done", NEW i \in Ids \ unseen'
                   PROVE  r.rows[i] = rows[i] \/ \E s \in requests' : s.outcome = "done" /\ i \in s.content.reload
        BY <1>1, <2>9 DEF CatalogReads
      <3>1. o = "done" /\ other.outcome = "done"
        BY <2>6 DEF ReadOutcomes
      <3>2. CASE i \in reload
        BY <2>5, <2>6, <3>1, <3>2
      <3>3. CASE i \notin reload
        <4>1. r.rows[i] = other.rows[i] /\ i \notin unseen
          BY <2>5, <2>6, <2>7, <3>1, <3>3
        <4>2. other.rows[i] = rows[i] \/ \E s \in requests : s.outcome = "done" /\ i \in s.content.reload
          BY <2>3, <3>1, <4>1 DEF CatalogInv, CatalogReads
        <4>. QED
          BY <1>1, <2>1, <3>3, <4>1, <4>2
      <3>. QED
        BY <3>2, <3>3
    <2>. QED
      BY <1>1, <2>6, <2>7, <2>8, <2>10, CatalogIssued
  <1>. QED
    BY <1>2, <1>3

LEMMA CatalogServed ==
  ASSUME CatalogInv, NEW q \in requests, NEW o \in Outcomes, TemplatesServed(q, o)
  PROVE  CatalogInv'
  <1>1. UNCHANGED <<page, ui, list, sent>>
    BY DEF TemplatesServed
  <1>2. PICK made : made = (IF Performed(o) THEN {i \in Chosen(q.content) : rows[i] = Blank} ELSE {})
    OBVIOUS
  <1>3. /\ rows' = [i \in Ids |-> IF i \in made THEN Made ELSE rows[i]]
        /\ latest' = [i \in Ids |-> IF i \in made THEN [n |-> q.n, content |-> Made] ELSE latest[i]]
        /\ unseen' = unseen \cup (IF o = "done" THEN made \ q.content.reload ELSE made)
    BY <1>2 DEF TemplatesServed
  <1>4. PICK r : r = [q EXCEPT !.outcome = o] /\ requests' = (requests \ {q}) \cup {r}
    BY DEF TemplatesServed
  <1>5. q \in CatalogRequests
    BY DEF CatalogInv, CatalogTypes
  <1>6. r \in CatalogRequests /\ r.content = q.content /\ r.outcome = o /\ q.outcome = "sent"
    BY <1>4, <1>5 DEF CatalogRequests, TemplatesServed
  <1>7. made \subseteq Ids
    <2>1. q.content.providers \subseteq Ids /\ q.content.mcp \subseteq Ids /\ McpTemplates \subseteq Ids /\ Providers \subseteq Ids
      BY <1>5, CatalogAssumption DEF CatalogRequests, CatalogAsks, Providers
    <2>. QED
      BY <1>2, <2>1 DEF Chosen
  <1>8. rows' \in [Ids -> {Blank, Made}] /\ unseen' \subseteq Ids
    BY <1>3, <1>7 DEF CatalogInv, CatalogTypes
  <1>9. \A i \in Ids : latest'[i].content = rows'[i]
    BY <1>3 DEF CatalogInv
  <1>10. CatalogTypes'
    BY <1>1, <1>4, <1>6, <1>8 DEF CatalogInv, CatalogTypes, CatalogReadings, CatalogRequests, CatalogAsks, CatalogEmpty
  <1>11. CatalogReads'
    <2> SUFFICES ASSUME LastReading.outcome = "done", NEW i \in Ids \ unseen'
                 PROVE  LastReading.rows[i] = rows'[i] \/ \E s \in requests' : s.outcome = "done" /\ i \in s.content.reload
      BY <1>1 DEF CatalogReads, LastReading
    <2>1. CASE i \in made
      <3>1. o = "done" /\ i \in q.content.reload
        BY <1>3, <2>1
      <3>. QED
        BY <1>4, <1>6, <3>1
    <2>2. CASE i \notin made
      <3>1. rows'[i] = rows[i] /\ i \notin unseen
        BY <1>3, <2>2
      <3>2. LastReading.rows[i] = rows[i] \/ \E s \in requests : s.outcome = "done" /\ i \in s.content.reload
        BY <3>1 DEF CatalogInv, CatalogReads
      <3>. QED
        BY <1>4, <1>6, <3>1, <3>2
    <2>. QED
      BY <2>1, <2>2
  <1>12. list'.data = NoRead => requests' = {}
    BY <1>1 DEF CatalogInv
  <1>. QED
    BY <1>1, <1>9, <1>10, <1>11, <1>12 DEF CatalogInv

CatalogActs ==
  \/ \E o \in ReadOutcomes : CatalogQuery(o)
  \/ CatalogAddAll \/ CatalogAddMissing
  \/ \E i \in Ids : CatalogAddProvider(i) \/ CatalogAddMcp(i)
  \/ \E q \in requests, o \in ReadOutcomes : TemplatesAdded(q, o)
  \/ \E q \in requests, o \in Outcomes : TemplatesServed(q, o)
  \/ CatalogLand \/ CatalogReopen

LEMMA CatalogStep ==
  ASSUME CatalogInv, CatalogActs
  PROVE  CatalogInv'
  <1>1. {} \subseteq Providers /\ {} \subseteq McpTemplates /\ Providers \subseteq Ids /\ McpTemplates \subseteq Ids
    BY CatalogAssumption DEF Providers
  <1>2. ASSUME NEW o \in ReadOutcomes, CatalogQuery(o) PROVE CatalogInv'
    BY <1>2, CatalogPolled
  <1>3. CASE CatalogAddAll
    BY <1>1, <1>3, CatalogAsked DEF CatalogAddAll, OnCatalog
  <1>4. CASE CatalogAddMissing
    <2>1. PICK p, m : p = (Ids \ Listed) \cap Providers /\ m = (Ids \ Listed) \cap McpTemplates
      OBVIOUS
    <2>2. AskFor(p, m, Ids) /\ list.data # NoRead /\ p \in SUBSET Providers /\ m \in SUBSET McpTemplates
      BY <1>4, <2>1 DEF CatalogAddMissing, OnCatalog
    <2>. QED
      BY <2>2, CatalogAsked
  <1>5. ASSUME NEW i \in Ids, CatalogAddProvider(i) PROVE CatalogInv'
    BY <1>1, <1>5, CatalogAsked DEF CatalogAddProvider, OnCatalog
  <1>6. ASSUME NEW i \in Ids, CatalogAddMcp(i) PROVE CatalogInv'
    BY <1>1, <1>6, CatalogAsked DEF CatalogAddMcp, OnCatalog
  <1>7. ASSUME NEW q \in requests, NEW o \in ReadOutcomes, TemplatesAdded(q, o) PROVE CatalogInv'
    BY <1>7, CatalogAdded
  <1>8. ASSUME NEW q \in requests, NEW o \in Outcomes, TemplatesServed(q, o) PROVE CatalogInv'
    BY <1>8, CatalogServed
  <1>9. CASE CatalogLand
    <2>1. UNCHANGED <<page, ui, rows, requests, sent, latest, unseen>> /\ list.flight # NoRead /\ list' = Landed
      BY <1>9 DEF CatalogLand, Land
    <2>2. list.flight \in CatalogReadings /\ list.flight.outcome # "none"
      BY <2>1 DEF CatalogInv, CatalogTypes
    <2>3. NoRead \in CatalogReadings
      BY DEF NoRead, NoRows, CatalogReadings
    <2>4. list'.data = list.flight /\ list'.flight = NoRead /\ list' \in [data : CatalogReadings, flight : CatalogReadings]
      BY <2>1, <2>2, <2>3 DEF Landed
    <2>5. LastReading' = LastReading
      BY <2>1, <2>4 DEF LastReading
    <2>6. CatalogReads'
      BY <2>1, <2>5 DEF CatalogInv, CatalogReads
    <2>7. CatalogTypes'
      BY <2>1, <2>4 DEF CatalogInv, CatalogTypes, CatalogReadings, CatalogRequests, CatalogAsks, CatalogEmpty
    <2>. QED
      BY <2>1, <2>2, <2>4, <2>6, <2>7 DEF CatalogInv
  <1>10. CASE CatalogReopen
    <2>1. UNCHANGED <<page, rows, list, sent, latest, unseen>> /\ ui' = CatalogEmpty
          /\ requests' = {[q EXCEPT !.here = FALSE] : q \in requests}
      BY <1>10 DEF CatalogReopen, Reopen
    <2>2. requests' \subseteq CatalogRequests
      <3>1. \A q \in requests : q \in CatalogRequests
        BY DEF CatalogInv, CatalogTypes
      <3>2. \A q \in CatalogRequests : [q EXCEPT !.here = FALSE] \in CatalogRequests
        BY DEF CatalogRequests
      <3>. QED
        BY <2>1, <3>1, <3>2
    <2>3. CatalogTypes'
      BY <2>1, <2>2 DEF CatalogInv, CatalogTypes, CatalogReadings, CatalogRequests, CatalogAsks, CatalogEmpty
    <2>4. ASSUME NEW q \in requests
          PROVE  \E r \in requests' : r.outcome = q.outcome /\ r.content = q.content
      <3>1. q \in CatalogRequests /\ [q EXCEPT !.here = FALSE] \in requests'
        BY <2>1 DEF CatalogInv, CatalogTypes
      <3>. QED
        BY <3>1 DEF CatalogRequests
    <2>5. CatalogReads'
      <3> SUFFICES ASSUME LastReading.outcome = "done", NEW i \in Ids \ unseen, LastReading.rows[i] # rows[i]
                   PROVE  \E r \in requests' : r.outcome = "done" /\ i \in r.content.reload
        BY <2>1 DEF CatalogReads, LastReading
      <3>1. PICK q \in requests : q.outcome = "done" /\ i \in q.content.reload
        BY DEF CatalogInv, CatalogReads
      <3>2. PICK r \in requests' : r.outcome = q.outcome /\ r.content = q.content
        BY <2>4
      <3>. QED
        BY <3>1, <3>2
    <2>. QED
      BY <2>1, <2>3, <2>5 DEF CatalogInv
  <1>. QED
    BY <1>2, <1>3, <1>4, <1>5, <1>6, <1>7, <1>8, <1>9, <1>10 DEF CatalogActs

LEMMA CatalogGood ==
  ASSUME CatalogInv
  PROVE  CatalogTypeOK /\ ShowsOwnWrites /\ LastWriteWins
  <1>1. CatalogTypeOK
    BY DEF CatalogInv, CatalogTypes, CatalogTypeOK, CatalogRequests, CatalogAsks
  <1>2. ShowsOwnWrites
    <2> SUFFICES ASSUME NoneComing, list.data.outcome = "done", NEW i \in Ids \ unseen PROVE Shown[i] = rows[i]
      BY DEF ShowsOwnWrites
    <2>1. LastReading = list.data
      BY DEF NoneComing, LastReading
    <2>. QED
      BY <2>1 DEF CatalogInv, CatalogReads, NoneComing, Shown
  <1>. QED
    BY <1>1, <1>2 DEF CatalogInv, LastWriteWins

\* The settings: one of the three kinds of section.
SettingsInv == SectionInv \/ BrowserInv \/ CatalogInv

LEMMA SettingsActs ==
  ASSUME SettingsNext
  PROVE  \/ page \in SectionNames /\ SectionActs
         \/ page = "browser" /\ BrowserActs
         \/ page = "catalog" /\ CatalogActs
  <1>1. {"telegram", "mcp", "providers"} = SectionNames
    BY DEF SectionNames
  <1>2. ASSUME NEW d \in Drafts,
               \/ TelegramType(d[1], d[2]) \/ McpType(d[1], d[2]) \/ ProviderType(d[1], d[2])
               \/ McpTemplate(d[1], d[2]) \/ ProviderTemplate(d[1], d[2])
        PROVE  page \in SectionNames /\ SectionActs
    <2>1. page \in SectionNames
      BY <1>1, <1>2 DEF TelegramType, McpType, ProviderType, McpTemplate, ProviderTemplate, OnPage
    <2>2. SectionTyped(d[1], d[2]) \/ FormFrom(d[1], d[2])
      BY <1>2 DEF TelegramType, McpType, ProviderType, McpTemplate, ProviderTemplate
    <2>. QED
      BY <2>1, <2>2 DEF SectionActs
  <1>3. ASSUME SecretType \/ TelegramSave \/ McpSave \/ ProviderSave PROVE page \in SectionNames /\ SectionActs
    BY <1>1, <1>3 DEF SecretType, TelegramSave, McpSave, ProviderSave, OnPage, SectionActs
  <1>4. ASSUME NEW i \in Ids,
               \/ TelegramUse(i) \/ TelegramDelete(i) \/ McpUse(i) \/ McpDelete(i) \/ ProviderUse(i) \/ ProviderDelete(i)
        PROVE  page \in SectionNames /\ SectionActs
    <2>1. page \in SectionNames
      BY <1>1, <1>4 DEF TelegramUse, TelegramDelete, McpUse, McpDelete, ProviderUse, ProviderDelete, OnPage
    <2>2. i \in Listed /\ (FormFrom(i, Shown[i]) \/ DeleteAccount(i))
      BY <1>4 DEF TelegramUse, TelegramDelete, McpUse, McpDelete, ProviderUse, ProviderDelete, DeleteAccount
    <2>. QED
      BY <2>1, <2>2 DEF SectionActs
  <1>5. ASSUME NEW o \in ReadOutcomes, TelegramQuery(o) \/ McpQuery(o) \/ ProviderQuery(o)
        PROVE  page \in SectionNames /\ SectionActs
    <2>1. page \in SectionNames
      BY <1>1, <1>5 DEF TelegramQuery, McpQuery, ProviderQuery, OnPage
    <2>2. \E reader : Poll(reader, o)
      BY <1>5 DEF TelegramQuery, McpQuery, ProviderQuery
    <2>. QED
      BY <2>1, <2>2 DEF SectionActs
  <1>6. ASSUME NEW q \in requests, NEW o \in ReadOutcomes, TelegramSaved(q, o) \/ McpSaved(q, o) \/ ProviderSaved(q, o)
        PROVE  page \in SectionNames /\ SectionActs
    <2>1. page \in SectionNames
      BY <1>1, <1>6 DEF TelegramSaved, McpSaved, ProviderSaved, OnPage
    <2>2. \E upsert, reader : AccountSaved(upsert, reader, q, o)
      BY <1>6 DEF TelegramSaved, McpSaved, ProviderSaved
    <2>. QED
      BY <2>1, <2>2 DEF SectionActs
  <1>7. ASSUME NEW q \in requests, NEW o \in ReadOutcomes, TelegramDeleted(q, o) \/ McpDeleted(q, o) \/ ProviderDeleted(q, o)
        PROVE  page \in SectionNames /\ SectionActs
    <2>1. page \in SectionNames
      BY <1>1, <1>7 DEF TelegramDeleted, McpDeleted, ProviderDeleted, OnPage
    <2>2. \E delete, reader : AccountDeleted(delete, reader, q, o)
      BY <1>7 DEF TelegramDeleted, McpDeleted, ProviderDeleted
    <2>. QED
      BY <2>1, <2>2 DEF SectionActs
  <1>8. ASSUME SectionLand \/ SectionReopen PROVE page \in SectionNames /\ SectionActs
    BY <1>8 DEF SectionLand, SectionReopen, SectionActs
  <1>9. ASSUME BrowserSave \/ BrowserForget \/ BrowserReopen \/ \E t \in Tokens : BrowserType(t)
        PROVE  page = "browser" /\ BrowserActs
    BY <1>9 DEF BrowserActs, BrowserSave, BrowserForget, BrowserReopen, BrowserType, OnBrowser, OnPage
  <1>10. ASSUME \/ CatalogAddAll \/ CatalogAddMissing \/ CatalogReopen \/ CatalogLand
                \/ \E i \in Ids : CatalogAddProvider(i) \/ CatalogAddMcp(i)
                \/ \E o \in ReadOutcomes : CatalogQuery(o)
                \/ \E q \in requests, o \in ReadOutcomes : TemplatesAdded(q, o)
                \/ \E q \in requests, o \in Outcomes : TemplatesServed(q, o)
         PROVE  page = "catalog" /\ CatalogActs
    BY <1>10 DEF CatalogActs, CatalogAddAll, CatalogAddMissing, CatalogReopen, CatalogLand, CatalogAddProvider, CatalogAddMcp,
                 CatalogQuery, TemplatesAdded, TemplatesServed, OnCatalog, OnPage
  <1>11. CASE SettingsClicks
    BY <1>11, <1>2, <1>3, <1>4, <1>8, <1>9, <1>10 DEF SettingsClicks
  <1>12. CASE SettingsAnswers
    BY <1>12, <1>5, <1>6, <1>7, <1>8, <1>10 DEF SettingsAnswers
  <1>. QED
    BY <1>11, <1>12 DEF SettingsNext

LEMMA SettingsStep ==
  ASSUME SettingsInv,
         SettingsNext \/ (page \notin {"versions", "catalog"} /\ \E q \in requests, o \in Outcomes : Serve(q, o))
  PROVE  SettingsInv'
  <1>1. {"telegram", "mcp", "providers"} = SectionNames
    BY DEF SectionNames
  <1>2. ASSUME SectionInv PROVE SectionInv'
    <2>1. page \in SectionNames /\ page \notin {"browser", "catalog"}
      BY <1>1, <1>2 DEF SectionInv
    <2>2. SectionActs
      BY <2>1, SettingsActs DEF SectionActs
    <2>. QED
      BY <1>2, <2>2, SectionStep
  <1>3. ASSUME BrowserInv PROVE BrowserInv'
    <2>1. page = "browser" /\ page \notin SectionNames
      BY <1>1, <1>3 DEF BrowserInv
    <2>2. BrowserActs
      BY <2>1, SettingsActs DEF BrowserActs
    <2>. QED
      BY <1>3, <2>2, BrowserStep
  <1>4. ASSUME CatalogInv PROVE CatalogInv'
    <2>1. page = "catalog" /\ page \notin SectionNames
      BY <1>1, <1>4 DEF CatalogInv, CatalogTypes
    <2>2. CatalogActs
      BY <2>1, SettingsActs
    <2>. QED
      BY <1>4, <2>2, CatalogStep
  <1>. QED
    BY <1>2, <1>3, <1>4 DEF SettingsInv

LEMMA SettingsGood ==
  ASSUME SettingsInv
  PROVE  /\ page \in SettingsPageNames /\ SettingsTypeOK /\ ShowsOwnWrites /\ LastWriteWins
         /\ page \in SectionNames \cup {"browser"} => ~ui.lost
  <1>1. {"telegram", "mcp", "providers"} = SectionNames /\ SettingsPageNames = SectionNames \cup {"browser", "catalog"}
    BY DEF SectionNames, SettingsPageNames
  <1>2. CASE SectionInv
    <2>1. page \in SectionNames /\ page \notin {"browser", "catalog"}
      BY <1>1, <1>2 DEF SectionInv
    <2>. QED
      BY <1>1, <1>2, <2>1, SectionsGood DEF SettingsTypeOK
  <1>3. CASE BrowserInv
    <2>1. page = "browser"
      BY <1>3 DEF BrowserInv
    <2>. QED
      BY <1>1, <1>3, <2>1, BrowserGood DEF SettingsTypeOK
  <1>4. CASE CatalogInv
    <2>1. page = "catalog" /\ page \notin SectionNames
      BY <1>1, <1>4 DEF CatalogInv, CatalogTypes
    <2>. QED
      BY <1>1, <1>4, <2>1, CatalogGood DEF SettingsTypeOK
  <1>. QED
    BY <1>2, <1>3, <1>4 DEF SettingsInv

(***************************************************************************)
(* The versions of the jobs                                                *)
(***************************************************************************)
VersionRequests ==
  [n : Nat, kind : Loads \cup {"rollback"}, id : Ids, content : Histories,
   outcome : {"sent"} \cup Outcomes, here : BOOLEAN]

\* The page is going to read the job's history again, or has its newest.
Coming(j) ==
  \E q \in requests : q.here /\ q.id = j /\
    \/ q.kind = "rollback" /\ q.outcome = "done"
    \/ q.kind \in Loads /\ (q.outcome = "sent" \/ (q.outcome = "done" /\ q.content = rows[j]))
Unread(j) == ui.loaded[j] = NotLoaded /\ \A q \in requests : q.here /\ q.kind \in Loads => q.id # j
VersionKnown == \A j \in Ids \ unseen : Coming(j) \/ ui.loaded[j] = rows[j] \/ Unread(j)

VersionTypes ==
  /\ page = "versions" /\ ui \in VersionUi /\ rows \in [Ids -> 1..MaxVersions]
  /\ requests \subseteq VersionRequests /\ \A q \in requests : q.n \in 1..Limit
  /\ sent \in 0..Limit /\ opened \in 0..MaxReopens /\ unseen \subseteq Ids
  /\ list = [data |-> NoRead, flight |-> NoRead]
\* No history read is longer than the job's: versions are only added.
VersionsInv ==
  /\ VersionTypes /\ VersionKnown
  /\ \A q \in requests : q.kind \in Loads => q.content <= rows[q.id]

LEMMA VersionFacts ==
  /\ MaxVersions \in Nat \ {0, 1} /\ Limit \in Nat /\ MaxReopens \in Nat
  /\ 0 \in Histories /\ 1..MaxVersions \subseteq Histories /\ NotLoaded \notin Histories /\ NotLoaded \in Nat
  /\ Histories \subseteq Nat
  /\ Nothing \in (Ids \X Histories) \cup {Nothing} /\ Blank \notin Ids /\ "rollback" \notin Loads
  <1>1. MaxVersions \in Nat \ {0, 1}
    BY VersionAssumption
  <1>2. Limit \in Nat
    BY ConsoleAssumption DEF Limit
  <1>3. "rollback" \notin Loads
    BY DEF Loads
  <1>4. 0 \in Histories /\ 1..MaxVersions \subseteq Histories /\ NotLoaded \notin Histories /\ NotLoaded \in Nat /\ Histories \subseteq Nat
    BY <1>1 DEF Histories, NotLoaded
  <1>. QED
    BY <1>1, <1>2, <1>3, <1>4, ConsoleAssumption

LEMMA VersionQuiet ==
  ASSUME VersionsInv, UNCHANGED Local, ui' \in VersionUi, ui'.loaded = ui.loaded
  PROVE  VersionsInv'
  <1>1. UNCHANGED <<page, rows, list, requests, sent, opened, unseen>>
    BY DEF Local
  <1>2. VersionTypes'
    BY <1>1 DEF VersionsInv, VersionTypes, VersionUi, VersionRequests, Limit, NoRead, NoRows
  <1>3. VersionKnown'
    BY <1>1 DEF VersionsInv, VersionKnown, Coming, Unread
  <1>. QED
    BY <1>1, <1>2, <1>3 DEF VersionsInv

LEMMA VersionAsked ==
  ASSUME VersionsInv, NEW kind \in Loads \cup {"rollback"}, NEW id \in Ids, NEW version \in Histories,
         kind \in Loads => version = 0, Ask(kind, id, version), UNCHANGED Clicked,
         ui' \in VersionUi, ui'.loaded = ui.loaded
  PROVE  VersionsInv'
  <1>1. UNCHANGED <<page, rows, list, opened, unseen>> /\ Limit' = Limit
    BY DEF Clicked, Limit
  <1>2. PICK r : r = NewRequest(kind, id, version) /\ requests' = requests \cup {r}
    BY DEF Ask
  <1>3. sent' = sent + 1 /\ sent' \in 1..Limit
    BY VersionFacts DEF Ask, VersionsInv, VersionTypes
  <1>4. r \in VersionRequests /\ r.n = sent' /\ r.kind = kind /\ r.id = id /\ r.content = version /\ r.outcome = "sent" /\ r.here
    BY <1>2, <1>3 DEF NewRequest, VersionRequests
  <1>5. VersionTypes'
    <2>1. \A q \in requests' : q \in VersionRequests /\ q.n \in 1..Limit
      BY <1>2, <1>3, <1>4 DEF VersionsInv, VersionTypes
    <2>2. sent' \in 0..Limit
      BY <1>3
    <2>. QED
      BY <1>1, <2>1, <2>2 DEF VersionsInv, VersionTypes, VersionUi, VersionRequests, NoRead, NoRows
  <1>6. VersionKnown'
    <2> SUFFICES ASSUME NEW j \in Ids \ unseen PROVE Coming(j)' \/ ui'.loaded[j] = rows[j] \/ Unread(j)'
      BY <1>1 DEF VersionKnown
    <2>1. Coming(j) => Coming(j)'
      BY <1>1, <1>2 DEF Coming
    <2>2. Unread(j) => Coming(j)' \/ Unread(j)'
      BY <1>2, <1>4 DEF Coming, Unread
    <2>. QED
      BY <2>1, <2>2 DEF VersionsInv, VersionKnown
  <1>7. \A q \in requests' : q.kind \in Loads => q.content <= rows[q.id]
    <2>1. 0 <= rows[id]
      BY VersionFacts DEF VersionsInv, VersionTypes
    <2>. QED
      BY <1>2, <1>4, <2>1 DEF VersionsInv
  <1>. QED
    BY <1>1, <1>5, <1>6, <1>7 DEF VersionsInv

LEMMA VersionUiFacts ==
  ASSUME VersionsInv, NEW id \in Ids
  PROVE  /\ [ui EXCEPT !.panel = id] \in VersionUi /\ [ui EXCEPT !.panel = Blank] \in VersionUi
         /\ \A value \in VersionUi : [value EXCEPT !.loading = id] \in VersionUi /\ [value EXCEPT !.loading = id].loaded = value.loaded
         /\ \A value \in VersionUi : value.loaded[id] # NotLoaded =>
              Newest(value, id) \in VersionUi /\ Newest(value, id).loaded = value.loaded
         /\ \A v \in Histories : [ui EXCEPT !.rolling = <<id, v>>] \in VersionUi
         /\ \A value \in VersionUi : [value EXCEPT !.rolling = Nothing] \in VersionUi
         /\ \A v \in Histories : [ui EXCEPT !.detail[id] = v] \in VersionUi
         /\ \A v \in Histories : [ui EXCEPT !.loaded[id] = v, !.loading = Blank] \in VersionUi
  <1>1. ui \in VersionUi
    BY DEF VersionsInv, VersionTypes
  <1>2. ASSUME NEW value \in VersionUi, value.loaded[id] # NotLoaded
        PROVE  Newest(value, id) \in VersionUi /\ Newest(value, id).loaded = value.loaded
    <2>1. value.loaded[id] \in Histories
      BY <1>2 DEF VersionUi
    <2>. QED
      BY <1>2, <2>1 DEF Newest, VersionUi
  <1>3. \A value \in VersionUi : [value EXCEPT !.loading = id] \in VersionUi /\ [value EXCEPT !.loading = id].loaded = value.loaded
    BY DEF VersionUi
  <1>4. \A value \in VersionUi : [value EXCEPT !.rolling = Nothing] \in VersionUi
    BY DEF VersionUi
  <1>5. \A v \in Histories : [ui EXCEPT !.rolling = <<id, v>>] \in VersionUi
    BY <1>1 DEF VersionUi
  <1>6. \A v \in Histories : [ui EXCEPT !.detail[id] = v] \in VersionUi
    BY <1>1 DEF VersionUi
  <1>7. \A v \in Histories : [ui EXCEPT !.loaded[id] = v, !.loading = Blank] \in VersionUi
    BY <1>1 DEF VersionUi
  <1>8. [ui EXCEPT !.panel = id] \in VersionUi /\ [ui EXCEPT !.panel = Blank] \in VersionUi
    BY <1>1 DEF VersionUi
  <1>. QED
    BY <1>2, <1>3, <1>4, <1>5, <1>6, <1>7, <1>8

LEMMA VersionLoads ==
  ASSUME VersionsInv, NEW kind \in Loads, NEW id \in Ids, NEW value \in VersionUi, value.loaded = ui.loaded,
         LoadVersions(kind, id, value), UNCHANGED Clicked
  PROVE  VersionsInv'
  <1>1. Ask(kind, id, 0) /\ ui' = [value EXCEPT !.loading = id]
    BY DEF LoadVersions
  <1>2. ui' \in VersionUi /\ ui'.loaded = ui.loaded
    BY <1>1, VersionUiFacts
  <1>. QED
    BY <1>1, <1>2, VersionFacts, VersionAsked

LEMMA VersionOpens ==
  ASSUME VersionsInv, UNCHANGED <<requests, sent>>, UNCHANGED Clicked, ui' \in VersionUi, ui'.loaded = ui.loaded
  PROVE  VersionsInv'
  <1>1. UNCHANGED Local
    BY DEF Clicked, Local
  <1>. QED
    BY <1>1, VersionQuiet

\* A panel is opened or closed, or a version is asked for.
LEMMA ToggleVersionsStep ==
  ASSUME VersionsInv, NEW id \in Ids, ToggleVersions(id)
  PROVE  VersionsInv'
  <1>1. UNCHANGED Clicked
    BY DEF ToggleVersions
  <1>2. CASE ui.panel = id
    <2>1. ui' = [ui EXCEPT !.panel = Blank] /\ UNCHANGED <<requests, sent>>
      BY <1>2 DEF ToggleVersions
    <2>2. ui' \in VersionUi /\ ui'.loaded = ui.loaded
      BY <2>1, VersionUiFacts DEF VersionsInv, VersionTypes, VersionUi
    <2>. QED
      BY <1>1, <2>1, <2>2, VersionOpens
  <1>3. CASE ui.panel # id
    <2>1. PICK opening : opening = [ui EXCEPT !.panel = id]
      OBVIOUS
    <2>2. opening \in VersionUi /\ opening.loaded = ui.loaded
      BY <2>1, VersionUiFacts DEF VersionsInv, VersionTypes, VersionUi
    <2>3. LoadVersions("load", id, opening) \/ (ui' = opening /\ UNCHANGED <<requests, sent>>)
      BY <1>3, <2>1 DEF ToggleVersions
    <2>4. "load" \in Loads
      BY DEF Loads
    <2>. QED
      BY <1>1, <2>2, <2>3, <2>4, VersionOpens, VersionLoads
  <1>. QED
    BY <1>2, <1>3

LEMMA OpenActiveVersionStep ==
  ASSUME VersionsInv, NEW id \in Ids, OpenActiveVersion(id)
  PROVE  VersionsInv'
  <1>1. UNCHANGED Clicked
    BY DEF OpenActiveVersion
  <1>2. PICK opening : opening = [ui EXCEPT !.panel = id]
    OBVIOUS
  <1>3. opening \in VersionUi /\ opening.loaded = ui.loaded
    BY <1>2, VersionUiFacts DEF VersionsInv, VersionTypes, VersionUi
  <1>4. CASE ui.loaded[id] = NotLoaded
    <2>1. LoadVersions("load and show", id, opening) /\ "load and show" \in Loads
      BY <1>2, <1>4 DEF OpenActiveVersion, Loads
    <2>. QED
      BY <1>1, <1>3, <2>1, VersionLoads
  <1>5. CASE ui.loaded[id] # NotLoaded
    <2>1. ui' = Newest(opening, id) /\ UNCHANGED <<requests, sent>>
      BY <1>2, <1>5 DEF OpenActiveVersion
    <2>2. ui' \in VersionUi /\ ui'.loaded = ui.loaded
      BY <1>3, <1>5, <2>1, VersionUiFacts
    <2>. QED
      BY <1>1, <2>1, <2>2, VersionOpens
  <1>. QED
    BY <1>4, <1>5

LEMMA ReloadVersionsStep ==
  ASSUME VersionsInv, NEW id \in Ids, ReloadVersions(id)
  PROVE  VersionsInv'
  <1>1. ui \in VersionUi /\ "load" \in Loads
    BY DEF VersionsInv, VersionTypes, Loads
  <1>. QED
    BY <1>1, VersionLoads DEF ReloadVersions

LEMMA OfferedFacts ==
  ASSUME VersionsInv, NEW id \in Ids, NEW version \in Offered(id)
  PROVE  version \in Histories
  <1>1. ui.loaded[id] \in Histories /\ version \in 1..ui.loaded[id]
    BY DEF VersionsInv, VersionTypes, VersionUi, Offered
  <1>. QED
    BY <1>1, VersionFacts DEF Histories

LEMMA ToggleDetailStep ==
  ASSUME VersionsInv, NEW id \in Ids, NEW version, ToggleDetail(id, version)
  PROVE  VersionsInv'
  <1>1. version \in Histories /\ 0 \in Histories
    BY OfferedFacts, VersionFacts DEF ToggleDetail
  <1>2. PICK v : v = (IF ui.detail[id] = version THEN 0 ELSE version)
    OBVIOUS
  <1>3. v \in Histories /\ ui' = [ui EXCEPT !.detail[id] = v] /\ UNCHANGED Local
    BY <1>1, <1>2 DEF ToggleDetail
  <1>4. ui' \in VersionUi /\ ui'.loaded = ui.loaded
    BY <1>3, VersionUiFacts DEF VersionsInv, VersionTypes, VersionUi
  <1>. QED
    BY <1>3, <1>4, VersionQuiet

LEMMA RollBackStep ==
  ASSUME VersionsInv, NEW id \in Ids, NEW version, RollBack(id, version)
  PROVE  VersionsInv'
  <1>1. version \in Histories
    BY OfferedFacts DEF RollBack
  <1>2. ui' = [ui EXCEPT !.rolling = <<id, version>>] /\ Ask("rollback", id, version) /\ UNCHANGED Clicked
    BY DEF RollBack
  <1>3. ui' \in VersionUi /\ ui'.loaded = ui.loaded
    BY <1>1, <1>2, VersionUiFacts DEF VersionsInv, VersionTypes, VersionUi
  <1>. QED
    BY <1>1, <1>2, <1>3, VersionFacts, VersionAsked

\* Another saves the job: the page need not know.
LEMMA SavedElsewhereStep ==
  ASSUME VersionsInv, NEW id \in Ids, SavedElsewhere(id)
  PROVE  VersionsInv'
  <1>1. UNCHANGED <<page, ui, list, requests, sent, opened>> /\ unseen' = unseen \cup {id}
        /\ rows' = [rows EXCEPT ![id] = rows[id] + 1] /\ rows[id] < MaxVersions
    BY DEF SavedElsewhere
  <1>2. \A j \in Ids : rows[j] \in 1..MaxVersions
    BY DEF VersionsInv, VersionTypes
  <1>3. rows' \in [Ids -> 1..MaxVersions] /\ \A j \in Ids : rows'[j] >= rows[j] /\ (j # id => rows'[j] = rows[j])
    BY <1>1, <1>2, VersionFacts DEF VersionsInv, VersionTypes
  <1>4. VersionTypes'
    BY <1>1, <1>3 DEF VersionsInv, VersionTypes, VersionUi, VersionRequests, Limit, NoRead, NoRows
  <1>5. VersionKnown'
    <2> SUFFICES ASSUME NEW j \in Ids \ unseen, j # id PROVE Coming(j)' \/ ui.loaded[j] = rows'[j] \/ Unread(j)'
      BY <1>1 DEF VersionKnown
    <2>1. rows'[j] = rows[j] /\ (Coming(j) \/ ui.loaded[j] = rows[j] \/ Unread(j))
      BY <1>3 DEF VersionsInv, VersionKnown
    <2>. QED
      BY <1>1, <2>1 DEF Coming, Unread
  <1>6. ASSUME NEW q \in requests, q.kind \in Loads PROVE q.content <= rows'[q.id]
    <2>1. q.id \in Ids /\ q.content \in Nat /\ q.content <= rows[q.id]
      BY <1>6, VersionFacts DEF VersionsInv, VersionTypes, VersionRequests
    <2>. QED
      BY <1>2, <1>3, <2>1
  <1>. QED
    BY <1>1, <1>4, <1>5, <1>6 DEF VersionsInv

\* The API reads a history, or adds a version to one.
LEMMA HistoryReadStep ==
  ASSUME VersionsInv, NEW q \in requests, NEW o \in Outcomes, VersionServed(q, o), q.kind # "rollback"
  PROVE  VersionsInv'
  <1>1. q \in VersionRequests /\ q.n \in 1..Limit /\ q.kind \in Loads /\ q.id \in Ids
    BY DEF VersionsInv, VersionTypes, VersionRequests
  <1>2. UNCHANGED <<page, ui, rows, list, sent, opened>> /\ q.outcome = "sent"
        /\ unseen' = (IF ~q.here THEN unseen ELSE IF o = "done" THEN unseen \ {q.id} ELSE unseen \cup {q.id})
    BY DEF VersionServed
  <1>3. PICK c : c = (IF o = "done" THEN rows[q.id] ELSE 0)
    OBVIOUS
  <1>4. c \in Histories /\ c <= rows[q.id] /\ (o = "done" => c = rows[q.id])
    BY <1>1, <1>3, VersionFacts DEF VersionsInv, VersionTypes
  <1>5. PICK r : r = [q EXCEPT !.outcome = o, !.content = c] /\ requests' = (requests \ {q}) \cup {r}
    BY <1>3 DEF VersionServed
  <1>6. r \in VersionRequests /\ r.n = q.n /\ r.kind = q.kind /\ r.id = q.id /\ r.content = c /\ r.outcome = o /\ r.here = q.here
    BY <1>1, <1>4, <1>5 DEF VersionRequests
  <1>7. VersionTypes'
    <2>1. \A s \in requests' : s \in VersionRequests /\ s.n \in 1..Limit
      BY <1>1, <1>5, <1>6 DEF VersionsInv, VersionTypes
    <2>2. unseen' \subseteq Ids /\ Limit' = Limit
      BY <1>1, <1>2 DEF VersionsInv, VersionTypes, Limit
    <2>. QED
      BY <1>2, <2>1, <2>2 DEF VersionsInv, VersionTypes, VersionUi, VersionRequests, NoRead, NoRows
  <1>8. VersionKnown'
    <2> SUFFICES ASSUME NEW j \in Ids, j \notin unseen' PROVE Coming(j)' \/ ui.loaded[j] = rows[j] \/ Unread(j)'
      BY <1>2 DEF VersionKnown
    <2>1. CASE q.here /\ q.id = j
      <3>1. o = "done"
        BY <1>2, <2>1
      <3>. QED
        BY <1>1, <1>2, <1>4, <1>5, <1>6, <2>1, <3>1 DEF Coming
    <2>2. CASE ~(q.here /\ q.id = j)
      <3>1. Coming(j) \/ ui.loaded[j] = rows[j] \/ Unread(j)
        BY <1>2, <2>2 DEF VersionsInv, VersionKnown
      <3>2. Coming(j) => Coming(j)'
        BY <1>2, <1>5, <2>2 DEF Coming
      <3>3. Unread(j) => Unread(j)'
        BY <1>2, <1>5, <1>6, <2>2 DEF Unread
      <3>. QED
        BY <3>1, <3>2, <3>3
    <2>. QED
      BY <2>1, <2>2
  <1>9. \A s \in requests' : s.kind \in Loads => s.content <= rows[s.id]
    BY <1>4, <1>5, <1>6 DEF VersionsInv
  <1>. QED
    BY <1>2, <1>7, <1>8, <1>9 DEF VersionsInv

LEMMA RollbackServedStep ==
  ASSUME VersionsInv, NEW q \in requests, NEW o \in Outcomes, VersionServed(q, o), q.kind = "rollback"
  PROVE  VersionsInv'
  <1>1. q \in VersionRequests /\ q.n \in 1..Limit /\ q.id \in Ids /\ q.kind \notin Loads
    BY VersionFacts DEF VersionsInv, VersionTypes, VersionRequests
  <1>2. UNCHANGED <<page, ui, list, sent, opened>> /\ q.outcome = "sent"
        /\ unseen' = (IF Performed(o) /\ ~(q.here /\ o = "done") THEN unseen \cup {q.id} ELSE unseen)
    BY DEF VersionServed
  <1>3. PICK d : d = (IF Performed(o) THEN 1 ELSE 0)
    OBVIOUS
  <1>4. rows' = [rows EXCEPT ![q.id] = rows[q.id] + d] /\ rows'[q.id] <= MaxVersions
        /\ d \in {0, 1} /\ (~Performed(o) => d = 0)
    BY <1>3 DEF VersionServed
  <1>5. \A j \in Ids : rows[j] \in 1..MaxVersions
    BY DEF VersionsInv, VersionTypes
  <1>6. rows' \in [Ids -> 1..MaxVersions] /\ \A j \in Ids : rows'[j] >= rows[j] /\ (j # q.id \/ d = 0 => rows'[j] = rows[j])
    BY <1>1, <1>4, <1>5, VersionFacts DEF VersionsInv, VersionTypes
  <1>7. PICK r : r = [q EXCEPT !.outcome = o, !.content = q.content] /\ requests' = (requests \ {q}) \cup {r}
    BY DEF VersionServed
  <1>8. r \in VersionRequests /\ r.n = q.n /\ r.kind = q.kind /\ r.id = q.id /\ r.outcome = o /\ r.here = q.here
    BY <1>1, <1>7 DEF VersionRequests
  <1>9. VersionTypes'
    <2>1. \A s \in requests' : s \in VersionRequests /\ s.n \in 1..Limit
      BY <1>1, <1>7, <1>8 DEF VersionsInv, VersionTypes
    <2>2. unseen' \subseteq Ids /\ Limit' = Limit
      BY <1>1, <1>2 DEF VersionsInv, VersionTypes, Limit
    <2>. QED
      BY <1>2, <1>6, <2>1, <2>2 DEF VersionsInv, VersionTypes, VersionUi, VersionRequests, NoRead, NoRows
  <1>10. VersionKnown'
    <2> SUFFICES ASSUME NEW j \in Ids, j \notin unseen' PROVE Coming(j)' \/ ui.loaded[j] = rows'[j] \/ Unread(j)'
      BY <1>2 DEF VersionKnown
    <2>1. CASE q.id = j /\ Performed(o)
      <3>1. q.here /\ o = "done"
        BY <1>2, <2>1
      <3>. QED
        BY <1>7, <1>8, <2>1, <3>1 DEF Coming
    <2>2. CASE ~(q.id = j /\ Performed(o))
      <3>1. rows'[j] = rows[j] /\ (Coming(j) \/ ui.loaded[j] = rows[j] \/ Unread(j))
        BY <1>2, <1>4, <1>6, <2>2 DEF VersionsInv, VersionKnown
      <3>2. Coming(j) => Coming(j)'
        BY <1>1, <1>2, <1>7, <3>1 DEF Coming
      <3>3. Unread(j) => Unread(j)'
        BY <1>1, <1>2, <1>7, <1>8 DEF Unread
      <3>. QED
        BY <3>1, <3>2, <3>3
    <2>. QED
      BY <2>1, <2>2
  <1>11. ASSUME NEW s \in requests', s.kind \in Loads PROVE s.content <= rows'[s.id]
    <2>1. s \in requests
      BY <1>1, <1>7, <1>8, <1>11
    <2>2. s.id \in Ids /\ s.content \in Nat /\ s.content <= rows[s.id]
      BY <2>1, <1>11, VersionFacts DEF VersionsInv, VersionTypes, VersionRequests
    <2>. QED
      BY <1>5, <1>6, <2>2
  <1>. QED
    BY <1>2, <1>9, <1>10, <1>11 DEF VersionsInv

\* A request is over that nobody waits for, or that changes nothing read.
LEMMA VersionOver ==
  ASSUME VersionsInv, NEW q \in requests, requests' = requests \ {q},
         UNCHANGED <<page, rows, list, sent, opened>>, ui' \in VersionUi, unseen' \subseteq Ids
  PROVE  VersionTypes' /\ \A s \in requests' : s.kind \in Loads => s.content <= rows'[s.id]
  <1>1. Limit' = Limit
    BY DEF Limit
  <1>. QED
    BY <1>1 DEF VersionsInv, VersionTypes, VersionUi, VersionRequests, NoRead, NoRows

LEMMA VersionsLoadedStep ==
  ASSUME VersionsInv, NEW q \in requests, VersionsLoaded(q)
  PROVE  VersionsInv'
  <1>1. q \in VersionRequests /\ q.kind \in Loads /\ q.id \in Ids /\ q.content \in Histories /\ q.outcome # "sent"
        /\ q.content <= rows[q.id] /\ ui \in VersionUi
    BY DEF VersionsLoaded, Answered, VersionsInv, VersionTypes, VersionRequests
  <1>2. UNCHANGED <<page, rows, list, sent, opened>> /\ requests' = requests \ {q}
        /\ unseen' = (IF q.here /\ ui.loaded[q.id] # NotLoaded /\ q.content < ui.loaded[q.id]
                        THEN unseen \cup {q.id} ELSE unseen)
    BY DEF VersionsLoaded, Over
  <1>3. PICK read : read = [ui EXCEPT !.loaded[q.id] = q.content, !.loading = Blank]
    OBVIOUS
  <1>4. read \in VersionUi /\ read.loaded = [ui.loaded EXCEPT ![q.id] = q.content]
    <2>1. read \in VersionUi
      BY <1>1, <1>3, VersionUiFacts
    <2>2. read.loaded = [ui.loaded EXCEPT ![q.id] = q.content]
      BY <1>1, <1>3 DEF VersionUi
    <2>. QED
      BY <2>1, <2>2
  <1>5. read.loaded[q.id] = q.content /\ q.content # NotLoaded
    BY <1>1, <1>4, VersionFacts DEF VersionUi
  <1>6. ~q.here => ui' = ui
    BY DEF VersionsLoaded, SetUi
  <1>7. q.here => ui' = Newest(read, q.id) \/ ui' = [read EXCEPT !.rolling = Nothing] \/ ui' = read
    BY <1>3 DEF VersionsLoaded, SetUi
  <1>8. q.here => ui' \in VersionUi /\ ui'.loaded = read.loaded
    <2>1. Newest(read, q.id) \in VersionUi /\ Newest(read, q.id).loaded = read.loaded
      BY <1>1, <1>4, <1>5, VersionUiFacts
    <2>2. [read EXCEPT !.rolling = Nothing] \in VersionUi /\ [read EXCEPT !.rolling = Nothing].loaded = read.loaded
      BY <1>1, <1>4, VersionUiFacts DEF VersionUi
    <2>. QED
      BY <1>4, <1>7, <2>1, <2>2
  <1>9. ui' \in VersionUi /\ unseen' \subseteq Ids
    BY <1>1, <1>2, <1>6, <1>8 DEF VersionsInv, VersionTypes
  <1>10. VersionTypes' /\ \A s \in requests' : s.kind \in Loads => s.content <= rows'[s.id]
    BY <1>2, <1>9, VersionOver
  <1>11. VersionKnown'
    <2> SUFFICES ASSUME NEW j \in Ids, j \notin unseen' PROVE Coming(j)' \/ ui'.loaded[j] = rows[j] \/ Unread(j)'
      BY <1>2 DEF VersionKnown
    <2>1. Coming(j) \/ ui.loaded[j] = rows[j] \/ Unread(j)
      BY <1>2 DEF VersionsInv, VersionKnown
    <2>2. CASE q.here /\ q.id = j
      <3>1. ui'.loaded[j] = q.content
        BY <1>5, <1>8, <2>2
      <3>2. CASE Coming(j)
        <4>1. q.content = rows[j] \/ Coming(j)'
          BY <1>1, <1>2, <2>2, <3>2, VersionFacts DEF Coming
        <4>. QED
          BY <3>1, <4>1
      <3>3. CASE ui.loaded[j] = rows[j]
        <4>1. ui.loaded[j] # NotLoaded /\ rows[j] \in Nat /\ q.content \in Nat
          BY <1>1, <3>3, VersionFacts DEF VersionsInv, VersionTypes
        <4>2. ~(q.content < ui.loaded[j])
          BY <1>2, <2>2, <4>1
        <4>. QED
          BY <1>1, <2>2, <3>1, <3>3, <4>1, <4>2
      <3>4. CASE Unread(j)
        BY <1>1, <2>2, <3>4 DEF Unread
      <3>. QED
        BY <2>1, <3>2, <3>3, <3>4
    <2>3. CASE ~(q.here /\ q.id = j)
      <3>1. ui'.loaded[j] = ui.loaded[j]
        <4>1. ui.loaded \in [Ids -> Histories \cup {NotLoaded}]
          BY <1>1 DEF VersionUi
        <4>. QED
          BY <1>4, <1>6, <1>8, <2>3, <4>1
      <3>2. Coming(j) => Coming(j)'
        BY <1>2, <2>3 DEF Coming
      <3>3. Unread(j) => Unread(j)'
        BY <1>2, <3>1 DEF Unread
      <3>. QED
        BY <2>1, <3>1, <3>2, <3>3
    <2>. QED
      BY <2>2, <2>3
  <1>. QED
    BY <1>10, <1>11 DEF VersionsInv

\* A rollback is answered: what it added is read again, or nothing was added that
\* the page knows of.
LEMMA RolledBackStep ==
  ASSUME VersionsInv, NEW q \in requests, RolledBack(q)
  PROVE  VersionsInv'
  <1>1. q \in VersionRequests /\ q.kind = "rollback" /\ q.kind \notin Loads /\ q.id \in Ids /\ q.outcome # "sent"
        /\ ui \in VersionUi
    BY VersionFacts DEF RolledBack, Answered, VersionsInv, VersionTypes, VersionRequests
  <1>2. UNCHANGED <<page, rows, list, opened, unseen>> /\ Limit' = Limit
    BY DEF RolledBack, Limit
  <1>3. CASE q.here /\ Confirms("rollbackJobVersion", q.outcome)
    <2>1. sent' = sent + 1 /\ sent' \in 1..Limit /\ ui' = [ui EXCEPT !.loading = q.id]
      BY <1>3, VersionFacts DEF RolledBack, VersionsInv, VersionTypes
    <2>2. PICK r : /\ r = [q EXCEPT !.n = sent + 1, !.kind = "load and free", !.content = 0, !.outcome = "sent"]
                   /\ requests' = (requests \ {q}) \cup {r}
      BY <1>3 DEF RolledBack
    <2>3. r \in VersionRequests /\ r.n = sent' /\ r.kind \in Loads /\ r.id = q.id /\ r.content = 0 /\ r.outcome = "sent" /\ r.here
      <3>1. PICK m : m = sent + 1
        OBVIOUS
      <3>2. m \in Nat /\ "load and free" \in Loads /\ 0 \in Histories
        BY <2>1, <3>1, VersionFacts DEF Loads
      <3>3. r = [q EXCEPT !.n = m, !.kind = "load and free", !.content = 0, !.outcome = "sent"]
        BY <2>2, <3>1
      <3>4. r \in VersionRequests /\ r.n = m /\ r.kind = "load and free" /\ r.id = q.id /\ r.content = 0
            /\ r.outcome = "sent" /\ r.here = q.here
        BY <1>1, <3>2, <3>3 DEF VersionRequests
      <3>. QED
        BY <1>3, <2>1, <3>1, <3>2, <3>4
    <2>4. ui' \in VersionUi /\ ui'.loaded = ui.loaded
      BY <1>1, <2>1, VersionUiFacts
    <2>5. VersionTypes'
      <3>1. \A s \in requests' : s \in VersionRequests /\ s.n \in 1..Limit
        BY <2>1, <2>2, <2>3 DEF VersionsInv, VersionTypes
      <3>2. sent' \in 0..Limit
        BY <2>1
      <3>. QED
        BY <1>2, <2>4, <3>1, <3>2 DEF VersionsInv, VersionTypes, VersionUi, VersionRequests, NoRead, NoRows
    <2>6. VersionKnown'
      <3> SUFFICES ASSUME NEW j \in Ids \ unseen PROVE Coming(j)' \/ ui'.loaded[j] = rows[j] \/ Unread(j)'
        BY <1>2 DEF VersionKnown
      <3>1. CASE q.id = j
        BY <2>2, <2>3, <3>1 DEF Coming
      <3>2. CASE q.id # j
        <4>1. Coming(j) => Coming(j)'
          BY <1>2, <2>2, <3>2 DEF Coming
        <4>2. Unread(j) => Unread(j)'
          BY <2>2, <2>3, <2>4, <3>2 DEF Unread
        <4>. QED
          BY <2>4, <4>1, <4>2 DEF VersionsInv, VersionKnown
      <3>. QED
        BY <3>1, <3>2
    <2>7. \A s \in requests' : s.kind \in Loads => s.content <= rows[s.id]
      <3>1. 0 <= rows[q.id]
        BY <1>1, VersionFacts DEF VersionsInv, VersionTypes
      <3>. QED
        BY <2>2, <2>3, <3>1 DEF VersionsInv
    <2>. QED
      BY <1>2, <2>5, <2>6, <2>7 DEF VersionsInv
  <1>4. CASE ~(q.here /\ Confirms("rollbackJobVersion", q.outcome))
    <2>1. requests' = requests \ {q} /\ SetUi(q, [ui EXCEPT !.rolling = Nothing]) /\ sent' = sent
      BY <1>4 DEF RolledBack
    <2>2. ui' \in VersionUi /\ ui'.loaded = ui.loaded
      <3>1. [ui EXCEPT !.rolling = Nothing] \in VersionUi /\ [ui EXCEPT !.rolling = Nothing].loaded = ui.loaded
        BY <1>1, VersionUiFacts DEF VersionUi
      <3>. QED
        BY <1>1, <2>1, <3>1 DEF SetUi
    <2>3. VersionTypes' /\ \A s \in requests' : s.kind \in Loads => s.content <= rows'[s.id]
      <3>1. unseen' \subseteq Ids
        BY <1>2 DEF VersionsInv, VersionTypes
      <3>. QED
        BY <1>2, <2>1, <2>2, <3>1, VersionOver
    <2>4. VersionKnown'
      <3> SUFFICES ASSUME NEW j \in Ids \ unseen PROVE Coming(j)' \/ ui'.loaded[j] = rows[j] \/ Unread(j)'
        BY <1>2 DEF VersionKnown
      <3>1. Coming(j) => Coming(j)'
        <4>1. ~(q.here /\ q.outcome = "done")
          BY <1>4, ConfirmedOrNot
        <4>. QED
          BY <1>1, <1>2, <2>1, <4>1 DEF Coming
      <3>2. Unread(j) => Unread(j)'
        BY <2>1, <2>2 DEF Unread
      <3>. QED
        BY <2>2, <3>1, <3>2 DEF VersionsInv, VersionKnown
    <2>. QED
      BY <2>3, <2>4 DEF VersionsInv
  <1>. QED
    BY <1>3, <1>4

LEMMA VersionsReopenStep ==
  ASSUME VersionsInv, VersionsReopen
  PROVE  VersionsInv'
  <1>1. UNCHANGED <<page, rows, list, sent, unseen>> /\ ui' = VersionEmpty
        /\ requests' = {[q EXCEPT !.here = FALSE] : q \in requests}
        /\ opened < MaxReopens /\ opened' = opened + 1 /\ Limit' = Limit
    BY DEF VersionsReopen, Reopen, Limit
  <1>2. VersionEmpty \in VersionUi /\ \A j \in Ids : VersionEmpty.loaded[j] = NotLoaded
    BY VersionFacts DEF VersionEmpty, VersionUi
  <1>3. ASSUME NEW r \in requests'
        PROVE  /\ r \in VersionRequests /\ r.n \in 1..Limit /\ ~r.here
               /\ r.kind \in Loads => r.content <= rows[r.id]
    <2>1. PICK q \in requests : r = [q EXCEPT !.here = FALSE]
      BY <1>1
    <2>2. q \in VersionRequests /\ q.n \in 1..Limit /\ (q.kind \in Loads => q.content <= rows[q.id])
      BY DEF VersionsInv, VersionTypes
    <2>3. r \in VersionRequests /\ r.n = q.n /\ ~r.here /\ r.kind = q.kind /\ r.content = q.content /\ r.id = q.id
      BY <2>1, <2>2 DEF VersionRequests
    <2>. QED
      BY <2>2, <2>3
  <1>4. VersionTypes'
    <2>1. opened' \in 0..MaxReopens
      BY <1>1, VersionFacts DEF VersionsInv, VersionTypes
    <2>. QED
      BY <1>1, <1>2, <1>3, <2>1 DEF VersionsInv, VersionTypes, VersionUi, VersionRequests, NoRead, NoRows
  <1>5. VersionKnown'
    BY <1>1, <1>2, <1>3 DEF VersionKnown, Unread
  <1>. QED
    BY <1>1, <1>3, <1>4, <1>5 DEF VersionsInv

LEMMA VersionStep ==
  ASSUME VersionsInv, VersionNext
  PROVE  VersionsInv'
  <1>1. ASSUME NEW j \in Ids, ToggleVersions(j) \/ OpenActiveVersion(j) \/ ReloadVersions(j) \/ SavedElsewhere(j)
        PROVE  VersionsInv'
    BY <1>1, ToggleVersionsStep, OpenActiveVersionStep, ReloadVersionsStep, SavedElsewhereStep
  <1>2. ASSUME NEW j \in Ids, NEW v \in 1..MaxVersions, ToggleDetail(j, v) \/ RollBack(j, v)
        PROVE  VersionsInv'
    BY <1>2, ToggleDetailStep, RollBackStep
  <1>3. ASSUME NEW q \in requests, NEW o \in Outcomes, VersionServed(q, o) PROVE VersionsInv'
    BY <1>3, HistoryReadStep, RollbackServedStep
  <1>4. ASSUME NEW q \in requests, VersionsLoaded(q) \/ RolledBack(q) PROVE VersionsInv'
    BY <1>4, VersionsLoadedStep, RolledBackStep
  <1>5. CASE VersionsReopen
    BY <1>5, VersionsReopenStep
  <1>. QED
    BY <1>1, <1>2, <1>3, <1>4, <1>5 DEF VersionNext

LEMMA VersionsOnly ==
  ASSUME VersionNext
  PROVE  page = "versions"
  BY DEF VersionNext, ToggleVersions, OpenActiveVersion, ReloadVersions, SavedElsewhere, ToggleDetail, RollBack,
         VersionServed, VersionsLoaded, RolledBack, VersionsReopen, OnVersions, OnPage

LEMMA VersionsGood ==
  ASSUME VersionsInv
  PROVE  page = "versions" /\ VersionTypeOK /\ ShowsOwnWrites /\ LastWriteWins /\ PanelTellsActive
  <1>1. page = "versions" /\ VersionTypes
    BY DEF VersionsInv, VersionTypes
  <1>2. VersionTypeOK
    <2>1. ASSUME NEW q \in requests
          PROVE  q \in [n : 1..Limit, kind : Loads \cup {"rollback"}, id : Ids, content : Histories,
                        outcome : {"sent"} \cup Outcomes, here : BOOLEAN]
      <3>1. q \in VersionRequests /\ q.n \in 1..Limit
        BY <1>1 DEF VersionTypes
      <3>. QED
        BY <3>1 DEF VersionRequests
    <2>. QED
      BY <1>1, <2>1 DEF VersionTypes, VersionTypeOK, OnVersions, OnPage
  <1>3. ShowsOwnWrites
    BY <1>1, PageFacts DEF VersionTypes, ShowsOwnWrites
  <1>4. PanelTellsActive
    <2> SUFFICES ASSUME requests = {}, NEW j \in Ids \ unseen PROVE ui.loaded[j] \in {NotLoaded, rows[j]}
      BY DEF PanelTellsActive
    <2>. QED
      BY DEF VersionsInv, VersionKnown, Coming, Unread
  <1>. QED
    BY <1>1, <1>2, <1>3, <1>4 DEF LastWriteWins

(***************************************************************************)
(* The simple interface: the jobs                                          *)
(***************************************************************************)
SimpleJobsInv == page = "simple-jobs" /\ RowsInv /\ ui \in [none : {TRUE}]

SimpleJobsActs ==
  \/ \E o \in ReadOutcomes : SimpleJobQuery(o)
  \/ \E i \in Ids : SimpleTrigger(i)
  \/ \E i \in Ids, c \in Contents : SimpleToggle(i, c)
  \/ \E q \in requests, o \in ReadOutcomes : SimpleActed(q, o)
  \/ SimpleLand \/ SimpleReopen
  \/ \E q \in requests, o \in Outcomes : Serve(q, o)

LEMMA SimpleJobsStep ==
  ASSUME SimpleJobsInv, SimpleJobsActs
  PROVE  SimpleJobsInv'
  <1>1. /\ RowsInv /\ page = "simple-jobs" /\ page \notin BatchPageNames /\ page \notin Listless /\ page \in Unguarded
        /\ page # "simple-runs" /\ ui \in [none : {TRUE}] /\ PageValues = Contents \cup {Blank}
    BY DEF SimpleJobsInv, BatchPageNames, AutomationNames, Listless, Unguarded, PageValues
  <1> SUFFICES RowsInv' /\ page' = page /\ ui' \in [none : {TRUE}]
    BY <1>1 DEF SimpleJobsInv
  <1>2. \A kind : Fit(kind)
    BY <1>1 DEF Fit
  <1>3. ASSUME NEW o \in ReadOutcomes, SimpleJobQuery(o) PROVE RowsInv' /\ page' = page /\ ui' \in [none : {TRUE}]
    BY <1>1, <1>3, PolledPage DEF SimpleJobQuery
  <1>4. ASSUME NEW i \in Ids, SimpleTrigger(i) PROVE RowsInv' /\ page' = page /\ ui' \in [none : {TRUE}]
    <2>1. "act" \in Kinds /\ Blank \in PageValues /\ Request("act", i, Blank) /\ UNCHANGED Click /\ UNCHANGED ui
      BY <1>1, <1>4 DEF SimpleTrigger, Kinds
    <2>. QED
      BY <1>1, <1>2, <2>1, SentPage
  <1>5. ASSUME NEW i \in Ids, NEW c \in Contents, SimpleToggle(i, c)
        PROVE  RowsInv' /\ page' = page /\ ui' \in [none : {TRUE}]
    <2>1. "toggle" \in Kinds /\ c \in PageValues /\ Request("toggle", i, c) /\ UNCHANGED Click /\ UNCHANGED ui
      BY <1>1, <1>5 DEF SimpleToggle, Kinds
    <2>. QED
      BY <1>1, <1>2, <2>1, SentPage
  <1>6. ASSUME NEW q \in requests, NEW o \in ReadOutcomes, SimpleActed(q, o)
        PROVE  RowsInv' /\ page' = page /\ ui' \in [none : {TRUE}]
    BY <1>1, <1>6, MaybeReadAgainPage DEF SimpleActed
  <1>7. CASE SimpleLand
    BY <1>1, <1>7, LandedPage DEF SimpleLand
  <1>8. CASE SimpleReopen
    <2>1. SimpleEmpty = [none |-> TRUE]
      BY <1>1 DEF SimpleEmpty
    <2>. QED
      BY <1>1, <1>8, <2>1, ReopenedPage DEF SimpleReopen
  <1>9. ASSUME NEW q \in requests, NEW o \in Outcomes, Serve(q, o) PROVE RowsInv' /\ page' = page /\ ui' \in [none : {TRUE}]
    BY <1>1, <1>9, ServedPage
  <1>. QED
    BY <1>3, <1>4, <1>5, <1>6, <1>7, <1>8, <1>9 DEF SimpleJobsActs

(***************************************************************************)
(* The simple interface: the builder                                       *)
(***************************************************************************)
BuilderUi ==
  [id : Ids \cup {Blank}, json : BOOLEAN, error : BOOLEAN,
   inputs : [Slots -> Contents \cup {Blank, Untouched}], lost : BOOLEAN]
BuilderInv == page = "builder" /\ RowsInv /\ ui \in BuilderUi /\ ~ui.lost

BuilderActs ==
  \/ BuilderMode \/ AddInput \/ SaveSimple
  \/ \E i \in Ids : BuilderId(i)
  \/ \E d \in Drafts, k \in Slots : InputValue(k, d[2])
  \/ \E k \in Slots : RemoveInput(k)
  \/ \E k, n \in Slots : RenameInput(k, n)
  \/ \E i \in Ids, c \in Contents \cup {Blank} : SaveAdvanced(i, c)
  \/ \E q \in requests : JobBuilt(q)
  \/ SimpleReopen
  \/ \E q \in requests, o \in Outcomes : Serve(q, o)

LEMMA BuilderStep ==
  ASSUME BuilderInv, BuilderActs
  PROVE  BuilderInv'
  <1>1. /\ RowsInv /\ page = "builder" /\ page \notin BatchPageNames /\ page \in Listless
        /\ page # "simple-runs" /\ ui \in BuilderUi /\ ~ui.lost /\ PageValues = Contents \cup {Blank}
    BY DEF BuilderInv, BatchPageNames, AutomationNames, Listless, PageValues
  <1> SUFFICES RowsInv' /\ page' = page /\ ui' \in BuilderUi /\ ~ui'.lost
    BY <1>1 DEF BuilderInv, BuilderUi
  <1>2. ASSUME UNCHANGED Local PROVE RowsInv' /\ page' = page
    BY <1>1, <1>2, QuietPage
  <1>3. ASSUME ~Pending({"save"}), NEW id \in Ids, NEW content \in Contents \cup {Blank},
               Request("save", id, content), UNCHANGED Click
        PROVE  RowsInv' /\ page' = page
    <2>1. "save" \in Kinds /\ Fit("save") /\ content \in PageValues
      BY <1>1, <1>3 DEF Kinds, Fit
    <2>. QED
      BY <1>1, <1>3, <2>1, SentPage
  <1>4. CASE BuilderMode
    <2>1. [ui EXCEPT !.json = ~ui.json] \in BuilderUi /\ ~[ui EXCEPT !.json = ~ui.json].lost
      <3>1. PICK b : b = ~ui.json
        OBVIOUS
      <3>2. [ui EXCEPT !.json = ~ui.json] = [ui EXCEPT !.json = b]
        BY <3>1, Zenon
      <3>3. b \in BOOLEAN
        BY <3>1, Zenon
      <3>4. \A v \in BOOLEAN : [ui EXCEPT !.json = v] \in BuilderUi /\ [ui EXCEPT !.json = v].lost = ui.lost
        BY <1>1 DEF BuilderUi
      <3>. QED
        BY <1>1, <3>2, <3>3, <3>4
    <2>. QED
      BY <1>2, <1>4, <2>1 DEF BuilderMode
  <1>5. ASSUME NEW k \in Slots, NEW v \in Contents \cup {Blank, Untouched}, ui' = [ui EXCEPT !.inputs[k] = v], UNCHANGED Local
        PROVE  RowsInv' /\ page' = page /\ ui' \in BuilderUi /\ ~ui'.lost
    BY <1>1, <1>2, <1>5 DEF BuilderUi
  <1>6. CASE AddInput
    <2>1. PICK k : k = Cardinality(Used) + 1
      OBVIOUS
    <2>2. k \in Slots /\ ui' = [ui EXCEPT !.inputs[k] = Untouched] /\ UNCHANGED Local
      BY <1>6, <2>1 DEF AddInput
    <2>. QED
      BY <1>5, <2>2
  <1>7. CASE SaveSimple
    <2>1. CASE ui.id = Blank
      <3>1. ui' = [ui EXCEPT !.error = TRUE] /\ UNCHANGED Local
        BY <1>7, <2>1 DEF SaveSimple, Click, Local
      <3>. QED
        BY <1>1, <1>2, <3>1 DEF BuilderUi
    <2>2. CASE ui.id # Blank
      <3>1. PICK c : c = CHOOSE x \in Contents : TRUE
        OBVIOUS
      <3>2. c \in Contents /\ ui.id \in Ids
        BY <1>1, <2>2, <3>1, ConsoleAssumption DEF BuilderUi
      <3>3. ~Pending({"save"}) /\ Request("save", ui.id, c) /\ UNCHANGED Click /\ UNCHANGED ui
        BY <1>7, <2>2, <3>1 DEF SaveSimple
      <3>. QED
        BY <1>1, <1>3, <3>2, <3>3
    <2>. QED
      BY <2>1, <2>2
  <1>8. ASSUME NEW i \in Ids, BuilderId(i) PROVE RowsInv' /\ page' = page /\ ui' \in BuilderUi /\ ~ui'.lost
    BY <1>1, <1>2, <1>8 DEF BuilderId, BuilderUi
  <1>9. ASSUME NEW d \in Drafts, NEW k \in Slots, InputValue(k, d[2])
        PROVE  RowsInv' /\ page' = page /\ ui' \in BuilderUi /\ ~ui'.lost
    <2>1. d[2] \in Contents \cup {Blank, Untouched}
      BY ConsoleAssumption
    <2>. QED
      BY <1>5, <1>9, <2>1 DEF InputValue
  <1>10. ASSUME NEW k \in Slots, RemoveInput(k) PROVE RowsInv' /\ page' = page /\ ui' \in BuilderUi /\ ~ui'.lost
    BY <1>5, <1>10 DEF RemoveInput
  <1>11. ASSUME NEW k \in Slots, NEW n \in Slots, RenameInput(k, n)
         PROVE  RowsInv' /\ page' = page /\ ui' \in BuilderUi /\ ~ui'.lost
    <2>1. UNCHANGED Local /\ ui' = Renamed(k, n)
      BY <1>11 DEF RenameInput
    <2>2. Renamed(k, n) \in BuilderUi /\ ~Renamed(k, n).lost
      <3>1. [ui EXCEPT !.inputs = [ui.inputs EXCEPT ![n] = ui.inputs[k], ![k] = Blank]] \in BuilderUi
            /\ [ui EXCEPT !.inputs = [ui.inputs EXCEPT ![n] = ui.inputs[k], ![k] = Blank]].lost = ui.lost
        BY <1>1 DEF BuilderUi
      <3>. QED
        BY <1>1, <3>1 DEF Renamed
    <2>. QED
      BY <1>2, <2>1, <2>2
  <1>12. ASSUME NEW i \in Ids, NEW c \in Contents \cup {Blank}, SaveAdvanced(i, c)
         PROVE  RowsInv' /\ page' = page /\ ui' \in BuilderUi /\ ~ui'.lost
    <2>1. CASE c = Blank
      <3>1. ui' = [ui EXCEPT !.error = TRUE] /\ UNCHANGED Local
        BY <1>12, <2>1 DEF SaveAdvanced, Click, Local
      <3>. QED
        BY <1>1, <1>2, <3>1 DEF BuilderUi
    <2>2. CASE c # Blank
      <3>1. ~Pending({"save"}) /\ Request("save", i, c) /\ UNCHANGED Click /\ ui' = [ui EXCEPT !.error = FALSE]
        BY <1>12, <2>2 DEF SaveAdvanced
      <3>. QED
        BY <1>1, <1>3, <3>1 DEF BuilderUi
    <2>. QED
      BY <2>1, <2>2
  <1>13. ASSUME NEW q \in requests, JobBuilt(q) PROVE RowsInv' /\ page' = page /\ ui' \in BuilderUi /\ ~ui'.lost
    <2>1. RowsInv' /\ page' = page
      BY <1>1, <1>13, DroppedPage DEF JobBuilt
    <2>2. ui' = ui \/ ui' = [ui EXCEPT !.error = FALSE]
      BY <1>13 DEF JobBuilt, SetUi
    <2>. QED
      BY <1>1, <2>1, <2>2 DEF BuilderUi
  <1>14. CASE SimpleReopen
    <2>1. SimpleEmpty = [id |-> Blank, json |-> FALSE, error |-> FALSE, inputs |-> NoInputs, lost |-> FALSE]
      BY <1>1 DEF SimpleEmpty
    <2>2. SimpleEmpty \in BuilderUi /\ ~SimpleEmpty.lost
      BY <2>1 DEF BuilderUi, NoInputs
    <2>3. RowsInv' /\ page' = page /\ ui' = SimpleEmpty
      BY <1>1, <1>14, ReopenedPage DEF SimpleReopen
    <2>. QED
      BY <2>2, <2>3
  <1>15. ASSUME NEW q \in requests, NEW o \in Outcomes, Serve(q, o) PROVE RowsInv' /\ page' = page /\ ui' \in BuilderUi /\ ~ui'.lost
    BY <1>1, <1>15, ServedPage
  <1>. QED
    BY <1>4, <1>6, <1>7, <1>8, <1>9, <1>10, <1>11, <1>12, <1>13, <1>14, <1>15 DEF BuilderActs

(***************************************************************************)
(* The simple interface: the runs                                          *)
(***************************************************************************)
RunsUi ==
  [filter : Filters, cache : [Filters -> Readings], detail : Ids \cup {Blank}, asked : Ids \cup {Blank},
   overtaken : BOOLEAN]
\* The answers on their way, and the dialog, are of the run that was asked for last.
LastAsked ==
  ~ui.overtaken => ui.detail \in {Blank, ui.asked} /\ \A q \in requests : q.here => q.id = ui.asked
RunsInv ==
  /\ page = "simple-runs" /\ RowsInv /\ ui \in RunsUi /\ LastAsked
  /\ \A q \in requests : q.kind = "act"

RunsActs ==
  \/ \E o \in ReadOutcomes : SimpleRunsQuery(o)
  \/ \E f \in Filters, o \in ReadOutcomes : RunsFilter(f, o)
  \/ \E d \in Drafts : RunMoves(d[1], d[2])
  \/ \E i \in Ids : OpenDetail(i)
  \/ DetailClose
  \/ \E q \in requests : DetailOpened(q)
  \/ SimpleLand \/ RunsReopen
  \/ \E q \in requests, o \in Outcomes : Serve(q, o)

LEMMA RunsFacts ==
  ASSUME RunsInv
  PROVE  /\ RowsInv /\ page = "simple-runs" /\ page \notin BatchPageNames /\ page \notin Listless
         /\ ui \in RunsUi /\ PageValues = Contents \cup {Blank} /\ LastAsked
         /\ \A q \in requests : q.kind = "act" /\ ~Writes(q) /\ q.id \in Ids
         /\ Blank \in Filters /\ list.data \in Readings /\ list.flight \in Readings
  <1>1. /\ RowsInv /\ page = "simple-runs" /\ page \notin BatchPageNames /\ page \notin Listless
        /\ ui \in RunsUi /\ PageValues = Contents \cup {Blank} /\ LastAsked
    BY DEF RunsInv, BatchPageNames, AutomationNames, Listless, PageValues
  <1>2. \A q \in requests : q.kind = "act" /\ ~Writes(q) /\ q.id \in Ids
    BY DEF RunsInv, Writes, RowsInv, PageTypes, RequestsOf
  <1>. QED
    BY <1>1, <1>2, ShownFacts DEF Filters

LEMMA RunsKept ==
  ASSUME RunsInv, RowsInv', page' = page, ui' \in RunsUi, LastAsked', \A q \in requests' : q.kind = "act"
  PROVE  RunsInv'
  <1>1. RunsUi' = RunsUi
    BY DEF RunsUi, Readings, PageValues
  <1>. QED
    BY <1>1 DEF RunsInv

\* A run goes on by itself.
LEMMA RunMovesStep ==
  ASSUME RunsInv, NEW id \in Ids, NEW content \in Contents, RunMoves(id, content)
  PROVE  RunsInv'
  <1>1. /\ rows' = [rows EXCEPT ![id] = content] /\ latest' = [latest EXCEPT ![id].content = content]
        /\ unseen' = unseen \cup {id} /\ UNCHANGED <<page, ui, list, requests, sent, opened, crossed>>
    BY DEF RunMoves
  <1>2. RowsInv /\ ui \in RunsUi /\ LastAsked /\ content \in PageValues /\ page \notin BatchPageNames
        /\ \A q \in requests : ~Writes(q) /\ q.kind = "act"
    BY RunsFacts
  <1>3. latest \in [Ids -> [n : Nat, content : PageValues]]
    BY <1>2 DEF RowsInv, PageTypes
  <1>4. \A i \in Ids : latest'[i] \in [n : Nat, content : PageValues] /\ latest'[i].n = latest[i].n
                       /\ latest'[i].content = (IF i = id THEN content ELSE latest[i].content)
    BY <1>1, <1>2, <1>3
  <1>5. latest' \in [Ids -> [n : Nat, content : PageValues]]
    BY <1>1, <1>3, <1>4
  <1>6. rows' \in [Ids -> PageValues] /\ \A i \in Ids : rows'[i] = (IF i = id THEN content ELSE rows[i])
    BY <1>1, <1>2 DEF RowsInv, PageTypes
  <1>7. PageTypes'
    <2>1. PageValues' = PageValues /\ Readings' = Readings /\ Limit' = Limit
      BY <1>1 DEF PageValues, Readings, Limit
    <2>2. \A i \in Ids : latest'[i].n <= sent
      BY <1>2, <1>4 DEF RowsInv, PageTypes
    <2>. QED
      BY <1>1, <1>2, <1>5, <1>6, <2>1, <2>2 DEF RowsInv, PageTypes, Numbered
  <1>8. SendsAgree' /\ DoneCounts' /\ NoList'
    BY <1>1, <1>2 DEF RowsInv, SendsAgree, DoneCounts, NoList, ToWrite, Writes
  <1>9. LastStored'
    BY <1>1, <1>2, <1>4, <1>6 DEF RowsInv, LastStored
  <1>10. ReadsAgree'
    <2> SUFFICES ASSUME LastReading.outcome = "done", NEW i \in Ids, i \notin unseen, i # id
                 PROVE  LastReading.rows[i] = rows'[i] \/ ToBeRead(i)'
      BY <1>1 DEF ReadsAgree, LastReading
    <2>1. LastReading.rows[i] = rows[i] \/ ToBeRead(i)
      BY <1>2 DEF RowsInv, ReadsAgree
    <2>2. ToBeRead(i) => ToBeRead(i)'
      BY <1>1 DEF ToBeRead, Writes, BatchRows, Batches
    <2>. QED
      BY <1>6, <2>1, <2>2
  <1>11. RowsInv'
    BY <1>7, <1>8, <1>9, <1>10 DEF RowsInv
  <1>12. ui' \in RunsUi /\ LastAsked' /\ page' = page /\ \A q \in requests' : q.kind = "act"
    BY <1>1, <1>2 DEF LastAsked
  <1>. QED
    BY <1>11, <1>12, RunsKept

\* Another list is shown.
LEMMA RunsFilterStep ==
  ASSUME RunsInv, NEW filter \in Filters, NEW o \in ReadOutcomes, RunsFilter(filter, o)
  PROVE  RunsInv'
  <1>1. UNCHANGED <<page, rows, requests, sent, opened, latest, crossed>>
    BY DEF RunsFilter
  <1>2. RowsInv /\ ui \in RunsUi /\ LastAsked /\ page \notin BatchPageNames /\ page \notin Listless
        /\ \A q \in requests : q.kind = "act"
    BY RunsFacts
  <1>3. PICK v : v = (IF list.flight # NoRead THEN list.flight ELSE list.data)
    OBVIOUS
  <1>4. v \in Readings /\ ui.cache[filter] \in Readings /\ NoRead \in Readings
    BY <1>2, <1>3, RunsFacts, PageFacts DEF RunsUi
  <1>5. ui' = [ui EXCEPT !.filter = filter, !.cache[ui.filter] = v]
    BY <1>3 DEF RunsFilter
  <1>6. ui' \in RunsUi /\ ui'.overtaken = ui.overtaken /\ ui'.detail = ui.detail /\ ui'.asked = ui.asked
    BY <1>2, <1>4, <1>5 DEF RunsUi
  <1>7. PICK r : r = Reading("getRuns", o)
    OBVIOUS
  <1>8. r \in Readings /\ r # NoRead /\ r.outcome = o /\ (o = "done" => r.rows = rows)
    BY <1>2, <1>7, ReadingIs
  <1>9. CASE list' = [data |-> ui.cache[filter], flight |-> r] /\ unseen' = IF o = "done" THEN {} ELSE unseen
    <2>1. list' \in [data : Readings, flight : Readings] /\ LastReading' = r /\ unseen' \subseteq unseen
      BY <1>4, <1>8, <1>9 DEF LastReading
    <2>2. ReadsAgree'
      BY <1>1, <1>8, <2>1 DEF ReadsAgree
    <2>3. PageTypes'
      <3>1. PageValues' = PageValues /\ Readings' = Readings /\ Limit' = Limit
        BY <1>1 DEF PageValues, Readings, Limit
      <3>. QED
        BY <1>1, <1>2, <2>1, <3>1 DEF RowsInv, PageTypes, Numbered
    <2>4. SendsAgree' /\ LastStored' /\ DoneCounts' /\ NoList'
      BY <1>1, <1>2 DEF RowsInv, SendsAgree, LastStored, DoneCounts, NoList, ToWrite, Writes, Effect
    <2>5. RowsInv'
      BY <2>2, <2>3, <2>4 DEF RowsInv
    <2>. QED
      BY <1>1, <1>2, <1>6, <2>5, RunsKept DEF LastAsked
  <1>10. CASE list' = [data |-> ui.cache[filter], flight |-> NoRead] /\ unseen' = Ids
    <2>1. list' \in [data : Readings, flight : Readings]
      BY <1>4, <1>10
    <2>2. ReadsAgree'
      BY <1>10 DEF ReadsAgree
    <2>3. PageTypes'
      <3>1. PageValues' = PageValues /\ Readings' = Readings /\ Limit' = Limit
        BY <1>1 DEF PageValues, Readings, Limit
      <3>. QED
        BY <1>1, <1>2, <1>10, <2>1, <3>1 DEF RowsInv, PageTypes, Numbered
    <2>4. SendsAgree' /\ LastStored' /\ DoneCounts' /\ NoList'
      BY <1>1, <1>2 DEF RowsInv, SendsAgree, LastStored, DoneCounts, NoList, ToWrite, Writes, Effect
    <2>5. RowsInv'
      BY <2>2, <2>3, <2>4 DEF RowsInv
    <2>. QED
      BY <1>1, <1>2, <1>6, <2>5, RunsKept DEF LastAsked
  <1>. QED
    BY <1>7, <1>9, <1>10 DEF RunsFilter

LEMMA RunsQuietStep ==
  ASSUME RunsInv, \/ \E o \in ReadOutcomes : SimpleRunsQuery(o)
                  \/ SimpleLand
                  \/ \E q \in requests, o \in Outcomes : Serve(q, o)
  PROVE  RunsInv'
  <1>1. ASSUME NEW o \in ReadOutcomes, SimpleRunsQuery(o) PROVE RunsInv'
    <2>1. RowsInv' /\ page' = page /\ ui' = ui /\ requests' = requests
      BY <1>1, RunsFacts, PolledPage DEF SimpleRunsQuery
    <2>. QED
      BY <2>1, RunsFacts, RunsKept DEF LastAsked
  <1>2. CASE SimpleLand
    <2>1. RowsInv' /\ page' = page /\ ui' = ui /\ requests' = requests
      BY <1>2, RunsFacts, LandedPage DEF SimpleLand
    <2>. QED
      BY <2>1, RunsFacts, RunsKept DEF LastAsked
  <1>3. ASSUME NEW q \in requests, NEW o \in Outcomes, Serve(q, o) PROVE RunsInv'
    <2>1. /\ RowsInv' /\ page' = page /\ ui' = ui
          /\ \A r \in requests' : \E s \in requests : r.here = s.here /\ r.id = s.id /\ r.kind = s.kind /\ r.n = s.n
      BY <1>3, RunsFacts, ServedPage
    <2>. QED
      BY <2>1, RunsFacts, RunsKept DEF LastAsked
  <1>. QED
    BY <1>1, <1>2, <1>3

LEMMA OpenDetailStep ==
  ASSUME RunsInv, NEW id \in Ids, OpenDetail(id)
  PROVE  RunsInv'
  <1>1. Request("act", id, Blank) /\ UNCHANGED Click /\ ui.detail = Blank
        /\ ui' = [ui EXCEPT !.asked = id, !.overtaken = ui.overtaken \/ Pending({"act"})]
    BY DEF OpenDetail, DetailCanOpen
  <1>2. PICK r : r = NewRequest("act", id, Blank)
    OBVIOUS
  <1>3. r.kind = "act" /\ r.id = id
    BY <1>2 DEF NewRequest
  <1>4. "act" \in Kinds /\ Fit("act") /\ Blank \in PageValues
    BY PageFacts DEF Kinds, Fit
  <1>5. RowsInv' /\ page' = page /\ requests' = requests \cup {r}
    BY <1>1, <1>2, <1>4, RunsFacts, SentPage
  <1>6. PICK v : v = (ui.overtaken \/ Pending({"act"}))
    OBVIOUS
  <1>7. ui' = [ui EXCEPT !.asked = id, !.overtaken = v]
    BY <1>1, <1>6, Zenon
  <1>8. v \in BOOLEAN
    BY <1>6, Zenon
  <1>9. ui' \in RunsUi /\ ui'.overtaken = v /\ ui'.detail = Blank /\ ui'.asked = id
    BY <1>1, <1>7, <1>8, RunsFacts DEF RunsUi
  <1>10. ~v => \A q \in requests : ~q.here
    BY <1>6, RunsFacts DEF Pending
  <1>11. LastAsked'
    BY <1>3, <1>5, <1>9, <1>10 DEF LastAsked
  <1>12. \A q \in requests' : q.kind = "act"
    BY <1>3, <1>5, RunsFacts
  <1>. QED
    BY <1>5, <1>9, <1>11, <1>12, RunsKept

LEMMA DetailCloseStep ==
  ASSUME RunsInv, DetailClose
  PROVE  RunsInv'
  <1>1. UNCHANGED Local /\ ui' = [ui EXCEPT !.detail = Blank, !.overtaken = Pending({"act"})]
    BY DEF DetailClose
  <1>2. RowsInv' /\ page' = page /\ requests' = requests
    BY <1>1, RunsFacts, QuietPage
  <1>3. PICK v : v = Pending({"act"})
    OBVIOUS
  <1>4. ui' = [ui EXCEPT !.detail = Blank, !.overtaken = v]
    BY <1>1, <1>3, Zenon
  <1>5. v \in BOOLEAN
    BY <1>3, Zenon DEF Pending
  <1>6. ui' \in RunsUi /\ ui'.overtaken = v /\ ui'.detail = Blank
    BY <1>4, <1>5, RunsFacts DEF RunsUi
  <1>7. ~v => \A q \in requests : ~q.here
    BY <1>3, RunsFacts DEF Pending
  <1>8. LastAsked'
    BY <1>2, <1>6, <1>7 DEF LastAsked
  <1>. QED
    BY <1>2, <1>6, <1>8, RunsFacts, RunsKept

LEMMA DetailOpenedStep ==
  ASSUME RunsInv, NEW q \in requests, DetailOpened(q)
  PROVE  RunsInv'
  <1>1. Over(q) /\ UNCHANGED <<list, unseen>> /\ (ui' = ui \/ (q.here /\ ui' = [ui EXCEPT !.detail = q.id]))
    BY DEF DetailOpened, SetUi
  <1>2. RowsInv' /\ page' = page /\ requests' = requests \ {q}
    BY <1>1, RunsFacts, DroppedPage
  <1>3. CASE ui' = ui
    BY <1>2, <1>3, RunsFacts, RunsKept DEF LastAsked
  <1>4. CASE q.here /\ ui' = [ui EXCEPT !.detail = q.id]
    <2>1. ui' \in RunsUi /\ ui'.overtaken = ui.overtaken /\ ui'.detail = q.id /\ ui'.asked = ui.asked
      BY <1>4, RunsFacts DEF RunsUi
    <2>2. LastAsked'
      BY <1>2, <1>4, <2>1, RunsFacts DEF LastAsked
    <2>. QED
      BY <1>2, <2>1, <2>2, RunsFacts, RunsKept
  <1>. QED
    BY <1>1, <1>3, <1>4

LEMMA RunsReopenStep ==
  ASSUME RunsInv, RunsReopen
  PROVE  RunsInv'
  <1>1. PICK empty : empty = [SimpleEmpty EXCEPT !.cache = ui.cache] /\ Reopen(empty)
    BY DEF RunsReopen
  <1>2. empty = [filter |-> Blank, cache |-> ui.cache, detail |-> Blank, asked |-> Blank, overtaken |-> FALSE]
    BY <1>1, RunsFacts DEF SimpleEmpty
  <1>3. empty \in RunsUi /\ empty.detail = Blank
    BY <1>2, RunsFacts DEF RunsUi
  <1>4. /\ RowsInv' /\ page' = page /\ ui' = empty
        /\ \A r \in requests' : ~r.here /\ \E s \in requests : r.id = s.id /\ r.kind = s.kind
    BY <1>1, RunsFacts, ReopenedPage
  <1>5. LastAsked'
    BY <1>3, <1>4 DEF LastAsked
  <1>6. \A r \in requests' : r.kind = "act"
    BY <1>4, RunsFacts
  <1>. QED
    BY <1>3, <1>4, <1>5, <1>6, RunsKept

LEMMA RunsStep ==
  ASSUME RunsInv, RunsActs
  PROVE  RunsInv'
  <1>1. ASSUME NEW d \in Drafts, RunMoves(d[1], d[2]) PROVE RunsInv'
    <2>1. d[1] \in Ids /\ d[2] \in Contents
      BY ConsoleAssumption
    <2>. QED
      BY <1>1, <2>1, RunMovesStep
  <1>. QED
    BY <1>1, RunsQuietStep, RunsFilterStep, OpenDetailStep, DetailCloseStep, DetailOpenedStep, RunsReopenStep DEF RunsActs

\* The pages of the simple interface together.
SimpleInv == SimpleJobsInv \/ BuilderInv \/ RunsInv

LEMMA SimpleActs ==
  ASSUME SimpleNext
  PROVE  \/ page = "simple-jobs" /\ SimpleJobsActs
         \/ page = "builder" /\ BuilderActs
         \/ page = "simple-runs" /\ RunsActs
  <1>1. ASSUME \/ \E i \in Ids, c \in Contents : SimpleToggle(i, c)
               \/ \E i \in Ids : SimpleTrigger(i)
               \/ \E o \in ReadOutcomes : SimpleJobQuery(o)
               \/ \E q \in requests, o \in ReadOutcomes : SimpleActed(q, o)
        PROVE  page = "simple-jobs" /\ SimpleJobsActs
    BY <1>1 DEF SimpleJobsActs, SimpleToggle, SimpleTrigger, SimpleJobQuery, SimpleActed, OnPage
  <1>2. ASSUME \/ \E d \in Drafts, k \in Slots : InputValue(k, d[2])
               \/ \E i \in Ids : BuilderId(i)
               \/ BuilderMode \/ AddInput \/ SaveSimple
               \/ \E k \in Slots : RemoveInput(k)
               \/ \E k, n \in Slots : RenameInput(k, n)
               \/ \E i \in Ids, c \in Contents \cup {Blank} : SaveAdvanced(i, c)
               \/ \E q \in requests : JobBuilt(q)
        PROVE  page = "builder" /\ BuilderActs
    BY <1>2 DEF BuilderActs, InputValue, BuilderId, BuilderMode, AddInput, SaveSimple, RemoveInput, RenameInput, SaveAdvanced,
                JobBuilt, OnForm, OnPage
  <1>3. ASSUME \/ \E d \in Drafts : RunMoves(d[1], d[2])
               \/ \E i \in Ids : OpenDetail(i)
               \/ \E f \in Filters, o \in ReadOutcomes : RunsFilter(f, o)
               \/ DetailClose \/ RunsReopen
               \/ \E o \in ReadOutcomes : SimpleRunsQuery(o)
               \/ \E q \in requests : DetailOpened(q)
        PROVE  page = "simple-runs" /\ RunsActs
    BY <1>3 DEF RunsActs, RunMoves, OpenDetail, RunsFilter, DetailClose, RunsReopen, SimpleRunsQuery, DetailOpened, OnPage
  <1>4. CASE SimpleLand
    BY <1>4 DEF SimpleLand, SimpleJobsActs, RunsActs
  <1>5. CASE SimpleReopen
    BY <1>5 DEF SimpleReopen, SimpleJobsActs, BuilderActs
  <1>6. CASE SimpleClicks
    <2>1. \/ \E i \in Ids, c \in Contents : SimpleToggle(i, c)
          \/ \E d \in Drafts : RunMoves(d[1], d[2]) \/ (\E k \in Slots : InputValue(k, d[2]))
          \/ \E i \in Ids : SimpleTrigger(i) \/ OpenDetail(i) \/ BuilderId(i)
          \/ \E f \in Filters, o \in ReadOutcomes : RunsFilter(f, o)
          \/ DetailClose \/ BuilderMode \/ AddInput \/ SaveSimple
          \/ \E k \in Slots : RemoveInput(k) \/ (\E n \in Slots : RenameInput(k, n))
          \/ \E i \in Ids, c \in Contents \cup {Blank} : SaveAdvanced(i, c)
          \/ SimpleReopen \/ RunsReopen
      BY <1>6 DEF SimpleClicks
    <2>. QED
      BY <2>1, <1>1, <1>2, <1>3, <1>5
  <1>7. CASE SimpleAnswers
    BY <1>7, <1>1, <1>2, <1>3, <1>4 DEF SimpleAnswers
  <1>. QED
    BY <1>6, <1>7 DEF SimpleNext

LEMMA SimpleStep ==
  ASSUME SimpleInv, SimpleNext \/ \E q \in requests, o \in Outcomes : Serve(q, o)
  PROVE  SimpleInv'
  <1>1. ASSUME SimpleJobsInv PROVE SimpleJobsInv'
    <2>1. SimpleJobsActs
      BY <1>1, SimpleActs DEF SimpleJobsInv, SimpleJobsActs
    <2>. QED
      BY <1>1, <2>1, SimpleJobsStep
  <1>2. ASSUME BuilderInv PROVE BuilderInv'
    <2>1. BuilderActs
      BY <1>2, SimpleActs DEF BuilderInv, BuilderActs
    <2>. QED
      BY <1>2, <2>1, BuilderStep
  <1>3. ASSUME RunsInv PROVE RunsInv'
    <2>1. RunsActs
      BY <1>3, SimpleActs DEF RunsInv, RunsActs
    <2>. QED
      BY <1>3, <2>1, RunsStep
  <1>. QED
    BY <1>1, <1>2, <1>3 DEF SimpleInv

LEMMA SimplesGood ==
  ASSUME SimpleInv
  PROVE  SimpleTypeOK /\ ShowsOwnWrites /\ LastWriteWins /\ ParametersKept /\ DetailIsAsked
  <1>1. page \in SimplePageNames /\ RowsInv /\ page \notin BatchPageNames
    BY DEF SimpleInv, SimpleJobsInv, BuilderInv, RunsInv, SimplePageNames, BatchPageNames, AutomationNames
  <1>2. BatchRows = {}
    BY <1>1 DEF BatchRows, Batches
  <1>3. BaseTypeOK /\ ShowsOwnWrites /\ LastWriteWins
    BY <1>1, <1>2, RowsGood
  <1>4. ui \in SimpleUi
    <2>1. CASE SimpleJobsInv
      BY <2>1 DEF SimpleJobsInv, SimpleUi
    <2>2. CASE BuilderInv
      BY <2>2 DEF BuilderInv, BuilderUi, SimpleUi
    <2>3. CASE RunsInv
      <3>1. page = "simple-runs" /\ ui \in RunsUi
        BY <2>3 DEF RunsInv
      <3>2. PageValues \subseteq Values
        BY <1>1, ShownFacts
      <3>3. \A r \in Readings : r \in [rows : [Ids -> Values], outcome : ReadOutcomes \cup {"none"}]
        BY <3>2 DEF Readings
      <3>4. ui.cache \in [Filters -> [rows : [Ids -> Values], outcome : ReadOutcomes \cup {"none"}]]
        BY <3>1, <3>3 DEF RunsUi
      <3>5. ui \in [filter : Filters, cache : [Filters -> [rows : [Ids -> Values], outcome : ReadOutcomes \cup {"none"}]],
                    detail : Ids \cup {Blank}, asked : Ids \cup {Blank}, overtaken : BOOLEAN]
        BY <3>1, <3>4 DEF RunsUi
      <3>. QED
        BY <3>1, <3>5 DEF SimpleUi
    <2>. QED
      BY <2>1, <2>2, <2>3 DEF SimpleInv
  <1>5. ParametersKept
    <2> SUFFICES ASSUME page = "builder" PROVE ~ui.lost
      BY DEF ParametersKept
    <2>. QED
      BY DEF SimpleInv, SimpleJobsInv, BuilderInv, RunsInv
  <1>6. DetailIsAsked
    <2> SUFFICES ASSUME page = "simple-runs", ~ui.overtaken PROVE ui.detail \in {Blank, ui.asked}
      BY DEF DetailIsAsked
    <2>1. RunsInv
      BY DEF SimpleInv, SimpleJobsInv, BuilderInv
    <2>. QED
      BY <2>1 DEF RunsInv, LastAsked
  <1>. QED
    BY <1>1, <1>3, <1>4, <1>5, <1>6 DEF SimpleTypeOK

(***************************************************************************)
(* The batches                                                             *)
(***************************************************************************)
\* Nothing a call answers when it fails looks like an answer.
Silent(answers) == \A call \in DOMAIN answers : answers[call] # "answer"

LEMMA SilentCalls ==
  /\ Silent(JobCalls) /\ Silent(RunCalls) /\ Silent(ExperimentCalls) /\ Silent(TriggerCalls) /\ Silent(FireCalls)
  /\ Silent(SkillCalls) /\ Silent(AccountCalls) /\ Silent(AgentCalls) /\ Silent(MetricCalls) /\ Silent(LogCalls)
  /\ Silent(ApprovalCalls) /\ Silent(BranchCalls) /\ Silent(ArmoryCalls) /\ Silent(BoardroomCalls) /\ Silent(PlannerCalls)
  <1>1. Silent(JobCalls)
    BY DEF Silent, JobCalls, Empty, Undefined, False
  <1>2. Silent(RunCalls) /\ Silent(ExperimentCalls)
    BY DEF Silent, RunCalls, ExperimentCalls, Empty, Undefined, False
  <1>3. Silent(TriggerCalls) /\ Silent(FireCalls)
    BY DEF Silent, TriggerCalls, FireCalls, Empty, Undefined, False, Throws
  <1>4. Silent(SkillCalls) /\ Silent(AgentCalls)
    BY DEF Silent, SkillCalls, AgentCalls, Empty, Undefined, False
  <1>5. Silent(AccountCalls)
    BY DEF Silent, AccountCalls, Empty, Undefined, False
  <1>6. Silent(MetricCalls) /\ Silent(LogCalls) /\ Silent(ApprovalCalls)
    BY DEF Silent, MetricCalls, LogCalls, ApprovalCalls, Empty, Undefined, False
  <1>7. Silent(BranchCalls) /\ Silent(ArmoryCalls)
    BY DEF Silent, BranchCalls, ArmoryCalls, Empty, Undefined, False
  <1>8. Silent(BoardroomCalls) /\ Silent(PlannerCalls)
    BY DEF Silent, BoardroomCalls, PlannerCalls, Empty, False, Throws
  <1>. QED
    BY <1>1, <1>2, <1>3, <1>4, <1>5, <1>6, <1>7, <1>8

LEMMA SilentOnFailure ==
  /\ \A call \in DOMAIN OnFailure : OnFailure[call] # "answer"
  /\ DOMAIN JobCalls \subseteq DOMAIN OnFailure /\ DOMAIN AccountCalls \subseteq DOMAIN OnFailure
  <1>1. DOMAIN OnFailure = UNION {DOMAIN group : group \in CallGroups}
    BY DEF OnFailure
  <1>2. JobCalls \in CallGroups /\ AccountCalls \in CallGroups /\ \A group \in CallGroups : Silent(group)
    BY SilentCalls DEF CallGroups
  <1>3. ASSUME NEW call \in DOMAIN OnFailure PROVE OnFailure[call] # "answer"
    <2>1. PICK group : group = CHOOSE g \in CallGroups : call \in DOMAIN g
      OBVIOUS
    <2>2. group \in CallGroups /\ call \in DOMAIN group
      BY <1>1, <2>1
    <2>3. OnFailure[call] = group[call]
      BY <1>1, <2>1 DEF OnFailure
    <2>. QED
      BY <1>2, <2>2, <2>3 DEF Silent
  <1>. QED
    BY <1>1, <1>2, <1>3

\* A batch counts as saved what the API said it did.
LEMMA OnlyDoneConfirms ==
  ASSUME NEW call \in {"upsertAgentWorkflowAutomation", "upsertIntegrationAccount"}, NEW outcome
  PROVE  Confirms(call, outcome) <=> outcome = "done"
  <1>1. call \in DOMAIN OnFailure
    BY SilentOnFailure DEF JobCalls, AccountCalls
  <1>2. OnFailure[call] # "answer"
    BY <1>1, SilentOnFailure
  <1>. QED
    BY <1>2 DEF Confirms, Answer, HandleApiError

BatchRecords ==
  [first : Nat, at : Nat, items : SUBSET Ids, todo : Seq(Ids), what : [Ids -> Contents \cup {Blank}],
   done : SUBSET Ids, failed : SUBSET Ids, here : BOOLEAN]
ToldRecords == [first : Nat, items : SUBSET Ids, done : SUBSET Ids, failed : SUBSET Ids]
BatchForm ==
  [id : Ids \cup {Blank}, content : Contents \cup {Blank}, busy : BOOLEAN,
   editor : [Ids -> [content : Contents \cup {Blank}, token : BOOLEAN]],
   batches : SUBSET BatchRecords, told : SUBSET ToldRecords]

\* The rows of a batch: those counted, the one being saved and those to come, each
\* of them once.
Split(b, i) ==
  /\ b.items = b.done \cup b.failed \cup {i} \cup ToSet(b.todo) /\ IsInjective(b.todo)
  /\ b.done \cap b.failed = {} /\ i \notin b.done \cup b.failed \cup ToSet(b.todo)
  /\ ToSet(b.todo) \cap (b.done \cup b.failed) = {}
Since(rs, n) == \A i \in rs : latest[i].n >= n

\* A batch that is not over has a request on its way, or answered, and no other
\* batch has the same one.
Running(b) ==
  /\ b.first \in 1..b.at /\ b.at \in 1..sent /\ Since(b.done, b.first)
  /\ \E q \in requests : q.n = b.at /\ q.kind = "save" /\ Split(b, q.id)
Accounted(t) ==
  t.first \in 1..sent /\ t.done \cup t.failed = t.items /\ t.done \cap t.failed = {} /\ Since(t.done, t.first)
BatchInv ==
  /\ page \in BatchPageNames /\ RowsInv /\ ui \in BatchForm
  /\ \A b \in ui.batches : Running(b)
  /\ \A b, c \in ui.batches : b.at = c.at => b = c
  /\ \A t \in ui.told : Accounted(t)

LEMMA SequenceOnce ==
  ASSUME NEW s \in Seq(Ids), s # <<>>, IsInjective(s)
  PROVE  /\ Head(s) \in Ids /\ Tail(s) \in Seq(Ids) /\ IsInjective(Tail(s))
         /\ ToSet(s) = {Head(s)} \cup ToSet(Tail(s)) /\ Head(s) \notin ToSet(Tail(s))
         /\ ToSet(s) \subseteq Ids
  <1>1. /\ Head(s) \in Ids /\ Tail(s) \in Seq(Ids) /\ Len(Tail(s)) = Len(s) - 1
        /\ \A i \in 1..Len(Tail(s)) : Tail(s)[i] = s[i + 1]
    BY HeadTailProperties
  <1>2. Len(s) \in Nat \ {0} /\ DOMAIN s = 1..Len(s) /\ Head(s) = s[1]
    BY EmptySeq, LenProperties
  <1>3. DOMAIN Tail(s) = 1..(Len(s) - 1)
    BY <1>1, LenProperties
  <1>4. \A i, j \in 1..Len(s) : s[i] = s[j] => i = j
    BY <1>2 DEF IsInjective
  <1>5. IsInjective(Tail(s))
    <2> SUFFICES ASSUME NEW i \in DOMAIN Tail(s), NEW j \in DOMAIN Tail(s), Tail(s)[i] = Tail(s)[j] PROVE i = j
      BY DEF IsInjective
    <2>1. i + 1 \in 1..Len(s) /\ j + 1 \in 1..Len(s) /\ s[i + 1] = s[j + 1]
      BY <1>1, <1>2, <1>3
    <2>2. i + 1 = j + 1
      BY <1>4, <2>1
    <2>. QED
      BY <1>2, <1>3, <2>2
  <1>6. ASSUME NEW x PROVE x \in ToSet(s) <=> x = Head(s) \/ x \in ToSet(Tail(s))
    <2>1. x \in ToSet(s) <=> \E i \in 1..Len(s) : x = s[i]
      BY <1>2 DEF ToSet
    <2>2. x \in ToSet(Tail(s)) <=> \E i \in 1..(Len(s) - 1) : x = s[i + 1]
      BY <1>1, <1>3 DEF ToSet
    <2>3. ASSUME NEW i \in 1..Len(s) PROVE i = 1 \/ (i - 1 \in 1..(Len(s) - 1) /\ (i - 1) + 1 = i)
      BY <1>2
    <2>4. ASSUME NEW i \in 1..(Len(s) - 1) PROVE i + 1 \in 1..Len(s)
      BY <1>2
    <2>. QED
      BY <1>2, <2>1, <2>2, <2>3, <2>4
  <1>7. Head(s) \notin ToSet(Tail(s))
    <2> SUFFICES ASSUME NEW i \in 1..(Len(s) - 1), s[1] = s[i + 1] PROVE FALSE
      BY <1>1, <1>2, <1>3 DEF ToSet
    <2>1. 1 \in 1..Len(s) /\ i + 1 \in 1..Len(s) /\ 1 # i + 1
      BY <1>2
    <2>. QED
      BY <1>4, <2>1
  <1>8. ToSet(s) \subseteq Ids
    BY DEF ToSet
  <1>. QED
    BY <1>1, <1>5, <1>6, <1>7, <1>8

\* The rows in the editor, as the sequence its batch works through.
LEMMA SetAsSequence ==
  ASSUME NEW S \in SUBSET Ids
  PROVE  SetToSeq(S) \in Seq(Ids) /\ IsInjective(SetToSeq(S))
  <1>1. IsFiniteSet(S)
    BY ConsoleAssumption, FS_Subset
  <1>2. Cardinality(S) \in Nat /\ ExistsBijection(1..Cardinality(S), S)
    BY <1>1, FS_CardinalityType
  <1>3. \E f \in [1..Cardinality(S) -> S] : IsInjective(f)
    BY <1>2 DEF ExistsBijection, Bijection, Injection
  <1>4. SetToSeq(S) \in [1..Cardinality(S) -> S] /\ IsInjective(SetToSeq(S))
    BY <1>3, Zenon DEF SetToSeq
  <1>5. SetToSeq(S) \in [1..Cardinality(S) -> Ids]
    BY <1>4
  <1>. QED
    BY <1>2, <1>4, <1>5, SeqDef

\* A sequence without repetitions is no longer than there are rows.
LEMMA OnceIsShort ==
  ASSUME NEW s \in Seq(Ids), IsInjective(s)
  PROVE  s \in BoundedSeq(Ids, Cardinality(Ids))
  <1>1. Len(s) \in Nat /\ s \in [1..Len(s) -> Ids] /\ IsFiniteSet(Ids) /\ Cardinality(Ids) \in Nat
    BY LenProperties, ConsoleAssumption, FS_CardinalityType
  <1>2. s \in Injection(1..Len(s), Ids)
    BY <1>1 DEF Injection
  <1>3. Cardinality(1..Len(s)) <= Cardinality(Ids)
    BY <1>1, <1>2, FS_Injection
  <1>4. Cardinality(1..Len(s)) = Len(s)
    <2>1. 1 \in Int /\ Len(s) \in Int
      BY <1>1
    <2>2. \/ 1 > Len(s) /\ Cardinality(1..Len(s)) = 0
          \/ ~(1 > Len(s)) /\ Cardinality(1..Len(s)) = Len(s) - 1 + 1
      BY <2>1, FS_Interval, Zenon
    <2>. QED
      BY <1>1, <2>2
  <1>5. Len(s) \in 0..Cardinality(Ids)
    BY <1>1, <1>3, <1>4
  <1>. QED
    BY <1>1, <1>5 DEF BoundedSeq, SeqOf

LEMMA BatchFacts ==
  ASSUME BatchInv
  PROVE  /\ RowsInv /\ page \in BatchPageNames /\ page # "simple-runs" /\ page \in Unguarded
         /\ PageValues = Contents \cup {Blank} /\ ui \in BatchForm /\ Batches = ui.batches
         /\ page # "daily" => page \notin Listless
         /\ \A kind : Fit(kind)
         /\ \A d \in Drafts : d[1] \in Ids /\ d[2] \in Contents
         /\ Listed \subseteq Ids /\ Shown \in [Ids -> PageValues]
         /\ sent \in Nat /\ \A i \in Ids : latest[i].n \in Nat
         /\ \A q, s \in requests : q.n = s.n => q = s
         /\ \A q \in requests : q.n \in 1..sent /\ q.id \in Ids
  <1>1. /\ RowsInv /\ page \in BatchPageNames /\ page # "simple-runs" /\ page \in Unguarded
        /\ page \notin {"approvals", "approval-queue"} /\ ui \in BatchForm /\ Batches = ui.batches
        /\ page # "daily" => page \notin Listless
    BY DEF BatchInv, BatchPageNames, AutomationNames, Unguarded, Listless, Batches
  <1>2. PageValues = Contents \cup {Blank} /\ Listed \subseteq Ids /\ Shown \in [Ids -> PageValues]
    BY <1>1, ShownFacts
  <1>3. /\ sent \in Nat /\ \A i \in Ids : latest[i].n \in Nat
        /\ \A q, s \in requests : q.n = s.n => q = s
        /\ \A q \in requests : q.n \in 1..sent /\ q.id \in Ids
    BY <1>1, PageFacts DEF RowsInv, PageTypes, Numbered, RequestsOf
  <1>4. \A kind : Fit(kind)
    BY <1>1 DEF Fit
  <1>5. \A d \in Drafts : d[1] \in Ids /\ d[2] \in Contents
    BY ConsoleAssumption
  <1>. QED
    BY <1>1, <1>2, <1>3, <1>4, <1>5

LEMMA LatestGrows ==
  ASSUME RowsInv, NEW q \in requests, NEW outcome \in Outcomes, Serve(q, outcome)
  PROVE  \A i \in Ids : latest'[i].n >= latest[i].n
  <1>1. PICK done, effect : latest' = [i \in Ids |-> IF i \in done /\ q.n > latest[i].n
                                             THEN [n |-> q.n, content |-> effect] ELSE latest[i]]
    BY DEF Serve, Work
  <1>2. q.n \in Nat /\ \A i \in Ids : latest[i].n \in Nat
    BY DEF RowsInv, PageTypes, RequestsOf
  <1>. QED
    BY <1>1, <1>2

\* A step that leaves the batches alone, and their requests where they are.
LEMMA BatchKept ==
  ASSUME BatchInv, RowsInv', page' = page, ui' \in BatchForm, ui'.batches = ui.batches, ui'.told = ui.told,
         sent' \in {sent, sent + 1}, \A i \in Ids : latest'[i].n >= latest[i].n,
         \A b \in ui.batches, q \in requests : q.n = b.at /\ q.kind = "save" =>
            \E r \in requests' : r.n = q.n /\ r.kind = "save" /\ r.id = q.id
  PROVE  BatchInv'
  <1>1. \A i \in Ids : latest[i].n \in Nat /\ latest'[i].n \in Nat
    BY BatchFacts DEF RowsInv, PageTypes
  <1>2. ASSUME NEW rs \in SUBSET Ids, NEW n \in Nat, Since(rs, n) PROVE Since(rs, n)'
    <2>1. \A i \in rs : latest[i].n >= n /\ latest'[i].n >= latest[i].n /\ latest[i].n \in Nat /\ latest'[i].n \in Nat
      BY <1>1, <1>2 DEF Since
    <2>. QED
      BY <2>1 DEF Since
  <1>3. sent \in Nat /\ \A n \in 1..sent : n \in 1..sent'
    BY BatchFacts
  <1>4. ASSUME NEW b \in ui.batches PROVE Running(b)'
    <2>1. b \in BatchRecords /\ Running(b)
      BY DEF BatchInv, BatchForm
    <2>2. b.done \in SUBSET Ids /\ b.first \in Nat
      BY <2>1 DEF BatchRecords
    <2>3. b.first \in 1..b.at /\ b.at \in 1..sent' /\ Since(b.done, b.first)'
      BY <1>2, <1>3, <2>1, <2>2 DEF Running
    <2>4. PICK q \in requests : q.n = b.at /\ q.kind = "save" /\ Split(b, q.id)
      BY <2>1 DEF Running
    <2>5. PICK r \in requests' : r.n = q.n /\ r.kind = "save" /\ r.id = q.id
      BY <2>4
    <2>6. r.n = b.at /\ r.kind = "save" /\ Split(b, r.id)
      BY <2>4, <2>5
    <2>. QED
      BY <2>3, <2>6 DEF Running, Split
  <1>5. ASSUME NEW t \in ui.told PROVE Accounted(t)'
    <2>1. t \in ToldRecords /\ Accounted(t)
      BY DEF BatchInv, BatchForm
    <2>2. t.done \in SUBSET Ids /\ t.first \in Nat
      BY <2>1 DEF ToldRecords
    <2>. QED
      BY <1>2, <1>3, <2>1, <2>2 DEF Accounted
  <1>. QED
    BY <1>4, <1>5, BatchFacts DEF BatchInv, BatchForm, BatchRecords, ToldRecords

\* ... for the parts of a step.
LEMMA SameBatches ==
  ASSUME BatchInv, page' = page, ui'.batches = ui.batches
  PROVE  BatchRows' = BatchRows /\ BatchRows \subseteq BatchRows'
  BY DEF BatchRows, Batches

LEMMA BatchQuiet ==
  ASSUME BatchInv, UNCHANGED Local, ui' \in BatchForm, ui'.batches = ui.batches, ui'.told = ui.told
  PROVE  BatchInv'
  <1>1. page' = page /\ requests' = requests /\ sent' = sent /\ latest' = latest
    BY DEF Local
  <1>2. RowsInv'
    BY <1>1, BatchFacts, SameBatches, QuietRows
  <1>3. \A i \in Ids : latest'[i].n >= latest[i].n
    BY <1>1, BatchFacts
  <1>4. \A b \in ui.batches, q \in requests : q.n = b.at /\ q.kind = "save" =>
          \E r \in requests' : r.n = q.n /\ r.kind = "save" /\ r.id = q.id
    BY <1>1
  <1>. QED
    BY <1>1, <1>2, <1>3, <1>4, BatchKept

LEMMA BatchSent ==
  ASSUME BatchInv, NEW kind \in Kinds, NEW id \in Ids, NEW content \in Contents \cup {Blank},
         Request(kind, id, content), UNCHANGED Click, UNCHANGED ui
  PROVE  BatchInv'
  <1>1. page' = page /\ requests \subseteq requests' /\ sent' = sent + 1 /\ latest' = latest
    BY DEF Click, Request
  <1>2. RowsInv'
    BY <1>1, BatchFacts, SameBatches, SentRows
  <1>3. \A i \in Ids : latest'[i].n >= latest[i].n
    BY <1>1, BatchFacts
  <1>4. \A b \in ui.batches, q \in requests : q.n = b.at /\ q.kind = "save" =>
          \E r \in requests' : r.n = q.n /\ r.kind = "save" /\ r.id = q.id
    BY <1>1
  <1>. QED
    BY <1>1, <1>2, <1>3, <1>4, BatchKept, BatchFacts

LEMMA BatchPolled ==
  ASSUME BatchInv, NEW reader, NEW o \in ReadOutcomes, Poll(reader, o), page # "daily"
  PROVE  BatchInv'
  <1>1. page' = page /\ requests' = requests /\ sent' = sent /\ latest' = latest /\ ui' = ui
    BY DEF Poll
  <1>2. RowsInv'
    BY BatchFacts, PolledRows
  <1>3. \A i \in Ids : latest'[i].n >= latest[i].n
    BY <1>1, BatchFacts
  <1>4. \A b \in ui.batches, q \in requests : q.n = b.at /\ q.kind = "save" =>
          \E r \in requests' : r.n = q.n /\ r.kind = "save" /\ r.id = q.id
    BY <1>1
  <1>. QED
    BY <1>1, <1>2, <1>3, <1>4, BatchKept, BatchFacts

\* The daily jobs have no list, so nothing lands there.
LEMMA BatchLanded ==
  ASSUME BatchInv, BatchLand
  PROVE  BatchInv'
  <1>1. page' = page /\ requests' = requests /\ sent' = sent /\ latest' = latest /\ ui' = ui /\ Land(ui) /\ list.flight # NoRead
    BY DEF BatchLand, Land
  <1>2. page \notin Listless
    BY <1>1, BatchFacts DEF RowsInv, NoList
  <1>3. RowsInv'
    BY <1>1, <1>2, BatchFacts, SameBatches, LandedRows
  <1>4. \A i \in Ids : latest'[i].n >= latest[i].n
    BY <1>1, BatchFacts
  <1>5. \A b \in ui.batches, q \in requests : q.n = b.at /\ q.kind = "save" =>
          \E r \in requests' : r.n = q.n /\ r.kind = "save" /\ r.id = q.id
    BY <1>1
  <1>. QED
    BY <1>1, <1>3, <1>4, <1>5, BatchKept, BatchFacts

LEMMA BatchServed ==
  ASSUME BatchInv, NEW q \in requests, NEW o \in Outcomes, Serve(q, o)
  PROVE  BatchInv'
  <1>1. page' = page /\ sent' = sent /\ ui' = ui
    BY DEF Serve, Work
  <1>2. RowsInv'
    BY BatchFacts, ServedRows
  <1>3. \A i \in Ids : latest'[i].n >= latest[i].n
    BY BatchFacts, LatestGrows
  <1>4. PICK t : t = [q EXCEPT !.outcome = o] /\ requests' = (requests \ {q}) \cup {t}
    BY DEF Serve, Work
  <1>5. t.id = q.id /\ t.kind = q.kind /\ t.n = q.n
    BY <1>4, BatchFacts DEF RowsInv, PageTypes, RequestsOf
  <1>6. \A b \in ui.batches, s \in requests : s.n = b.at /\ s.kind = "save" =>
          \E r \in requests' : r.n = s.n /\ r.kind = "save" /\ r.id = s.id
    BY <1>4, <1>5
  <1>. QED
    BY <1>1, <1>2, <1>3, <1>6, BatchKept, BatchFacts

\* A request of no batch is answered.
LEMMA OtherAnswered ==
  ASSUME BatchInv, page # "daily", NEW q \in requests, Over(q), NEW call, NEW reader, NEW o \in ReadOutcomes,
         IF Confirms(call, q.outcome) THEN Invalidate(reader, o, q) ELSE UNCHANGED <<list, unseen>>,
         UNCHANGED ui, q.kind # "save" \/ \A b \in ui.batches : b.at # q.n
  PROVE  BatchInv'
  <1>1. page' = page /\ requests' = requests \ {q} /\ sent' = sent /\ latest' = latest
    BY DEF Over
  <1>2. RowsInv'
    BY <1>1, BatchFacts, SameBatches, MaybeReadAgainRows
  <1>3. \A i \in Ids : latest'[i].n >= latest[i].n
    BY <1>1, BatchFacts
  <1>4. \A b \in ui.batches, s \in requests : s.n = b.at /\ s.kind = "save" =>
          \E r \in requests' : r.n = s.n /\ r.kind = "save" /\ r.id = s.id
    BY <1>1
  <1>. QED
    BY <1>1, <1>2, <1>3, <1>4, BatchKept, BatchFacts

\* One request of a batch is over, the next one is sent.
LEMMA NextRows ==
  ASSUME RowsInv, NEW q \in requests, NEW id \in Ids, NEW content \in PageValues, NEW here \in BOOLEAN, page \in Unguarded,
         sent < Limit, sent' = sent + 1,
         requests' = (requests \ {q}) \cup {[NewRequest("save", id, content) EXCEPT !.here = here]},
         crossed' = (IF MayCross("save", id) THEN crossed \cup {id} ELSE crossed),
         UNCHANGED <<page, rows, list, opened, latest, unseen>>, BatchRows \subseteq BatchRows', q.id \in BatchRows'
  PROVE  RowsInv'
  <1>1. UNCHANGED <<page, rows, list, opened, latest, unseen>>
    OBVIOUS
  <1>2. sent \in Nat /\ Limit \in Nat /\ Limit' = Limit /\ crossed \subseteq crossed'
    BY PageFacts DEF RowsInv, PageTypes, Numbered, Limit
  <1>3. PICK r : r = [NewRequest("save", id, content) EXCEPT !.here = here] /\ requests' = (requests \ {q}) \cup {r}
    OBVIOUS
  <1>4. r \in RequestsOf(PageValues) /\ r.n = sent + 1 /\ r.kind = "save" /\ r.id = id /\ r.outcome = "sent"
    BY <1>2, <1>3 DEF NewRequest, RequestsOf, Kinds
  <1>5. \A s \in requests : s \in RequestsOf(PageValues) /\ s.n \in 1..sent /\ s.n # r.n /\ s.n \in 1..(sent + 1)
    BY <1>2, <1>4 DEF RowsInv, PageTypes, Numbered
  <1>6. PageTypes'
    <2>1. \A i \in Ids : latest[i].n \in Nat /\ latest[i].n <= sent + 1
      BY <1>2 DEF RowsInv, PageTypes
    <2>2. Numbered'
      <3>0. r.n \in 1..(sent + 1)
        BY <1>2, <1>4
      <3>1. \A s \in requests' : s.n \in 1..(sent + 1)
        BY <1>3, <1>5, <3>0, Zenon
      <3>2. ASSUME NEW s \in requests', NEW t \in requests', s.n = t.n PROVE s = t
        BY <1>3, <1>5, <3>2 DEF RowsInv, PageTypes, Numbered
      <3>. QED
        BY <1>2, <3>1, <3>2 DEF Numbered
    <2>3. PageValues' = PageValues /\ Readings' = Readings
      BY <1>1 DEF PageValues, Readings
    <2>. QED
      BY <1>1, <1>2, <1>3, <1>4, <2>1, <2>2, <2>3 DEF RowsInv, PageTypes
  <1>7. SendsAgree'
    <2>1. ASSUME NEW s \in requests, ToWrite(s), s.id = id, id \notin crossed' PROVE FALSE
      BY <2>1 DEF MayCross, ToWrite
    <2>2. r.n > latest[id].n
      BY <1>2, <1>4 DEF RowsInv, PageTypes
    <2> SUFFICES ASSUME NEW p \in requests', ToWrite(p), p.id \notin crossed'
                 PROVE  /\ p.n > latest[p.id].n \/ Effect(p) = latest[p.id].content
                        /\ \A s \in requests' : ToWrite(s) /\ s.id = p.id => Effect(s) = Effect(p)
      BY <1>1 DEF SendsAgree, ToWrite, Writes, Effect
    <2>4. CASE p = r
      BY <1>3, <1>4, <2>1, <2>2, <2>4
    <2>5. CASE p \in requests
      <3>1. /\ p.n > latest[p.id].n \/ Effect(p) = latest[p.id].content
            /\ \A s \in requests : ToWrite(s) /\ s.id = p.id => Effect(s) = Effect(p)
        BY <1>2, <2>5 DEF RowsInv, SendsAgree
      <3>2. r.id # p.id
        BY <1>4, <2>1, <2>5
      <3>. QED
        BY <1>3, <3>1, <3>2
    <2>. QED
      BY <1>3, <2>4, <2>5
  <1>8. LastStored' /\ NoList'
    BY <1>1, <1>2 DEF RowsInv, LastStored, NoList
  <1>9. DoneCounts'
    BY <1>1, <1>3, <1>4 DEF RowsInv, DoneCounts, Performed, Writes
  <1>10. \A i : ToBeRead(i) => ToBeRead(i)'
    BY <1>3 DEF ToBeRead, Writes
  <1>11. ReadsAgree'
    BY <1>1, <1>10 DEF RowsInv, ReadsAgree, LastReading
  <1>. QED
    BY <1>6, <1>7, <1>8, <1>9, <1>11 DEF RowsInv

\* What is counted of a request: it was done, and after the click, if it is counted as saved.
LEMMA BatchCounts ==
  ASSUME BatchInv, NEW b \in ui.batches, NEW q \in requests, q.n = b.at,
         NEW call \in {"upsertAgentWorkflowAutomation", "upsertIntegrationAccount"},
         NEW c, c = Counted(b, q, Confirms(call, q.outcome))
  PROVE  /\ b \in BatchRecords /\ c \in BatchRecords /\ c.first = b.first /\ c.items = b.items /\ c.here = b.here /\ c.what = b.what
         /\ c.first \in 1..b.at /\ b.at \in 1..sent /\ Since(c.done, c.first) /\ c.todo = b.todo
         /\ c.done \cup c.failed = b.done \cup b.failed \cup {q.id} /\ c.done \cap c.failed = {}
         /\ q.kind = "save" /\ Split(b, q.id)
  <1>1. b \in BatchRecords /\ Running(b) /\ sent \in Nat /\ q.id \in Ids /\ \A i \in Ids : latest[i].n \in Nat
    BY BatchFacts DEF BatchInv, BatchForm
  <1>2. q.kind = "save" /\ Split(b, q.id) /\ b.first \in 1..b.at /\ b.at \in 1..sent /\ Since(b.done, b.first)
    <2>1. PICK s \in requests : s.n = b.at /\ s.kind = "save" /\ Split(b, s.id)
      BY <1>1 DEF Running
    <2>2. s = q
      BY <2>1, BatchFacts
    <2>. QED
      BY <1>1, <2>1, <2>2 DEF Running
  <1>3. PICK good : good = Confirms(call, q.outcome)
    OBVIOUS
  <1>4. /\ c = [b EXCEPT !.done = IF good THEN @ \cup {q.id} ELSE @, !.failed = IF good THEN @ ELSE @ \cup {q.id}]
        /\ c \in BatchRecords /\ c.first = b.first /\ c.items = b.items /\ c.here = b.here /\ c.what = b.what /\ c.todo = b.todo
        /\ c.done = (IF good THEN b.done \cup {q.id} ELSE b.done)
        /\ c.failed = (IF good THEN b.failed ELSE b.failed \cup {q.id})
    BY <1>1, <1>3 DEF Counted, BatchRecords
  <1>5. c.done \cup c.failed = b.done \cup b.failed \cup {q.id} /\ c.done \cap c.failed = {}
    BY <1>2, <1>4 DEF Split
  <1>6. ASSUME good PROVE latest[q.id].n >= b.first
    <2>1. q.outcome = "done"
      BY <1>3, <1>6, OnlyDoneConfirms
    <2>2. Performed(q.outcome) /\ Writes(q)
      BY <1>2, <2>1 DEF Performed, Writes
    <2>3. q.n <= latest[q.id].n
      BY <2>2 DEF BatchInv, RowsInv, DoneCounts
    <2>. QED
      BY <1>1, <1>2, <2>3 DEF BatchRecords
  <1>7. Since(c.done, c.first)
    BY <1>2, <1>4, <1>6 DEF Since
  <1>. QED
    BY <1>1, <1>2, <1>4, <1>5, <1>7

\* A batch that was running, in the state of another request of its page.
LEMMA RunsOn ==
  ASSUME BatchInv, NEW b \in ui.batches, sent' \in {sent, sent + 1}, latest' = latest,
         \A q \in requests : q.n = b.at => q \in requests'
  PROVE  Running(b)' /\ b.at \in 1..sent
  <1>1. Running(b) /\ sent \in Nat /\ b \in BatchRecords
    BY BatchFacts DEF BatchInv, BatchForm
  <1>2. PICK q \in requests : q.n = b.at /\ q.kind = "save" /\ Split(b, q.id)
    BY <1>1 DEF Running
  <1>3. q \in requests' /\ Split(b, q.id)'
    BY <1>2 DEF Split
  <1>4. b.first \in 1..b.at /\ b.at \in 1..sent /\ b.at \in 1..sent' /\ Since(b.done, b.first)
    BY <1>1 DEF Running, BatchRecords
  <1>5. Since(b.done, b.first)'
    BY <1>4 DEF Since
  <1>. QED
    BY <1>2, <1>3, <1>4, <1>5 DEF Running

LEMMA ToldOn ==
  ASSUME BatchInv, NEW t \in ui.told, sent' \in {sent, sent + 1}, latest' = latest
  PROVE  Accounted(t)'
  <1>1. Accounted(t) /\ sent \in Nat
    BY BatchFacts DEF BatchInv
  <1>2. t.first \in 1..sent'
    BY <1>1 DEF Accounted
  <1>. QED
    BY <1>1, <1>2 DEF Accounted, Since

LEMMA StartBatchStep ==
  ASSUME BatchInv, NEW items \in Seq(Ids), IsInjective(items), NEW what \in [Ids -> Contents \cup {Blank}],
         StartBatch(items, what)
  PROVE  BatchInv'
  <1>1. /\ items # <<>> /\ UNCHANGED Click /\ UNCHANGED <<page, rows, list, opened, latest, unseen>>
        /\ Request("save", Head(items), what[Head(items)])
    BY DEF StartBatch, Click
  <1>2. /\ Head(items) \in Ids /\ Tail(items) \in Seq(Ids) /\ IsInjective(Tail(items)) /\ ToSet(items) \subseteq Ids
        /\ ToSet(items) = {Head(items)} \cup ToSet(Tail(items)) /\ Head(items) \notin ToSet(Tail(items))
    BY <1>1, SequenceOnce
  <1>3. sent' = sent + 1 /\ sent \in Nat /\ requests' = requests \cup {NewRequest("save", Head(items), what[Head(items)])}
    BY <1>1, BatchFacts DEF Request
  <1>4. PICK l : l = (page \in AutomationNames)
    OBVIOUS
  <1>5. l \in BOOLEAN
    <2>1. (page \in AutomationNames) \in BOOLEAN
      BY SMT
    <2>. QED
      BY <1>4, <2>1, Zenon
  <1>6. PICK b : b = [first |-> sent + 1, at |-> sent + 1, items |-> ToSet(items), todo |-> Tail(items), what |-> what,
                      done |-> {}, failed |-> {}, here |-> TRUE]
    OBVIOUS
  <1>7. ui' = [ui EXCEPT !.busy = l, !.batches = @ \cup {b}]
    BY <1>4, <1>6, Zenon DEF StartBatch
  <1>8. b \in BatchRecords
    <2>1. sent + 1 \in Nat
      BY <1>3
    <2>. QED
      BY <1>2, <1>6, <2>1 DEF BatchRecords
  <1>9. ui' \in BatchForm /\ ui'.batches = ui.batches \cup {b} /\ ui'.told = ui.told
    BY <1>5, <1>7, <1>8, BatchFacts DEF BatchForm
  <1>10. BatchRows \subseteq BatchRows'
    BY <1>1, <1>9, BatchFacts DEF BatchRows, Batches
  <1>11. RowsInv'
    BY <1>1, <1>2, <1>10, BatchFacts, SentRows DEF Kinds
  <1>12. Running(b)'
    <2>1. PICK r : r = NewRequest("save", Head(items), what[Head(items)])
      OBVIOUS
    <2>2. r \in requests' /\ r.n = b.at /\ r.kind = "save" /\ r.id = Head(items)
      BY <1>3, <1>6, <2>1 DEF NewRequest
    <2>3. Split(b, Head(items))'
      BY <1>2, <1>6 DEF Split
    <2>4. b.first \in 1..b.at /\ b.at \in 1..sent' /\ Since(b.done, b.first)'
      BY <1>3, <1>6 DEF Since
    <2>. QED
      BY <2>2, <2>3, <2>4 DEF Running
  <1>13. \A c \in ui.batches : Running(c)' /\ c.at \in 1..sent
    BY <1>1, <1>3, RunsOn
  <1>14. \A c \in ui.batches : c.at # b.at
    BY <1>3, <1>6, <1>13
  <1>15. \A t \in ui.told : Accounted(t)'
    BY <1>1, <1>3, ToldOn
  <1>. QED
    BY <1>1, <1>9, <1>11, <1>12, <1>13, <1>14, <1>15 DEF BatchInv

LEMMA BatchNextStep ==
  ASSUME BatchInv, NEW b \in ui.batches, NEW q \in requests,
         NEW call \in {"upsertAgentWorkflowAutomation", "upsertIntegrationAccount"}, BatchNext(b, q, call)
  PROVE  BatchInv'
  <1>1. PICK good : good = Confirms(call, q.outcome)
    OBVIOUS
  <1>2. PICK c : c = Counted(b, q, good)
    OBVIOUS
  <1>3. /\ q.n = b.at /\ b.todo # <<>> /\ sent < Limit /\ sent' = sent + 1
        /\ requests' = (requests \ {q}) \cup {[NewRequest("save", Head(b.todo), b.what[Head(b.todo)]) EXCEPT !.here = b.here]}
        /\ ui' = [ui EXCEPT !.batches = (@ \ {b}) \cup {[c EXCEPT !.at = sent + 1, !.todo = Tail(b.todo)]}]
        /\ UNCHANGED <<page, rows, list, opened, latest, unseen>>
    BY <1>1, <1>2 DEF BatchNext, Remaining
  <1>4. /\ b \in BatchRecords /\ c \in BatchRecords /\ c.first = b.first /\ c.items = b.items /\ c.here = b.here /\ c.what = b.what
        /\ c.first \in 1..b.at /\ b.at \in 1..sent /\ Since(c.done, c.first) /\ c.todo = b.todo
        /\ c.done \cup c.failed = b.done \cup b.failed \cup {q.id} /\ c.done \cap c.failed = {}
        /\ q.kind = "save" /\ Split(b, q.id) /\ sent \in Nat
    <2>1. c = Counted(b, q, Confirms(call, q.outcome))
      BY <1>1, <1>2
    <2>2. sent \in Nat /\ q.n = b.at
      BY <1>3, BatchFacts
    <2>. QED
      BY <2>1, <2>2, BatchCounts
  <1>5. b.todo \in Seq(Ids) /\ IsInjective(b.todo) /\ b.what \in [Ids -> Contents \cup {Blank}] /\ b.here \in BOOLEAN
    BY <1>4 DEF BatchRecords, Split
  <1>6. /\ Head(b.todo) \in Ids /\ Tail(b.todo) \in Seq(Ids) /\ IsInjective(Tail(b.todo))
        /\ ToSet(b.todo) = {Head(b.todo)} \cup ToSet(Tail(b.todo)) /\ Head(b.todo) \notin ToSet(Tail(b.todo))
    BY <1>3, <1>5, SequenceOnce
  <1>7. PICK e : e = [c EXCEPT !.at = sent + 1, !.todo = Tail(b.todo)]
    OBVIOUS
  <1>8. /\ e \in BatchRecords /\ e.first = b.first /\ e.at = sent + 1 /\ e.todo = Tail(b.todo) /\ e.items = b.items
        /\ e.done = c.done /\ e.failed = c.failed
    <2>1. sent + 1 \in Nat
      BY <1>4
    <2>. QED
      BY <1>4, <1>6, <1>7, <2>1 DEF BatchRecords
  <1>9. ui' \in BatchForm /\ ui'.batches = (ui.batches \ {b}) \cup {e} /\ ui'.told = ui.told
    BY <1>3, <1>7, <1>8, BatchFacts DEF BatchForm
  <1>10. BatchRows = BatchRows' /\ q.id \in BatchRows'
    <2>1. BatchRows = UNION {a.items : a \in ui.batches} /\ BatchRows' = UNION {a.items : a \in (ui.batches \ {b}) \cup {e}}
      BY <1>3, <1>9, BatchFacts DEF BatchRows, Batches
    <2>2. q.id \in b.items
      BY <1>4 DEF Split
    <2>. QED
      BY <1>8, <2>1, <2>2
  <1>11. crossed' = IF MayCross("save", Head(b.todo)) THEN crossed \cup {Head(b.todo)} ELSE crossed
    BY DEF BatchNext, Remaining, NewRequest
  <1>12. b.what[Head(b.todo)] \in PageValues
    BY <1>5, <1>6, BatchFacts
  <1>13. RowsInv'
    <2>1. BatchRows \subseteq BatchRows' /\ UNCHANGED <<page, rows, list, opened, latest, unseen>>
      BY <1>3, <1>10
    <2>. QED
      BY <1>3, <1>5, <1>6, <1>10, <1>11, <1>12, <2>1, BatchFacts, NextRows
  <1>14. Running(e)'
    <2>1. PICK r : r = [NewRequest("save", Head(b.todo), b.what[Head(b.todo)]) EXCEPT !.here = b.here]
      OBVIOUS
    <2>2. r \in requests' /\ r.n = e.at /\ r.kind = "save" /\ r.id = Head(b.todo)
      BY <1>3, <1>8, <2>1 DEF NewRequest
    <2>3. Split(e, Head(b.todo))'
      BY <1>4, <1>6, <1>8 DEF Split
    <2>4. e.first \in 1..e.at /\ e.at \in 1..sent'
      BY <1>3, <1>4, <1>8
    <2>5. Since(e.done, e.first)'
      BY <1>3, <1>4, <1>8 DEF Since
    <2>. QED
      BY <2>2, <2>3, <2>4, <2>5 DEF Running
  <1>15. ASSUME NEW d \in ui.batches, d # b PROVE Running(d)' /\ d.at \in 1..sent
    <2>1. d.at # q.n
      BY <1>3, <1>15 DEF BatchInv
    <2>2. \A p \in requests : p.n = d.at => p \in requests'
      BY <1>3, <2>1
    <2>. QED
      BY <1>3, <2>2, RunsOn
  <1>16. \A d \in ui.batches : d # b => d.at # e.at
    BY <1>4, <1>8, <1>15
  <1>17. \A t \in ui.told : Accounted(t)'
    BY <1>3, ToldOn
  <1>. QED
    BY <1>3, <1>9, <1>13, <1>14, <1>15, <1>16, <1>17 DEF BatchInv

\* The last request of a batch is over: the batch tells what it counted.
LEMMA EndedUi ==
  ASSUME BatchInv, NEW b \in ui.batches, NEW q \in requests,
         NEW call \in {"upsertAgentWorkflowAutomation", "upsertIntegrationAccount"}, BatchEnd(b, q, call),
         NEW t, t = [first |-> b.first, items |-> b.items, done |-> Counted(b, q, Confirms(call, q.outcome)).done,
                     failed |-> Counted(b, q, Confirms(call, q.outcome)).failed]
  PROVE  ui' \in BatchForm /\ ui'.batches = ui.batches \ {b} /\ ui'.told = ui.told \cup {t}
  <1>1. PICK c : c = Counted(b, q, Confirms(call, q.outcome))
    OBVIOUS
  <1>2. t = [first |-> b.first, items |-> b.items, done |-> c.done, failed |-> c.failed]
    BY <1>1
  <1>3. PICK over : over = [ui EXCEPT !.batches = @ \ {b}, !.told = @ \cup {t}]
    OBVIOUS
  <1>4. /\ q.n = b.at
        /\ ui' = IF b.here
                   THEN [over EXCEPT !.busy = FALSE, !.editor = [i \in Ids |-> [@[i] EXCEPT !.token = FALSE]]]
                   ELSE over
    BY <1>1, <1>2, <1>3 DEF BatchEnd
  <1>5. b \in BatchRecords /\ c \in BatchRecords
    BY <1>1, <1>4, BatchCounts
  <1>6. t \in ToldRecords
    BY <1>2, <1>5 DEF BatchRecords, ToldRecords
  <1>7. over \in BatchForm /\ over.batches = ui.batches \ {b} /\ over.told = ui.told \cup {t}
    BY <1>3, <1>6, BatchFacts DEF BatchForm
  <1>8. CASE ~b.here
    BY <1>4, <1>7, <1>8
  <1>9. CASE b.here
    <2>1. PICK editor : editor = [i \in Ids |-> [over.editor[i] EXCEPT !.token = FALSE]]
      OBVIOUS
    <2>2. editor \in [Ids -> [content : Contents \cup {Blank}, token : BOOLEAN]]
      BY <1>7, <2>1 DEF BatchForm
    <2>3. ui' = [over EXCEPT !.busy = FALSE, !.editor = editor]
      BY <1>4, <1>9, <2>1
    <2>. QED
      BY <1>7, <2>2, <2>3 DEF BatchForm
  <1>. QED
    BY <1>8, <1>9

LEMMA BatchEndKeeps ==
  ASSUME BatchInv, NEW b \in ui.batches, NEW q \in requests,
         NEW call \in {"upsertAgentWorkflowAutomation", "upsertIntegrationAccount"}, BatchEnd(b, q, call),
         RowsInv'
  PROVE  BatchInv'
  <1>1. PICK c : c = Counted(b, q, Confirms(call, q.outcome))
    OBVIOUS
  <1>2. PICK t : t = [first |-> b.first, items |-> b.items, done |-> c.done, failed |-> c.failed]
    OBVIOUS
  <1>4. q.n = b.at /\ b.todo = <<>> /\ Over(q)
    BY DEF BatchEnd, Remaining
  <1>5. UNCHANGED <<page, rows, sent, opened, latest, crossed>> /\ requests' = requests \ {q}
    BY <1>4 DEF Over
  <1>6. /\ b \in BatchRecords /\ c \in BatchRecords /\ c.first = b.first /\ c.items = b.items
        /\ c.first \in 1..b.at /\ b.at \in 1..sent /\ Since(c.done, c.first)
        /\ c.done \cup c.failed = b.done \cup b.failed \cup {q.id} /\ c.done \cap c.failed = {}
        /\ Split(b, q.id) /\ sent \in Nat
    <2>1. sent \in Nat /\ q.n = b.at
      BY <1>4, BatchFacts
    <2>. QED
      BY <1>1, <2>1, BatchCounts
  <1>7. t \in ToldRecords /\ Accounted(t)'
    <2>1. t \in ToldRecords
      BY <1>2, <1>6 DEF BatchRecords, ToldRecords
    <2>2. ToSet(b.todo) = {}
      BY <1>4 DEF ToSet
    <2>3. t.done \cup t.failed = t.items /\ t.done \cap t.failed = {}
      BY <1>2, <1>6, <2>2 DEF Split
    <2>4. t.first \in 1..sent'
      <3>1. b.first \in Nat /\ b.at \in Nat
        BY <1>6 DEF BatchRecords
      <3>. QED
        BY <1>2, <1>5, <1>6, <3>1
    <2>5. Since(t.done, t.first)'
      BY <1>2, <1>5, <1>6 DEF Since
    <2>. QED
      BY <2>1, <2>3, <2>4, <2>5 DEF Accounted
  <1>9. ui' \in BatchForm /\ ui'.batches = ui.batches \ {b} /\ ui'.told = ui.told \cup {t}
    BY <1>1, <1>2, EndedUi
  <1>10. ASSUME NEW d \in ui'.batches PROVE Running(d)'
    <2>1. d \in ui.batches /\ d # b
      BY <1>9
    <2>2. d.at # q.n
      BY <1>4, <2>1 DEF BatchInv
    <2>3. \A p \in requests : p.n = d.at => p \in requests'
      BY <1>5, <2>2
    <2>. QED
      BY <1>5, <2>1, <2>3, RunsOn
  <1>11. ASSUME NEW u \in ui'.told PROVE Accounted(u)'
    <2>1. CASE u \in ui.told
      BY <1>5, <2>1, ToldOn
    <2>2. CASE u = t
      BY <1>7, <2>2
    <2>. QED
      BY <1>9, <2>1, <2>2
  <1>12. page' \in BatchPageNames /\ \A d, e \in ui'.batches : d.at = e.at => d = e
    BY <1>5, <1>9 DEF BatchInv
  <1>. QED
    BY <1>9, <1>10, <1>11, <1>12 DEF BatchInv

\* ... and its rows are read again, where there is a list of them.
LEMMA BatchEndStep ==
  ASSUME BatchInv, NEW b \in ui.batches, NEW q \in requests,
         NEW call \in {"upsertAgentWorkflowAutomation", "upsertIntegrationAccount"}, BatchEnd(b, q, call),
         NEW reader, NEW o \in ReadOutcomes, InvalidateAfter(reader, o, b.items), page # "daily"
  PROVE  BatchInv'
  <1>1. Over(q) /\ q.n = b.at /\ page' = page
    BY DEF BatchEnd, Over
  <1>2. PICK c : c = Counted(b, q, Confirms(call, q.outcome))
    OBVIOUS
  <1>3. b \in BatchRecords /\ Split(b, q.id)
    BY <1>1, <1>2, BatchCounts
  <1>4. b.items \in SUBSET Ids /\ q.id \in b.items
    BY <1>3 DEF BatchRecords, Split
  <1>5. ui.batches \ {b} \subseteq ui'.batches
    <2>1. PICK t : t = [first |-> b.first, items |-> b.items, done |-> Counted(b, q, Confirms(call, q.outcome)).done,
                        failed |-> Counted(b, q, Confirms(call, q.outcome)).failed]
      OBVIOUS
    <2>. QED
      BY <2>1, EndedUi
  <1>6. BatchRows \subseteq BatchRows' \cup b.items
    BY <1>1, <1>5, BatchFacts DEF BatchRows, Batches
  <1>7. RowsInv'
    BY <1>1, <1>4, <1>6, BatchFacts, InvalidatedRows
  <1>. QED
    BY <1>7, BatchEndKeeps

LEMMA DailyEndStep ==
  ASSUME BatchInv, NEW b \in ui.batches, NEW q \in requests, DailyEnd(b, q)
  PROVE  BatchInv'
  <1>1. page = "daily" /\ BatchEnd(b, q, "upsertAgentWorkflowAutomation") /\ UNCHANGED <<list, unseen>> /\ Over(q)
    BY DEF DailyEnd, BatchEnd, OnPage
  <1>2. RowsInv'
    BY <1>1, BatchFacts, DroppedRows DEF Listless
  <1>. QED
    BY <1>1, <1>2, BatchEndKeeps

\* The page is left: its loops go on.
LEMMA BatchReopenStep ==
  ASSUME BatchInv, BatchReopen
  PROVE  BatchInv'
  <1>1. PICK batches : batches = {[b EXCEPT !.here = FALSE] : b \in ui.batches}
    OBVIOUS
  <1>2. PICK empty : empty = [BatchEmpty EXCEPT !.batches = batches, !.told = ui.told]
    OBVIOUS
  <1>3. Reopen(empty) /\ ui' = empty /\ UNCHANGED <<page, rows, list, sent, latest, crossed, unseen>>
        /\ requests' = {[q EXCEPT !.here = FALSE] : q \in requests}
    BY <1>1, <1>2 DEF BatchReopen, Reopen
  <1>4. ASSUME NEW c \in batches
        PROVE  \E b \in ui.batches : /\ c \in BatchRecords /\ b \in BatchRecords /\ c.first = b.first /\ c.at = b.at
                                     /\ c.items = b.items /\ c.todo = b.todo /\ c.what = b.what
                                     /\ c.done = b.done /\ c.failed = b.failed /\ c = [b EXCEPT !.here = FALSE]
    <2>1. PICK b \in ui.batches : c = [b EXCEPT !.here = FALSE]
      BY <1>1
    <2>2. b \in BatchRecords
      BY <2>1, BatchFacts DEF BatchForm
    <2>. QED
      BY <2>1, <2>2 DEF BatchRecords
  <1>5. batches \subseteq BatchRecords
    BY <1>4
  <1>6. empty \in BatchForm /\ empty.batches = batches /\ empty.told = ui.told
    <2>1. BatchEmpty \in BatchForm
      BY DEF BatchEmpty, BatchForm, NoRow
    <2>2. ui.told \in SUBSET ToldRecords
      BY BatchFacts DEF BatchForm
    <2>. QED
      BY <1>2, <1>5, <2>1, <2>2 DEF BatchForm
  <1>7. BatchRows \subseteq BatchRows'
    <2>1. ASSUME NEW b \in ui.batches PROVE \E c \in batches : c.items = b.items
      <3>1. b \in BatchRecords /\ [b EXCEPT !.here = FALSE] \in batches
        BY <1>1, BatchFacts DEF BatchForm
      <3>. QED
        BY <3>1 DEF BatchRecords
    <2>. QED
      BY <1>3, <1>6, <2>1, BatchFacts DEF BatchRows, Batches
  <1>8. RowsInv'
    BY <1>3, <1>7, BatchFacts, ReopenedRows
  <1>9. ASSUME NEW c \in batches PROVE Running(c)'
    <2>1. PICK b \in ui.batches : /\ c \in BatchRecords /\ b \in BatchRecords /\ c.first = b.first /\ c.at = b.at
                                  /\ c.items = b.items /\ c.todo = b.todo /\ c.done = b.done /\ c.failed = b.failed
      BY <1>4
    <2>2. Running(b)
      BY DEF BatchInv
    <2>3. PICK q \in requests : q.n = b.at /\ q.kind = "save" /\ Split(b, q.id)
      BY <2>2 DEF Running
    <2>4. q \in RequestsOf(PageValues)
      BY BatchFacts DEF RowsInv, PageTypes
    <2>5. PICK r : r = [q EXCEPT !.here = FALSE]
      OBVIOUS
    <2>6. r \in requests' /\ r.n = q.n /\ r.kind = q.kind /\ r.id = q.id
      BY <1>3, <2>4, <2>5 DEF RequestsOf
    <2>7. Split(c, r.id)'
      BY <2>1, <2>3, <2>6 DEF Split
    <2>8. c.first \in 1..c.at /\ c.at \in 1..sent' /\ Since(c.done, c.first)'
      BY <1>3, <2>1, <2>2 DEF Running, Since
    <2>. QED
      BY <2>1, <2>3, <2>6, <2>7, <2>8 DEF Running
  <1>10. ASSUME NEW c \in batches, NEW d \in batches, c.at = d.at PROVE c = d
    <2>1. PICK b \in ui.batches : c.at = b.at /\ c = [b EXCEPT !.here = FALSE]
      BY <1>4
    <2>2. PICK e \in ui.batches : d.at = e.at /\ d = [e EXCEPT !.here = FALSE]
      BY <1>4
    <2>3. b = e
      BY <1>10, <2>1, <2>2 DEF BatchInv
    <2>. QED
      BY <2>1, <2>2, <2>3
  <1>11. \A t \in ui.told : Accounted(t)'
    BY <1>3, ToldOn
  <1>12. page' \in BatchPageNames
    BY <1>3, BatchFacts
  <1>. QED
    BY <1>3, <1>6, <1>8, <1>9, <1>10, <1>11, <1>12 DEF BatchInv

\* The form of the automation page and the editor of the accounts.
LEMMA FormTypedStep ==
  ASSUME BatchInv, NEW id \in Ids, NEW content \in Contents, JobType(id, content) \/ JobPreset(id)
  PROVE  BatchInv'
  <1>1. TemplateContent \in Contents
    BY ConsoleAssumption DEF TemplateContent
  <1>2. PICK c \in Contents : ui' = [ui EXCEPT !.id = id, !.content = c] /\ UNCHANGED Local
    BY <1>1 DEF JobType, JobPreset
  <1>3. ui' \in BatchForm /\ ui'.batches = ui.batches /\ ui'.told = ui.told
    BY <1>2, BatchFacts DEF BatchForm
  <1>. QED
    BY <1>2, <1>3, BatchQuiet

Rows == [content : Contents \cup {Blank}, token : BOOLEAN]

LEMMA EditStep ==
  ASSUME BatchInv, NEW editor \in [Ids -> Rows], Edit(editor)
  PROVE  BatchInv'
  <1>1. ui' = [ui EXCEPT !.editor = editor] /\ UNCHANGED Local
    BY DEF Edit
  <1>2. ui' \in BatchForm /\ ui'.batches = ui.batches /\ ui'.told = ui.told
    BY <1>1, BatchFacts DEF BatchForm, Rows
  <1>. QED
    BY <1>1, <1>2, BatchQuiet

LEMMA EditorFacts ==
  ASSUME BatchInv
  PROVE  /\ ui.editor \in [Ids -> Rows] /\ NoRow \in Rows /\ InEditor \subseteq Ids /\ TemplateContent \in Contents
         /\ [NoRow EXCEPT !.content = TemplateContent] \in Rows
  <1>1. TemplateContent \in Contents
    BY ConsoleAssumption DEF TemplateContent
  <1>. QED
    BY <1>1, BatchFacts DEF BatchForm, Rows, NoRow, InEditor

LEMMA AccountEditStep ==
  ASSUME BatchInv, NEW id \in Ids, NEW content \in Contents,
         AccountType(id, content) \/ AccountRemove(id) \/ AccountAdd \/ AccountsLoad
  PROVE  BatchInv'
  <1>1. CASE AccountType(id, content)
    <2>1. PICK editor : editor = [ui.editor EXCEPT ![id] = [content |-> content, token |-> TRUE]]
      OBVIOUS
    <2>2. editor \in [Ids -> Rows]
      BY <2>1, EditorFacts DEF Rows
    <2>. QED
      BY <1>1, <2>1, <2>2, EditStep DEF AccountType
  <1>2. CASE AccountRemove(id)
    <2>1. PICK editor : editor = [ui.editor EXCEPT ![id] = NoRow]
      OBVIOUS
    <2>2. editor \in [Ids -> Rows]
      BY <2>1, EditorFacts
    <2>. QED
      BY <1>2, <2>1, <2>2, EditStep DEF AccountRemove
  <1>3. CASE AccountAdd
    <2>1. PICK new : new = CHOOSE i \in Ids \ InEditor : TRUE
      OBVIOUS
    <2>2. PICK editor : editor = [ui.editor EXCEPT ![new] = [NoRow EXCEPT !.content = TemplateContent]]
      OBVIOUS
    <2>3. editor \in [Ids -> Rows]
      BY <2>2, EditorFacts
    <2>4. Edit(editor)
      BY <1>3, <2>1, <2>2 DEF AccountAdd
    <2>. QED
      BY <2>3, <2>4, EditStep
  <1>4. CASE AccountsLoad
    <2>1. PICK editor : editor = [i \in Ids |-> [content |-> Shown[i], token |-> FALSE]]
      OBVIOUS
    <2>2. editor \in [Ids -> Rows]
      BY <2>1, BatchFacts DEF Rows
    <2>. QED
      BY <1>4, <2>1, <2>2, EditStep DEF AccountsLoad
  <1>. QED
    BY <1>1, <1>2, <1>3, <1>4

LEMMA AccountRangeStep ==
  ASSUME BatchInv, NEW range \in SUBSET Ids, AccountRange(range)
  PROVE  BatchInv'
  <1>1. PICK editor : editor = [i \in Ids |-> IF i \notin range THEN NoRow
                      ELSE IF i \in InEditor THEN ui.editor[i]
                      ELSE [content |-> IF i \in Listed THEN Shown[i] ELSE TemplateContent, token |-> FALSE]]
    OBVIOUS
  <1>2. ASSUME NEW i \in Ids PROVE editor[i] \in Rows
    <2>1. NoRow \in Rows /\ ui.editor[i] \in Rows
      BY EditorFacts
    <2>2. [content |-> IF i \in Listed THEN Shown[i] ELSE TemplateContent, token |-> FALSE] \in Rows
      BY EditorFacts, BatchFacts DEF Rows
    <2>. QED
      BY <1>1, <2>1, <2>2
  <1>3. editor \in [Ids -> Rows]
    BY <1>1, <1>2
  <1>. QED
    BY <1>1, <1>3, EditStep DEF AccountRange

\* The clicks that start a batch.
LEMMA StartsStep ==
  ASSUME BatchInv, TracksStart \/ PacksStart \/ DailyStart \/ AccountsSave
  PROVE  BatchInv'
  <1>1. CASE TracksStart \/ PacksStart \/ DailyStart
    <2>1. Templates \in Seq(Ids) /\ IsInjective(Templates)
      BY BatchAssumption
    <2>2. Ready \in [Ids -> Contents \cup {Blank}]
      BY EditorFacts DEF Ready
    <2>3. StartBatch(Templates, Ready)
      BY <1>1 DEF TracksStart, PacksStart, DailyStart
    <2>. QED
      BY <2>1, <2>2, <2>3, StartBatchStep
  <1>2. CASE AccountsSave
    <2>1. SetToSeq(InEditor) \in Seq(Ids) /\ IsInjective(SetToSeq(InEditor))
      BY EditorFacts, SetAsSequence
    <2>2. PICK what : what = [i \in Ids |-> ui.editor[i].content]
      OBVIOUS
    <2>3. what \in [Ids -> Contents \cup {Blank}]
      BY <2>2, EditorFacts DEF Rows
    <2>4. StartBatch(SetToSeq(InEditor), what)
      BY <1>2, <2>2 DEF AccountsSave
    <2>. QED
      BY <2>1, <2>3, <2>4, StartBatchStep
  <1>. QED
    BY <1>1, <1>2

\* The clicks that send one request.
LEMMA JobClickStep ==
  ASSUME BatchInv, NEW id \in Ids, NEW content \in Contents, JobSave \/ RowRun(id) \/ RowToggle(id, content)
  PROVE  BatchInv'
  <1>1. CASE JobSave
    <2>1. ui.id \in Ids /\ ui.content \in Contents \cup {Blank} /\ Request("save", ui.id, ui.content)
          /\ UNCHANGED Click /\ UNCHANGED ui
      BY <1>1, BatchFacts DEF JobSave, BatchForm
    <2>. QED
      BY <2>1, BatchSent DEF Kinds
  <1>2. CASE RowRun(id)
    BY <1>2, BatchSent DEF RowRun, Kinds
  <1>3. CASE RowToggle(id, content)
    BY <1>3, BatchSent DEF RowToggle, Kinds
  <1>. QED
    BY <1>1, <1>2, <1>3

LEMMA JobAnswerStep ==
  ASSUME BatchInv, NEW q \in requests, NEW o \in ReadOutcomes, JobSaved(q, o) \/ RowActed(q, o)
  PROVE  BatchInv'
  <1>1. CASE JobSaved(q, o)
    <2>1. /\ page # "daily" /\ Over(q) /\ UNCHANGED ui /\ \A b \in ui.batches : b.at # q.n
          /\ IF Confirms("upsertAgentWorkflowAutomation", q.outcome)
               THEN Invalidate("getAgentWorkflowAutomations", o, q) ELSE UNCHANGED <<list, unseen>>
      BY <1>1 DEF JobSaved, OnAutomation, AutomationNames
    <2>. QED
      BY <2>1, OtherAnswered
  <1>2. CASE RowActed(q, o)
    <2>1. /\ page # "daily" /\ Over(q) /\ UNCHANGED ui /\ q.kind # "save"
          /\ IF Confirms("enableJob", q.outcome)
               THEN Invalidate("getAgentWorkflowAutomations", o, q) ELSE UNCHANGED <<list, unseen>>
      BY <1>2 DEF RowActed, OnAutomation, AutomationNames
    <2>. QED
      BY <2>1, OtherAnswered
  <1>. QED
    BY <1>1, <1>2

\* The steps of the loops.
LEMMA LoopStep ==
  ASSUME BatchInv, NEW b \in ui.batches, NEW q \in requests, NEW o \in ReadOutcomes,
         \/ AutomationStep(b, q) \/ AccountsStep(b, q) \/ DailyStep(b, q)
         \/ DailyEnd(b, q) \/ AutomationEnd(b, q, o) \/ AccountsEnd(b, q, o)
  PROVE  BatchInv'
  <1>1. CASE AutomationStep(b, q) \/ DailyStep(b, q)
    <2>1. BatchNext(b, q, "upsertAgentWorkflowAutomation")
      BY <1>1 DEF AutomationStep, DailyStep
    <2>. QED
      BY <2>1, BatchNextStep
  <1>2. CASE AccountsStep(b, q)
    <2>1. BatchNext(b, q, "upsertIntegrationAccount")
      BY <1>2 DEF AccountsStep
    <2>. QED
      BY <2>1, BatchNextStep
  <1>3. CASE AutomationEnd(b, q, o)
    <2>1. page # "daily" /\ BatchEnd(b, q, "upsertAgentWorkflowAutomation")
          /\ InvalidateAfter("getAgentWorkflowAutomations", o, b.items)
      BY <1>3 DEF AutomationEnd, OnAutomation, AutomationNames
    <2>. QED
      BY <2>1, BatchEndStep
  <1>4. CASE AccountsEnd(b, q, o)
    <2>1. page # "daily" /\ BatchEnd(b, q, "upsertIntegrationAccount")
          /\ InvalidateAfter("getIntegrationAccounts", o, b.items)
      BY <1>4 DEF AccountsEnd, OnAccounts, OnPage
    <2>. QED
      BY <2>1, BatchEndStep
  <1>. QED
    BY <1>1, <1>2, <1>3, <1>4, DailyEndStep

LEMMA BatchStep ==
  ASSUME BatchInv, BatchPagesNext \/ \E q \in requests : \E o \in Outcomes : Serve(q, o)
  PROVE  BatchInv'
  <1>1. \A d \in Drafts : d[1] \in Ids /\ d[2] \in Contents
    BY BatchFacts
  <1>2. PICK c \in Contents : TRUE
    BY ConsoleAssumption
  <1>3. PICK j \in Ids : TRUE
    BY ConsoleAssumption
  <1>4. CASE BatchClicks
    <2>1. CASE \E d \in Drafts : JobType(d[1], d[2]) \/ AccountType(d[1], d[2])
      BY <1>1, <2>1, FormTypedStep, AccountEditStep
    <2>2. CASE \E i \in Ids, k \in Contents : RowToggle(i, k)
      BY <2>2, JobClickStep
    <2>3. CASE \E i \in Ids : JobPreset(i) \/ RowRun(i) \/ AccountRemove(i)
      BY <1>2, <2>3, FormTypedStep, JobClickStep, AccountEditStep
    <2>4. CASE \E range \in SUBSET Ids \ {{}} : AccountRange(range)
      BY <2>4, AccountRangeStep
    <2>5. CASE JobSave
      BY <1>2, <1>3, <2>5, JobClickStep
    <2>6. CASE TracksStart \/ PacksStart \/ DailyStart \/ AccountsSave
      BY <2>6, StartsStep
    <2>7. CASE AccountAdd \/ AccountsLoad
      BY <1>2, <1>3, <2>7, AccountEditStep
    <2>8. CASE BatchReopen
      BY <2>8, BatchReopenStep
    <2>. QED
      BY <1>4, <2>1, <2>2, <2>3, <2>4, <2>5, <2>6, <2>7, <2>8 DEF BatchClicks
  <1>5. CASE BatchAnswers
    <2>1. CASE BatchLand
      BY <2>1, BatchLanded
    <2>2. CASE \E o \in ReadOutcomes : AutomationQuery(o) \/ AccountsQuery(o)
      <3>1. PICK o \in ReadOutcomes : AutomationQuery(o) \/ AccountsQuery(o)
        BY <2>2
      <3>2. page # "daily"
        BY <3>1 DEF AutomationQuery, AccountsQuery, OnAutomation, OnAccounts, OnPage, AutomationNames
      <3>3. \E reader : Poll(reader, o)
        BY <3>1 DEF AutomationQuery, AccountsQuery
      <3>. QED
        BY <3>1, <3>2, <3>3, BatchPolled
    <2>3. CASE \E q \in requests, o \in ReadOutcomes : JobSaved(q, o) \/ RowActed(q, o)
      BY <2>3, JobAnswerStep
    <2>4. CASE \E b \in Batches, q \in requests : AutomationStep(b, q) \/ AccountsStep(b, q) \/ DailyStep(b, q) \/ DailyEnd(b, q)
      <3>1. "done" \in ReadOutcomes /\ Batches = ui.batches
        BY BatchFacts DEF ReadOutcomes
      <3>. QED
        BY <2>4, <3>1, LoopStep
    <2>5. CASE \E b \in Batches, q \in requests, o \in ReadOutcomes : AutomationEnd(b, q, o) \/ AccountsEnd(b, q, o)
      <3>1. Batches = ui.batches
        BY BatchFacts
      <3>. QED
        BY <2>5, <3>1, LoopStep
    <2>. QED
      BY <1>5, <2>1, <2>2, <2>3, <2>4, <2>5 DEF BatchAnswers
  <1>6. CASE \E q \in requests : \E o \in Outcomes : Serve(q, o)
    BY <1>6, BatchServed
  <1>. QED
    BY <1>4, <1>5, <1>6 DEF BatchPagesNext

LEMMA BatchesOnly ==
  ASSUME BatchPagesNext
  PROVE  page \in BatchPageNames
  <1>1. AutomationNames \subseteq BatchPageNames /\ {"tracks", "packs", "accounts", "daily"} \subseteq BatchPageNames
    BY DEF BatchPageNames, AutomationNames
  <1>2. CASE BatchClicks
    <2>1. CASE \E d \in Drafts : JobType(d[1], d[2]) \/ AccountType(d[1], d[2])
      BY <1>1, <2>1 DEF JobType, AccountType, OnAutomation, OnAccounts, OnPage
    <2>2. CASE \E i \in Ids, c \in Contents : RowToggle(i, c)
      BY <1>1, <2>2 DEF RowToggle, OnAutomation
    <2>3. CASE \E i \in Ids : JobPreset(i) \/ RowRun(i) \/ AccountRemove(i)
      BY <1>1, <2>3 DEF JobPreset, RowRun, AccountRemove, OnAutomation, OnAccounts, OnPage
    <2>4. CASE \E range \in SUBSET Ids \ {{}} : AccountRange(range)
      BY <1>1, <2>4 DEF AccountRange, Edit, OnAccounts, OnPage
    <2>5. CASE JobSave \/ TracksStart \/ PacksStart \/ AccountAdd \/ AccountsLoad \/ AccountsSave \/ DailyStart
      BY <1>1, <2>5 DEF JobSave, TracksStart, PacksStart, AccountAdd, AccountsLoad, AccountsSave, DailyStart,
                        OnAutomation, OnAccounts, OnPage
    <2>6. CASE BatchReopen
      BY <2>6 DEF BatchReopen
    <2>. QED
      BY <1>2, <2>1, <2>2, <2>3, <2>4, <2>5, <2>6 DEF BatchClicks
  <1>3. CASE BatchAnswers
    <2>1. CASE BatchLand
      BY <2>1 DEF BatchLand
    <2>2. CASE \E o \in ReadOutcomes : AutomationQuery(o) \/ AccountsQuery(o)
      BY <1>1, <2>2 DEF AutomationQuery, AccountsQuery, OnAutomation, OnAccounts, OnPage
    <2>3. CASE \E q \in requests, o \in ReadOutcomes : JobSaved(q, o) \/ RowActed(q, o)
      BY <1>1, <2>3 DEF JobSaved, RowActed, OnAutomation
    <2>4. CASE \E b \in Batches : TRUE
      BY <2>4 DEF Batches
    <2>. QED
      BY <1>3, <2>1, <2>2, <2>3, <2>4 DEF BatchAnswers
  <1>. QED
    BY <1>2, <1>3 DEF BatchPagesNext

\* What the invariant says of the properties.
LEMMA BatchesGood ==
  ASSUME BatchInv
  PROVE  BatchTypeOK /\ ShowsOwnWrites /\ LastWriteWins /\ BatchesAccounted
  <1>1. ui.batches \subseteq BatchRecords /\ ui.told \subseteq ToldRecords /\ ui \in BatchForm
    BY DEF BatchInv, BatchForm
  <1>2. requests = {} => BatchRows = {}
    <2>1. requests = {} => ui.batches = {}
      BY DEF BatchInv, Running
    <2>. QED
      BY <2>1, BatchFacts DEF BatchRows
  <1>3. BaseTypeOK /\ ShowsOwnWrites /\ LastWriteWins
    BY <1>2, BatchFacts, RowsGood
  <1>4. sent \in 0..Limit /\ Limit \in Nat
    BY BatchFacts, PageFacts DEF RowsInv, PageTypes, Numbered
  <1>5. ASSUME NEW b \in ui.batches
        PROVE  b \in [first : 1..Limit, at : 1..Limit, items : SUBSET Ids, todo : BoundedSeq(Ids, Cardinality(Ids)),
                      what : [Ids -> Contents \cup {Blank}], done : SUBSET Ids, failed : SUBSET Ids, here : BOOLEAN]
    <2>1. b \in BatchRecords /\ Running(b)
      BY <1>1 DEF BatchInv
    <2>2. b.first \in 1..Limit /\ b.at \in 1..Limit
      BY <1>4, <2>1 DEF Running, BatchRecords
    <2>3. b.todo \in BoundedSeq(Ids, Cardinality(Ids))
      <3>1. b.todo \in Seq(Ids) /\ IsInjective(b.todo)
        BY <2>1 DEF BatchRecords, Running, Split
      <3>. QED
        BY <3>1, OnceIsShort
    <2>. QED
      BY <2>1, <2>2, <2>3 DEF BatchRecords
  <1>6. ASSUME NEW t \in ui.told
        PROVE  t \in [first : 1..Limit, items : SUBSET Ids, done : SUBSET Ids, failed : SUBSET Ids]
    <2>1. t \in ToldRecords /\ t.first \in 1..sent
      BY <1>1 DEF BatchInv, Accounted
    <2>2. t.first \in 1..Limit
      BY <1>4, <2>1
    <2>. QED
      BY <2>1, <2>2 DEF ToldRecords
  <1>7. ui \in BatchUi
    <2>1. ui.batches \subseteq [first : 1..Limit, at : 1..Limit, items : SUBSET Ids, todo : BoundedSeq(Ids, Cardinality(Ids)),
                      what : [Ids -> Contents \cup {Blank}], done : SUBSET Ids, failed : SUBSET Ids, here : BOOLEAN]
      BY <1>5
    <2>2. ui.told \subseteq [first : 1..Limit, items : SUBSET Ids, done : SUBSET Ids, failed : SUBSET Ids]
      BY <1>6
    <2>. QED
      BY <1>1, <2>1, <2>2 DEF BatchForm, BatchUi
  <1>8. BatchesAccounted
    BY DEF BatchInv, Accounted, Since, BatchesAccounted
  <1>. QED
    BY <1>3, <1>7, <1>8 DEF BatchTypeOK

(***************************************************************************)
(* All the pages                                                           *)
(***************************************************************************)
PagesInv == EditorInv \/ OperationInv \/ VersionsInv \/ SettingsInv \/ BatchInv \/ SimpleInv

LEMMA OpenedRows ==
  ASSUME NEW stored \in [Ids -> PageValues], BaseInit(stored)
  PROVE  RowsInv
  <1>1. /\ rows = stored /\ list = [data |-> NoRead, flight |-> NoRead]
        /\ requests = {} /\ sent = 0 /\ opened = 0 /\ crossed = {} /\ unseen = {}
        /\ latest = [i \in Ids |-> [n |-> 0, content |-> stored[i]]]
    BY DEF BaseInit
  <1>2. sent \in 0..Limit /\ opened \in 0..MaxReopens
    BY <1>1, PageFacts, ConsoleAssumption
  <1>3. PageTypes
    <2>1. latest \in [Ids -> [n : Nat, content : PageValues]] /\ \A i \in Ids : latest[i].n <= sent
      BY <1>1
    <2>2. Numbered
      BY <1>1, <1>2 DEF Numbered
    <2>. QED
      BY <1>1, <1>2, <2>1, <2>2, PageFacts DEF PageTypes
  <1>4. SendsAgree /\ LastStored /\ DoneCounts
    BY <1>1 DEF SendsAgree, LastStored, DoneCounts
  <1>5. LastReading.outcome # "done"
    BY <1>1, PageFacts DEF LastReading
  <1>. QED
    BY <1>1, <1>3, <1>4, <1>5 DEF RowsInv, ReadsAgree, NoList

LEMMA Stored ==
  ASSUME page \notin {"approvals", "approval-queue"}
  PROVE  /\ PageValues = Contents \cup {Blank} /\ TheContent \in Contents
         /\ Every(TheContent) \in [Ids -> PageValues] /\ Every(Blank) \in [Ids -> PageValues]
         /\ \A d \in Drafts : [Every(Blank) EXCEPT ![d[1]] = TheContent] \in [Ids -> PageValues]
  <1>1. TheContent \in Contents
    BY ConsoleAssumption DEF TheContent
  <1>. QED
    BY <1>1 DEF Every, PageValues

LEMMA OpenedPage ==
  ASSUME NEW p, NEW empty, NEW stored \in [Ids -> PageValues], Open(p, empty, stored)
  PROVE  page = p /\ ui = empty /\ RowsInv
  BY OpenedRows DEF Open

LEMMA EditorOpened ==
  ASSUME \/ \E p \in EditorPageNames \ {"experiments"} : Open(p, EmptyForm, Every(TheContent))
         \/ \E d \in Drafts : Open("experiments", EmptyForm, [Every(Blank) EXCEPT ![d[1]] = TheContent])
  PROVE  EditorInv
  <1>1. page \in EditorPageNames /\ page \notin {"approvals", "approval-queue"} /\ ui = EmptyForm
    BY DEF Open, EditorPageNames
  <1>2. RowsInv
    BY <1>1, Stored, OpenedPage
  <1>. QED
    BY <1>1, <1>2 DEF EditorInv, EmptyForm, EditorUi

LEMMA OperationOpened ==
  ASSUME page \in OperationPageNames, ui = OperationEmpty, BaseInit(OperationStored)
  PROVE  OperationInv
  <1>1. OperationStored \in [Ids -> PageValues]
    BY ConsoleAssumption DEF OperationStored, PageValues, Statuses
  <1>2. RowsInv
    BY <1>1, OpenedRows
  <1>3. requests = {}
    BY DEF BaseInit
  <1>4. CASE page = "jobs"
    BY <1>2, <1>3, <1>4 DEF OperationInv, JobsInv, OperationEmpty, Busy, OneHere
  <1>5. CASE page = "agents"
    BY <1>2, <1>5 DEF OperationInv, AgentsInv, AgentsUi, OperationEmpty, Busy
  <1>6. CASE page \in DecisionPages
    BY <1>2, <1>6 DEF OperationInv, DecisionsInv, DecisionUi, DecisionPages, OperationEmpty
  <1>7. CASE page = "dashboard"
    BY <1>2, <1>7 DEF OperationInv, DashboardInv, MandateUi, OperationEmpty
  <1>8. CASE page = "prompt"
    BY <1>2, <1>8 DEF OperationInv, PromptInv, PromptUi, OperationEmpty, AiProviders
  <1>. QED
    BY <1>4, <1>5, <1>6, <1>7, <1>8 DEF OperationPageNames, DecisionPages

LEMMA VersionsOpened ==
  ASSUME NEW d \in Drafts, Open("versions", VersionEmpty, [Every(MaxVersions) EXCEPT ![d[1]] = MaxVersions - 1])
  PROVE  VersionsInv
  <1>1. /\ page = "versions" /\ ui = VersionEmpty /\ rows = [Every(MaxVersions) EXCEPT ![d[1]] = MaxVersions - 1]
        /\ list = [data |-> NoRead, flight |-> NoRead] /\ requests = {} /\ sent = 0 /\ opened = 0 /\ unseen = {}
    BY DEF Open, BaseInit
  <1>2. MaxVersions \in Nat \ {0, 1} /\ Limit \in Nat /\ MaxReopens \in Nat
    BY VersionFacts
  <1>3. MaxVersions \in 1..MaxVersions /\ MaxVersions - 1 \in 1..MaxVersions /\ 0 \in Histories
    BY <1>2 DEF Histories
  <1>4. rows \in [Ids -> 1..MaxVersions]
    BY <1>1, <1>3 DEF Every
  <1>5. ui \in VersionUi /\ \A j \in Ids : ui.loaded[j] = NotLoaded
    BY <1>1, <1>3 DEF VersionEmpty, VersionUi
  <1>6. VersionTypes
    BY <1>1, <1>2, <1>4, <1>5 DEF VersionTypes
  <1>. QED
    BY <1>1, <1>5, <1>6 DEF VersionsInv, VersionKnown, Unread

LEMMA SectionOpened ==
  ASSUME NEW p \in SectionNames, NEW d \in Drafts, Open(p, SectionEmpty, [Every(Blank) EXCEPT ![d[1]] = TheContent])
  PROVE  SettingsInv
  <1>1. page = p /\ page \in SectionNames /\ page \notin {"approvals", "approval-queue"} /\ ui = SectionEmpty
    BY DEF Open, SectionNames
  <1>2. RowsInv
    BY <1>1, Stored, OpenedPage
  <1>3. SectionEmpty \in SectionUi /\ ~SectionEmpty.lost
    BY ConsoleAssumption DEF SectionEmpty, SectionUi
  <1>. QED
    BY <1>1, <1>2, <1>3 DEF SettingsInv, SectionInv

LEMMA BrowserOpened ==
  ASSUME NEW built \in {NoToken, TheContent}, Open("browser", Opening(NoToken, FALSE, built, FALSE), Every(Blank))
  PROVE  SettingsInv
  <1>1. page = "browser" /\ page \notin {"approvals", "approval-queue"} /\ ui = Opening(NoToken, FALSE, built, FALSE)
    BY DEF Open
  <1>2. RowsInv
    BY <1>1, Stored, OpenedPage
  <1>3. built \in Tokens /\ NoToken \in Tokens /\ FALSE \in BOOLEAN
    BY <1>1, Stored DEF Tokens
  <1>4. PICK o : o = Opening(NoToken, FALSE, built, FALSE)
    OBVIOUS
  <1>5. o \in BrowserUi /\ ~o.lost /\ (o.saved \/ o.stored = NoToken) /\ (o.shown \/ (o.stored = NoToken /\ o.field = NoToken))
    BY <1>3, <1>4, OpeningIs
  <1>. QED
    BY <1>1, <1>2, <1>4, <1>5 DEF SettingsInv, BrowserInv

LEMMA CatalogOpened ==
  ASSUME Open("catalog", CatalogEmpty, Every(Blank))
  PROVE  SettingsInv
  <1>1. /\ page = "catalog" /\ ui = CatalogEmpty /\ rows = Every(Blank)
        /\ list = [data |-> NoRead, flight |-> NoRead] /\ requests = {} /\ sent = 0 /\ unseen = {}
        /\ latest = [i \in Ids |-> [n |-> 0, content |-> Every(Blank)[i]]]
    BY DEF Open, BaseInit
  <1>2. rows \in [Ids -> {Blank, Made}] /\ NoRead \in CatalogReadings /\ 0 \in 0..MaxSends /\ NoRead.outcome = "none"
    BY <1>1, ConsoleAssumption DEF Every, NoRead, NoRows, CatalogReadings
  <1>3. CatalogTypes /\ CatalogReads
    BY <1>1, <1>2 DEF CatalogTypes, CatalogReads, LastReading
  <1>4. \A i \in Ids : latest[i].content = rows[i]
    BY <1>1
  <1>5. \A reading \in {list.data, list.flight} : reading = NoRead \/ reading.outcome # "none"
    BY <1>1
  <1>. QED
    BY <1>1, <1>3, <1>4, <1>5 DEF CatalogInv, SettingsInv

LEMMA BatchOpened ==
  ASSUME NEW p \in BatchPageNames, Open(p, BatchEmpty, Every(Blank))
  PROVE  BatchInv
  <1>1. page = p /\ page \in BatchPageNames /\ page \notin {"approvals", "approval-queue"} /\ ui = BatchEmpty
    BY DEF Open, BatchPageNames, AutomationNames
  <1>2. RowsInv
    BY <1>1, Stored, OpenedPage
  <1>3. BatchEmpty \in BatchForm /\ BatchEmpty.batches = {} /\ BatchEmpty.told = {}
    BY DEF BatchEmpty, BatchForm, NoRow
  <1>. QED
    BY <1>1, <1>2, <1>3 DEF BatchInv

LEMMA SimpleOpened ==
  ASSUME page \in {"simple-jobs", "simple-runs", "builder"}, ui = SimpleEmpty,
         BaseInit(Every(IF page = "builder" THEN Blank ELSE TheContent))
  PROVE  SimpleInv
  <1>1. PICK content \in {Blank, TheContent} : BaseInit(Every(content))
    <2>1. CASE page = "builder"
      BY <2>1
    <2>2. CASE page # "builder"
      BY <2>2
    <2>. QED
      BY <2>1, <2>2
  <1>2. Every(content) \in [Ids -> PageValues]
    BY <1>1, Stored
  <1>3. RowsInv /\ requests = {}
    BY <1>1, <1>2, OpenedRows DEF BaseInit
  <1>4. CASE page = "simple-jobs"
    BY <1>3, <1>4 DEF SimpleInv, SimpleJobsInv, SimpleEmpty
  <1>5. CASE page = "builder"
    <2>1. ui = [id |-> Blank, json |-> FALSE, error |-> FALSE, inputs |-> NoInputs, lost |-> FALSE]
      BY <1>5 DEF SimpleEmpty
    <2>2. ui \in BuilderUi /\ ~ui.lost
      BY <2>1 DEF BuilderUi, NoInputs
    <2>. QED
      BY <1>3, <1>5, <2>2 DEF SimpleInv, BuilderInv
  <1>6. CASE page = "simple-runs"
    <2>1. ui = [filter |-> Blank, cache |-> [f \in Filters |-> NoRead], detail |-> Blank, asked |-> Blank, overtaken |-> FALSE]
      BY <1>6 DEF SimpleEmpty
    <2>2. ui \in RunsUi
      BY <2>1, PageFacts DEF RunsUi, Filters
    <2>3. LastAsked
      BY <1>3, <2>1 DEF LastAsked
    <2>. QED
      BY <1>3, <1>6, <2>2, <2>3 DEF SimpleInv, RunsInv
  <1>. QED
    BY <1>4, <1>5, <1>6

LEMMA PagesOpened ==
  ASSUME Init
  PROVE  PagesInv
  <1>1. CASE \/ \E p \in EditorPageNames \ {"experiments"} : Open(p, EmptyForm, Every(TheContent))
             \/ \E d \in Drafts : Open("experiments", EmptyForm, [Every(Blank) EXCEPT ![d[1]] = TheContent])
    BY <1>1, EditorOpened DEF PagesInv
  <1>2. CASE \E p \in OperationPageNames : page = p /\ ui = OperationEmpty /\ BaseInit(OperationStored)
    BY <1>2, OperationOpened DEF PagesInv
  <1>3. CASE \E d \in Drafts : Open("versions", VersionEmpty, [Every(MaxVersions) EXCEPT ![d[1]] = MaxVersions - 1])
    BY <1>3, VersionsOpened DEF PagesInv
  <1>4. CASE \E p \in SectionNames, d \in Drafts : Open(p, SectionEmpty, [Every(Blank) EXCEPT ![d[1]] = TheContent])
    BY <1>4, SectionOpened DEF PagesInv
  <1>5. CASE \E built \in {NoToken, TheContent} : Open("browser", Opening(NoToken, FALSE, built, FALSE), Every(Blank))
    BY <1>5, BrowserOpened DEF PagesInv
  <1>6. CASE Open("catalog", CatalogEmpty, Every(Blank))
    BY <1>6, CatalogOpened DEF PagesInv
  <1>7. CASE \E p \in BatchPageNames : Open(p, BatchEmpty, Every(Blank))
    BY <1>7, BatchOpened DEF PagesInv
  <1>8. CASE \E p \in {"simple-jobs", "simple-runs", "builder"} :
               page = p /\ ui = SimpleEmpty /\ BaseInit(Every(IF p = "builder" THEN Blank ELSE TheContent))
    BY <1>8, SimpleOpened DEF PagesInv
  <1>. QED
    BY <1>1, <1>2, <1>3, <1>4, <1>5, <1>6, <1>7, <1>8 DEF Init

\* A step that changes nothing.
LEMMA PagesStutter ==
  ASSUME PagesInv, UNCHANGED vars
  PROVE  PagesInv'
  <1>1. /\ page' = page /\ ui' = ui /\ rows' = rows /\ list' = list /\ requests' = requests /\ sent' = sent
        /\ opened' = opened /\ latest' = latest /\ crossed' = crossed /\ unseen' = unseen /\ UNCHANGED Local
    BY DEF vars, Local
  <1>2. BatchRows \subseteq BatchRows'
    BY <1>1 DEF BatchRows, Batches
  <1>3. RowsInv => RowsInv'
    BY <1>1, <1>2, QuietRows
  <1>4. EditorInv => EditorInv'
    BY <1>1, <1>3 DEF EditorInv, EditorUi
  <1>5. JobsInv => JobsInv'
    BY <1>1, <1>3 DEF JobsInv, Busy, OneHere
  <1>6. AgentsInv => AgentsInv'
    BY <1>1, <1>3 DEF AgentsInv, AgentsUi, Busy
  <1>7. (DecisionsInv => DecisionsInv') /\ (DashboardInv => DashboardInv') /\ (PromptInv => PromptInv')
    BY <1>1, <1>3 DEF DecisionsInv, DecisionUi, DecisionPages, DashboardInv, MandateUi, PromptInv, PromptUi, AiProviders
  <1>8. VersionsInv => VersionsInv'
    BY <1>1 DEF VersionsInv, VersionTypes, VersionKnown, VersionRequests, Coming, Unread, Limit, VersionUi
  <1>9. (SectionInv => SectionInv') /\ (BrowserInv => BrowserInv')
    BY <1>1, <1>3 DEF SectionInv, SectionUi, BrowserInv, BrowserUi
  <1>10. CatalogInv => CatalogInv'
    BY <1>1 DEF CatalogInv, CatalogTypes, CatalogReads, CatalogReadings, CatalogRequests, CatalogAsks, LastReading
  <1>11. BatchInv => BatchInv'
    <2>1. SUFFICES ASSUME BatchInv PROVE BatchInv'
      OBVIOUS
    <2>2. ui' \in BatchForm
      BY <1>1, <2>1, BatchFacts
    <2>. QED
      BY <1>1, <2>1, <2>2, BatchQuiet
  <1>12. (SimpleJobsInv => SimpleJobsInv') /\ (BuilderInv => BuilderInv')
    BY <1>1, <1>3 DEF SimpleJobsInv, BuilderInv, BuilderUi
  <1>13. RunsInv => RunsInv'
    BY <1>1, <1>3 DEF RunsInv, RunsUi, LastAsked, Readings, PageValues
  <1>. QED
    BY <1>4, <1>5, <1>6, <1>7, <1>8, <1>9, <1>10, <1>11, <1>12, <1>13
       DEF PagesInv, OperationInv, SettingsInv, SimpleInv

\* Which page is open says which of the parts holds.
LEMMA WhichPages ==
  /\ EditorInv => page \in EditorPageNames
  /\ OperationInv => page \in OperationPageNames
  /\ VersionsInv => page = "versions"
  /\ SettingsInv => page \in SettingsPageNames
  /\ BatchInv => page \in BatchPageNames
  /\ SimpleInv => page \in SimplePageNames
  <1>1. OperationInv => page \in OperationPageNames
    BY DEF OperationInv, JobsInv, AgentsInv, DecisionsInv, DashboardInv, PromptInv, DecisionPages, OperationPageNames
  <1>2. SimpleInv => page \in SimplePageNames
    BY DEF SimpleInv, SimpleJobsInv, BuilderInv, RunsInv, SimplePageNames
  <1>3. VersionsInv => page = "versions"
    BY DEF VersionsInv, VersionTypes
  <1>4. SettingsInv => page \in SettingsPageNames
    BY DEF SettingsInv, SectionInv, BrowserInv, CatalogInv, CatalogTypes, SettingsPageNames
  <1>. QED
    BY <1>1, <1>2, <1>3, <1>4 DEF EditorInv, BatchInv

LEMMA PagesApart ==
  /\ page \in EditorPageNames => page \notin OperationPageNames \cup SettingsPageNames \cup BatchPageNames \cup SimplePageNames
                                 /\ page # "versions"
  /\ page \in OperationPageNames => page \notin SettingsPageNames \cup BatchPageNames \cup SimplePageNames
                                    /\ page # "versions"
  /\ page \in SettingsPageNames => page \notin BatchPageNames \cup SimplePageNames /\ page # "versions"
  /\ page \in BatchPageNames => page \notin SimplePageNames /\ page # "versions"
  /\ page \in SimplePageNames => page # "versions"
  BY DEF EditorPageNames, OperationPageNames, SettingsPageNames, SectionNames, BatchPageNames, AutomationNames,
         SimplePageNames

LEMMA PagesStep ==
  ASSUME PagesInv, Next
  PROVE  PagesInv'
  <1>1. CASE EditorNext
    <2>1. EditorInv
      BY <1>1, EditorsOnly, WhichPages, PagesApart DEF PagesInv
    <2>. QED
      BY <1>1, <2>1, EditorStep DEF PagesInv
  <1>2. CASE OperationNext
    <2>1. page \in OperationPageNames
      BY <1>2, OperationActs
    <2>2. OperationInv
      BY <2>1, WhichPages, PagesApart DEF PagesInv
    <2>. QED
      BY <1>2, <2>2, OperationStep DEF PagesInv
  <1>3. CASE VersionNext
    <2>1. VersionsInv
      BY <1>3, VersionsOnly, WhichPages, PagesApart DEF PagesInv
    <2>. QED
      BY <1>3, <2>1, VersionStep DEF PagesInv
  <1>4. CASE SettingsNext
    <2>1. page \in SettingsPageNames
      BY <1>4, SettingsActs DEF SettingsPageNames
    <2>2. SettingsInv
      BY <2>1, WhichPages, PagesApart DEF PagesInv
    <2>. QED
      BY <1>4, <2>2, SettingsStep DEF PagesInv
  <1>5. CASE BatchPagesNext
    <2>1. BatchInv
      BY <1>5, BatchesOnly, WhichPages, PagesApart DEF PagesInv
    <2>. QED
      BY <1>5, <2>1, BatchStep DEF PagesInv
  <1>6. CASE SimpleNext
    <2>1. page \in SimplePageNames
      BY <1>6, SimpleActs DEF SimplePageNames
    <2>2. SimpleInv
      BY <2>1, WhichPages, PagesApart DEF PagesInv
    <2>. QED
      BY <1>6, <2>2, SimpleStep DEF PagesInv
  <1>7. CASE \E q \in requests, o \in Outcomes : ApiWorks(q, o)
    <2>1. page \notin {"versions", "catalog"}
      BY <1>7 DEF ApiWorks
    <2>2. \E q \in requests, o \in Outcomes : Serve(q, o)
      BY <1>7 DEF ApiWorks
    <2>3. CASE EditorInv
      BY <2>2, <2>3, EditorServed DEF PagesInv
    <2>4. CASE OperationInv
      BY <2>2, <2>4, OperationStep DEF PagesInv
    <2>5. CASE SettingsInv
      BY <2>1, <2>2, <2>5, SettingsStep DEF PagesInv
    <2>6. CASE BatchInv
      BY <2>2, <2>6, BatchServed DEF PagesInv
    <2>7. CASE SimpleInv
      BY <2>2, <2>7, SimpleStep DEF PagesInv
    <2>. QED
      BY <2>1, <2>3, <2>4, <2>5, <2>6, <2>7, WhichPages DEF PagesInv
  <1>. QED
    BY <1>1, <1>2, <1>3, <1>4, <1>5, <1>6, <1>7 DEF Next

\* What the invariant says of the properties.
LEMMA PagesGood ==
  ASSUME PagesInv
  PROVE  TypeOK /\ ShowsOwnWrites /\ LastWriteWins /\ InputKept /\ PanelsTell /\ BatchesAccounted
  <1>1. CASE EditorInv
    <2>1. page \in EditorPageNames /\ EditorTypeOK /\ ShowsOwnWrites /\ LastWriteWins /\ ~ui.lost
      BY <1>1, EditorsGood, WhichPages
    <2>2. page \notin SectionNames \cup BatchPageNames /\ page \notin {"browser", "builder", "versions", "simple-runs"}
      BY <2>1 DEF EditorPageNames, SectionNames, BatchPageNames, AutomationNames
    <2>. QED
      BY <2>1, <2>2, PagesApart DEF TypeOK, InputKept, PanelsTell, EditsLostForCause, SecretsLostForCause, ParametersKept,
                        PanelTellsActive, DetailIsAsked, BatchesAccounted, OnVersions, OnPage
  <1>2. CASE OperationInv
    <2>1. page \in OperationPageNames /\ OperationTypeOK /\ ShowsOwnWrites /\ LastWriteWins
      BY <1>2, OperationsGood, WhichPages
    <2>2. page \notin EditorPageNames \cup SectionNames \cup BatchPageNames
          /\ page \notin {"triggers", "browser", "builder", "versions", "simple-runs"}
      BY <2>1 DEF OperationPageNames, EditorPageNames, SectionNames, BatchPageNames, AutomationNames
    <2>. QED
      BY <2>1, <2>2, PagesApart DEF TypeOK, InputKept, PanelsTell, EditsLostForCause, SecretsLostForCause, ParametersKept,
                        PanelTellsActive, DetailIsAsked, BatchesAccounted, OnVersions, OnPage
  <1>3. CASE VersionsInv
    <2>1. page = "versions" /\ VersionTypeOK /\ ShowsOwnWrites /\ LastWriteWins /\ PanelTellsActive
      BY <1>3, VersionsGood
    <2>2. page \notin EditorPageNames \cup OperationPageNames \cup SectionNames \cup BatchPageNames
          /\ page \notin {"triggers", "browser", "builder", "simple-runs"}
      BY <2>1 DEF OperationPageNames, EditorPageNames, SectionNames, BatchPageNames, AutomationNames
    <2>. QED
      BY <2>1, <2>2, PagesApart DEF TypeOK, InputKept, PanelsTell, EditsLostForCause, SecretsLostForCause, ParametersKept,
                        DetailIsAsked, BatchesAccounted
  <1>4. CASE SettingsInv
    <2>1. /\ page \in SettingsPageNames /\ SettingsTypeOK /\ ShowsOwnWrites /\ LastWriteWins
          /\ page \in SectionNames \cup {"browser"} => ~ui.lost
      BY <1>4, SettingsGood
    <2>2. page \notin EditorPageNames \cup OperationPageNames \cup BatchPageNames
          /\ page \notin {"triggers", "builder", "versions", "simple-runs"}
      BY <2>1 DEF SettingsPageNames, SectionNames, OperationPageNames, EditorPageNames, BatchPageNames, AutomationNames
    <2>. QED
      BY <2>1, <2>2, PagesApart DEF TypeOK, InputKept, PanelsTell, EditsLostForCause, SecretsLostForCause, ParametersKept,
                        PanelTellsActive, DetailIsAsked, BatchesAccounted, OnVersions, OnPage
  <1>5. CASE BatchInv
    <2>1. page \in BatchPageNames /\ BatchTypeOK /\ ShowsOwnWrites /\ LastWriteWins /\ BatchesAccounted
      BY <1>5, BatchesGood, WhichPages
    <2>2. page \notin EditorPageNames \cup OperationPageNames \cup SettingsPageNames \cup SectionNames
          /\ page \notin {"triggers", "browser", "builder", "versions", "simple-runs"}
      BY <2>1 DEF SettingsPageNames, SectionNames, OperationPageNames, EditorPageNames, BatchPageNames, AutomationNames
    <2>. QED
      BY <2>1, <2>2, PagesApart DEF TypeOK, InputKept, PanelsTell, EditsLostForCause, SecretsLostForCause, ParametersKept,
                        PanelTellsActive, DetailIsAsked, OnVersions, OnPage
  <1>6. CASE SimpleInv
    <2>1. page \in SimplePageNames /\ SimpleTypeOK /\ ShowsOwnWrites /\ LastWriteWins /\ ParametersKept /\ DetailIsAsked
      BY <1>6, SimplesGood, WhichPages
    <2>2. page \notin EditorPageNames \cup OperationPageNames \cup SettingsPageNames \cup SectionNames \cup BatchPageNames
          /\ page \notin {"triggers", "browser", "versions"}
      BY <2>1 DEF SettingsPageNames, SectionNames, OperationPageNames, EditorPageNames, BatchPageNames, AutomationNames,
                  SimplePageNames
    <2>. QED
      BY <2>1, <2>2, PagesApart DEF TypeOK, InputKept, PanelsTell, EditsLostForCause, SecretsLostForCause,
                        PanelTellsActive, BatchesAccounted, OnVersions, OnPage
  <1>. QED
    BY <1>1, <1>2, <1>3, <1>4, <1>5, <1>6 DEF PagesInv

\* The invariant holds of every behaviour of the pages, whichever page is opened.
THEOREM PagesInvariant == Spec => []PagesInv
  <1>1. Init => PagesInv
    BY PagesOpened
  <1>2. PagesInv /\ [Next]_vars => PagesInv'
    BY PagesStep, PagesStutter
  <1>. QED
    BY <1>1, <1>2, PTL DEF Spec

\* Every page keeps to its state: what it shows, the requests on their way and the
\* rows of the API are of their types, and no more is sent than its buttons send.
THEOREM PagesTypes == Spec => []TypeOK
  <1>1. PagesInv => TypeOK
    BY PagesGood
  <1>. QED
    BY <1>1, PagesInvariant, PTL

\* A list that was read and awaits nothing shows what the API stores, on every page
\* of both interfaces that refetches after its own writes: no answer that was on its
\* way when a write was confirmed stays on screen (invalidateQueries cancels it).
THEOREM PagesShowOwnWrites == Spec => []ShowsOwnWrites
  <1>1. PagesInv => ShowsOwnWrites
    BY PagesGood
  <1>. QED
    BY <1>1, PagesInvariant, PTL

\* The write clicked last is what the API stores of a row, in whatever order the
\* requests reach it: the pages disable a button while its request is on its way.
THEOREM PagesLastWriteWins == Spec => []LastWriteWins
  <1>1. PagesInv => LastWriteWins
    BY PagesGood
  <1>. QED
    BY <1>1, PagesInvariant, PTL

\* Text typed into the trigger form is not overwritten by a reading that shows its
\* row as it was, a secret leaves its form only for another row or with a save that
\* was confirmed, the browser's token goes only where it was shown, and a parameter of
\* the builder never takes the place of another.
THEOREM PagesKeepInput == Spec => []InputKept
  <1>1. PagesInv => InputKept
    BY PagesGood
  <1>. QED
    BY <1>1, PagesInvariant, PTL

\* The panel of versions marks as active the version that is, and the dialog of runs
\* is on the run that was asked for last, whatever the order of the answers.
THEOREM PagesPanelsTell == Spec => []PanelsTell
  <1>1. PagesInv => PanelsTell
    BY PagesGood
  <1>. QED
    BY <1>1, PagesInvariant, PTL

\* A batch of saves tells, of each row it was started with, whether it was saved: one
\* that fails keeps no other from being saved, one counted as saved was saved after
\* the click, however many batches run across each other or after their page.
THEOREM PagesAccountForBatches == Spec => []BatchesAccounted
  <1>1. PagesInv => BatchesAccounted
    BY PagesGood
  <1>. QED
    BY <1>1, PagesInvariant, PTL
================================================================================

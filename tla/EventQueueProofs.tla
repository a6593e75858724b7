--------------------------- MODULE EventQueueProofs ---------------------------
(***************************************************************************)
(* The priority queue of EventQueueOps implements the buckets of           *)
(* TimeBuckets.                                                            *)
(*                                                                         *)
(* A finite set of entries with different counters has exactly one         *)
(* enumeration in key order, so the order that InKeyOrder chooses is known *)
(* as soon as some ascending enumeration is.  What every operation does to *)
(* a bucket follows from one fact: where all of one set precedes all of    *)
(* another, the order of the union is the one order after the other.       *)
(***************************************************************************)
EXTENDS EventQueueOps, CollectionProofs

\* Entries with keys, no two with the same counter.
Keyed(S) ==
  /\ IsFiniteSet(S)
  /\ \A e \in S : e.event.time \in Nat /\ e.seq \in Nat
  /\ \A e, f \in S : e.seq = f.seq => e = f

Ascending(s, S) ==
  /\ s \in [1..Cardinality(S) -> S]
  /\ \A i, j \in 1..Cardinality(S) : i < j => Earlier(s[i], s[j])

\* The keys are totally ordered.
LEMMA EarlierIsTotal ==
  ASSUME NEW S, Keyed(S)
  PROVE  /\ \A e, f \in S : e # f => Earlier(e, f) \/ Earlier(f, e)
         /\ \A e, f \in S : ~(Earlier(e, f) /\ Earlier(f, e))
         /\ \A e, f, g \in S : Earlier(e, f) /\ Earlier(f, g) => Earlier(e, g)
  BY DEF Keyed, Earlier

\* A part of a keyed set is one.
LEMMA KeyedPart ==
  ASSUME NEW S, Keyed(S), NEW T \in SUBSET S
  PROVE  Keyed(T) /\ Cardinality(T) \in Nat
<1>1. IsFiniteSet(T) /\ Cardinality(T) \in Nat
  BY FS_Subset, FS_CardinalityType DEF Keyed
<1>2. QED
  BY <1>1 DEF Keyed

\* A keyed set that is not empty has a last entry.
LEMMA LastExists ==
  ASSUME NEW S, Keyed(S), S # {}
  PROVE  \E m \in S : \A e \in S \ {m} : Earlier(e, m)
<1> DEFINE LastIn(T) == \E m \in T : \A e \in T \ {m} : Earlier(e, m)
           P == {T \in SUBSET S : T = {} \/ LastIn(T)}
<1>1. {} \in P
  OBVIOUS
<1>2. ASSUME NEW T \in SUBSET S, NEW x \in S, T \in P, x \notin T
      PROVE  T \cup {x} \in P
  <2>1. CASE T = {}
    <3>1. \A e \in (T \cup {x}) \ {x} : Earlier(e, x)
      BY <2>1
    <3>2. QED
      BY <3>1
  <2>2. CASE T # {}
    <3>1. PICK m \in T : \A e \in T \ {m} : Earlier(e, m)
      BY <1>2, <2>2
    <3>2. CASE Earlier(m, x)
      <4>1. \A e \in (T \cup {x}) \ {x} : Earlier(e, x)
        BY <3>1, <3>2, EarlierIsTotal
      <4>2. QED
        BY <4>1
    <3>3. CASE Earlier(x, m)
      <4>1. \A e \in (T \cup {x}) \ {m} : Earlier(e, m)
        BY <3>1, <3>3
      <4>2. QED
        BY <4>1
    <3>4. QED
      BY <1>2, <3>2, <3>3, EarlierIsTotal
  <2>3. QED
    BY <2>1, <2>2
<1>3. IsFiniteSet(S)
  BY DEF Keyed
<1> HIDE DEF P
<1>4. S \in P
  BY <1>1, <1>2, <1>3, FiniteInductive
<1>5. QED
  BY <1>4 DEF P

\* Some enumeration is ascending: all but the last entry, then the last.
LEMMA AscendingExists ==
  ASSUME NEW S, Keyed(S)
  PROVE  \E s : Ascending(s, S)
<1> DEFINE Good == {n \in Nat : \A T \in SUBSET S : Cardinality(T) = n => \E s : Ascending(s, T)}
<1>1. 0 \in Good
  <2> SUFFICES ASSUME NEW T \in SUBSET S, Cardinality(T) = 0
               PROVE  \E s : Ascending(s, T)
    OBVIOUS
  <2>1. [i \in 1..0 |-> 0] \in [1..0 -> T]
    OBVIOUS
  <2>2. Ascending([i \in 1..0 |-> 0], T)
    BY <2>1 DEF Ascending
  <2>3. QED
    BY <2>2
<1>2. ASSUME NEW n \in Nat, n \in Good  PROVE n + 1 \in Good
  <2> SUFFICES ASSUME NEW T \in SUBSET S, Cardinality(T) = n + 1
               PROVE  \E s : Ascending(s, T)
    OBVIOUS
  <2>1. Keyed(T) /\ IsFiniteSet(T)
    BY KeyedPart DEF Keyed
  <2>2. T # {}
    BY <2>1, SmallerByOne
  <2>3. PICK m \in T : \A e \in T \ {m} : Earlier(e, m)
    BY <2>1, <2>2, LastExists
  <2>4. Cardinality(T \ {m}) = n
    BY <2>1, SmallerByOne
  <2>5. PICK r : Ascending(r, T \ {m})
    BY <1>2, <2>4
  <2>6. /\ r \in [1..n -> T \ {m}]
        /\ \A i, j \in 1..n : i < j => Earlier(r[i], r[j])
    BY <2>4, <2>5 DEF Ascending
  <2> DEFINE s == [i \in 1..(n + 1) |-> IF i = n + 1 THEN m ELSE r[i]]
  <2>7. /\ s \in [1..(n + 1) -> T]
        /\ s[n + 1] = m
        /\ \A i \in 1..n : s[i] = r[i] /\ s[i] \in T \ {m}
    BY <2>6
  <2> HIDE DEF s
  <2>8. \A i, j \in 1..(n + 1) : i < j => Earlier(s[i], s[j])
    <3> SUFFICES ASSUME NEW i \in 1..(n + 1), NEW j \in 1..(n + 1), i < j
                 PROVE  Earlier(s[i], s[j])
      OBVIOUS
    <3>1. i \in 1..n
      OBVIOUS
    <3>2. CASE j = n + 1
      BY <2>3, <2>7, <3>1, <3>2
    <3>3. CASE j \in 1..n
      BY <2>6, <2>7, <3>1, <3>3
    <3>4. QED
      BY <3>2, <3>3
  <2>9. Ascending(s, T)
    BY <2>7, <2>8 DEF Ascending
  <2>10. QED
    BY <2>9
<1> HIDE DEF Good
<1>3. Nat \subseteq Good
  BY <1>1, <1>2, Inductive
<1>4. Cardinality(S) \in Good
  BY <1>3, KeyedPart
<1>5. QED
  BY <1>4 DEF Good

\* An ascending enumeration meets every entry, and none twice.
LEMMA AscendingCovers ==
  ASSUME NEW S, Keyed(S), NEW s, Ascending(s, S)
  PROVE  /\ \A e \in S : \E i \in 1..Cardinality(S) : s[i] = e
         /\ \A i, j \in 1..Cardinality(S) : s[i] = s[j] => i = j
<1> DEFINE n == Cardinality(S)
<1>1. n \in Nat /\ IsFiniteSet(S)
  BY KeyedPart DEF Keyed
<1>2. s \in [1..n -> S] /\ \A i, j \in 1..n : i < j => Earlier(s[i], s[j])
  BY DEF Ascending
<1>3. \A i, j \in 1..n : s[i] = s[j] => i = j
  <2> SUFFICES ASSUME NEW i \in 1..n, NEW j \in 1..n, s[i] = s[j], i # j
               PROVE  FALSE
    OBVIOUS
  <2>1. i < j \/ j < i
    BY <1>1
  <2>2. s[i] \in S /\ s[j] \in S
    BY <1>2
  <2>3. Earlier(s[i], s[j]) \/ Earlier(s[j], s[i])
    BY <1>2, <2>1
  <2>4. QED
    BY <2>2, <2>3, EarlierIsTotal
<1>4. IsFiniteSet(1..n) /\ Cardinality(1..n) = n
  <2>1. 1 \in Int /\ n \in Int
    BY <1>1
  <2>2. IsFiniteSet(1..n) /\ Cardinality(1..n) = IF 1 > n THEN 0 ELSE n - 1 + 1
    BY <2>1, FS_Interval, Zenon
  <2>3. QED
    BY <1>1, <2>2
<1>5. s \in Injection(1..n, S)
  BY <1>2, <1>3 DEF Injection, IsInjective
<1>6. s \in Surjection(1..n, S)
  BY <1>1, <1>4, <1>5, FS_Injection
<1>7. QED
  BY <1>3, <1>6 DEF Surjection

\* There is only one: at the first place where two differ, each would have to
\* have the other's entry later.
LEMMA AscendingUnique ==
  ASSUME NEW S, Keyed(S), NEW s, Ascending(s, S), NEW t, Ascending(t, S)
  PROVE  s = t
<1> DEFINE n == Cardinality(S)
           Same == {k \in Nat : \A i \in 1..n : i <= k => s[i] = t[i]}
<1>1. n \in Nat
  BY KeyedPart
<1>2. /\ s \in [1..n -> S] /\ \A i, j \in 1..n : i < j => Earlier(s[i], s[j])
      /\ t \in [1..n -> S] /\ \A i, j \in 1..n : i < j => Earlier(t[i], t[j])
  BY DEF Ascending
<1>3. /\ \A e \in S : \E i \in 1..n : s[i] = e
      /\ \A e \in S : \E i \in 1..n : t[i] = e
      /\ \A i, j \in 1..n : s[i] = s[j] => i = j
      /\ \A i, j \in 1..n : t[i] = t[j] => i = j
  BY AscendingCovers
<1> HIDE DEF n
<1>4. 0 \in Same
  OBVIOUS
<1>5. ASSUME NEW k \in Nat, k \in Same  PROVE k + 1 \in Same
  <2> SUFFICES ASSUME k + 1 \in 1..n, s[k + 1] # t[k + 1]  PROVE FALSE
    BY <1>5
  <2> DEFINE m == k + 1
  <2>0. m \in 1..n /\ m \in Nat /\ s[m] # t[m]
    OBVIOUS
  <2>1. \A i \in 1..n : i < m => s[i] = t[i]
    BY <1>5
  <2> HIDE DEF m
  <2>2. s[m] \in S /\ t[m] \in S
    BY <1>2, <2>0
  <2>3. PICK i \in 1..n : s[i] = t[m]
    BY <1>3, <2>2
  <2>4. PICK j \in 1..n : t[j] = s[m]
    BY <1>3, <2>2
  <2>5. i # m /\ j # m
    BY <2>0, <2>3, <2>4
  <2>6. ~(i < m)
    BY <1>3, <2>0, <2>1, <2>3, <2>5
  <2>7. ~(j < m)
    BY <1>3, <2>0, <2>1, <2>4, <2>5
  <2>8. m < i /\ m < j
    BY <2>0, <2>5, <2>6, <2>7
  <2>9. Earlier(s[m], t[m]) /\ Earlier(t[m], s[m])
    BY <1>2, <2>0, <2>3, <2>4, <2>8
  <2>10. QED
    BY <2>2, <2>9, EarlierIsTotal
<1> HIDE DEF Same
<1>6. Nat \subseteq Same
  BY <1>4, <1>5, Inductive
<1>7. \A i \in 1..n : s[i] = t[i]
  BY <1>1, <1>6 DEF Same
<1>8. s = [i \in 1..n |-> s[i]] /\ t = [i \in 1..n |-> t[i]]
  BY <1>2
<1>9. QED
  BY <1>7, <1>8

\* So InKeyOrder is the ascending enumeration, and any such is InKeyOrder.
LEMMA InKeyOrderIs ==
  ASSUME NEW S, Keyed(S)
  PROVE  /\ Ascending(InKeyOrder(S), S)
         /\ \A s : Ascending(s, S) => s = InKeyOrder(S)
         /\ InKeyOrder(S) \in Seq(S) /\ Len(InKeyOrder(S)) = Cardinality(S)
<1>1. PICK r : Ascending(r, S)
  BY AscendingExists
<1>2. /\ r \in [1..Cardinality(S) -> S]
      /\ \A i, j \in DOMAIN r : i < j => Earlier(r[i], r[j])
  BY <1>1 DEF Ascending
<1> DEFINE o == InKeyOrder(S)
<1>3. /\ o \in [1..Cardinality(S) -> S]
      /\ \A i, j \in DOMAIN o : i < j => Earlier(o[i], o[j])
  BY <1>2, Zenon DEF InKeyOrder
<1>4. Cardinality(S) \in Nat
  BY KeyedPart
<1> HIDE DEF o
<1>5. Ascending(o, S)
  BY <1>3 DEF Ascending
<1>6. \A s : Ascending(s, S) => s = o
  BY <1>5, AscendingUnique
<1>7. o \in Seq(S) /\ Len(o) = Cardinality(S)
  BY <1>3, <1>4
<1>8. QED
  BY <1>5, <1>6, <1>7 DEF o

\* Where all of one set precedes all of another, so do their orders.
LEMMA InKeyOrderJoin ==
  ASSUME NEW S, Keyed(S), NEW A \in SUBSET S, NEW B \in SUBSET S, A \cup B = S,
         \A a \in A, b \in B : Earlier(a, b)
  PROVE  InKeyOrder(S) = InKeyOrder(A) \o InKeyOrder(B)
<1> DEFINE m == Cardinality(A)
           n == Cardinality(B)
           p == InKeyOrder(A)
           q == InKeyOrder(B)
           r == [i \in 1..(m + n) |-> IF i <= m THEN p[i] ELSE q[i - m]]
<1>1. Keyed(A) /\ Keyed(B) /\ m \in Nat /\ n \in Nat
  BY KeyedPart
<1>2. /\ p \in Seq(A) /\ Len(p) = m /\ q \in Seq(B) /\ Len(q) = n
      /\ Ascending(p, A) /\ Ascending(q, B)
  BY <1>1, InKeyOrderIs
<1>3. /\ p \in [1..m -> A] /\ \A i, j \in 1..m : i < j => Earlier(p[i], p[j])
      /\ q \in [1..n -> B] /\ \A i, j \in 1..n : i < j => Earlier(q[i], q[j])
  BY <1>2 DEF Ascending
<1>4. Cardinality(S) = m + n
  <2>1. A \cap B = {}
    BY EarlierIsTotal
  <2>2. IsFiniteSet(A) /\ IsFiniteSet(B)
    BY <1>1 DEF Keyed
  <2>3. Cardinality(A \cap B) = 0
    BY <2>1, FS_EmptySet
  <2>4. Cardinality(A \cup B) = m + n - Cardinality(A \cap B)
    BY <2>2, FS_Union, Zenon
  <2> HIDE DEF m, n
  <2>5. QED
    BY <1>1, <2>3, <2>4
<1> HIDE DEF m, n, p, q
<1>5. /\ \A i \in 1..m : r[i] = p[i] /\ r[i] \in A
      /\ \A i \in 1..(m + n) : i > m => i - m \in 1..n /\ r[i] = q[i - m] /\ r[i] \in B
  BY <1>1, <1>3
<1>6. r \in [1..(m + n) -> S]
  <2>1. ASSUME NEW i \in 1..(m + n)  PROVE r[i] \in S
    <3>1. i \in 1..m \/ i > m
      BY <1>1
    <3>2. QED
      BY <1>5, <3>1
  <2>2. QED
    BY <2>1
<1>7. \A i, j \in 1..(m + n) : i < j => Earlier(r[i], r[j])
  <2> SUFFICES ASSUME NEW i \in 1..(m + n), NEW j \in 1..(m + n), i < j
               PROVE  Earlier(r[i], r[j])
    OBVIOUS
  <2> HIDE DEF r
  <2>1. CASE j <= m
    BY <1>1, <1>3, <1>5, <2>1
  <2>2. CASE i <= m /\ j > m
    <3>1. i \in 1..m
      BY <1>1, <2>2
    <3>2. QED
      BY <1>5, <2>2, <3>1
  <2>3. CASE i > m
    <3>1. j > m /\ i - m < j - m
      BY <1>1, <2>3
    <3>2. QED
      BY <1>3, <1>5, <2>3, <3>1
  <2>4. QED
    BY <1>1, <2>1, <2>2, <2>3
<1>8. r = p \o q
  <2>1. /\ Len(p \o q) = m + n /\ p \o q \in Seq(S)
        /\ \A i \in 1..(m + n) : (p \o q)[i] = IF i <= m THEN p[i] ELSE q[i - m]
    BY <1>1, <1>2
  <2>2. p \o q = [i \in 1..(m + n) |-> (p \o q)[i]]
    <3> DEFINE pq == p \o q
    <3>1. pq \in Seq(S) /\ Len(pq) = m + n
      BY <2>1
    <3> HIDE DEF pq
    <3>2. pq = [i \in 1..(m + n) |-> pq[i]]
      BY <3>1
    <3>3. QED
      BY <3>2 DEF pq
  <2>3. QED
    BY <2>1, <2>2
<1> HIDE DEF r
<1>9. Ascending(r, S)
  BY <1>4, <1>6, <1>7 DEF Ascending
<1>10. QED
  BY <1>8, <1>9, InKeyOrderIs DEF p, q

\* One entry is in key order.
LEMMA InKeyOrderOne ==
  ASSUME NEW e, Keyed({e})
  PROVE  InKeyOrder({e}) = <<e>>
<1>1. Cardinality({e}) = 1
  BY FS_Singleton
<1>2. <<e>> \in [1..1 -> {e}]
  OBVIOUS
<1>3. Ascending(<<e>>, {e})
  BY <1>1, <1>2 DEF Ascending
<1>4. QED
  BY <1>3, InKeyOrderIs

\* None is, as the empty sequence.
LEMMA InKeyOrderNone == InKeyOrder({}) = <<>>
<1>1. IsFiniteSet({}) /\ Cardinality({}) = 0
  BY FS_EmptySet
<1>2. Keyed({})
  BY <1>1 DEF Keyed
<1>3. InKeyOrder({}) \in Seq({}) /\ Len(InKeyOrder({})) = 0
  BY <1>1, <1>2, InKeyOrderIs
<1>4. QED
  BY <1>3

-------------------------------------------------------------------------------
At(q, t) == {e \in q.entries : e.event.time = t}
EventsOf(s) == [i \in 1..Len(s) |-> s[i].event]
PayloadsOf(s) == [i \in 1..Len(s) |-> s[i].event.payload]
BucketOf(q, t) == PayloadsOf(InKeyOrder(At(q, t)))

\* Any part of a queue is keyed.
LEMMA QueueIsKeyed ==
  ASSUME NEW q, QueueOK(q, Event), NEW T \in SUBSET q.entries
  PROVE  Keyed(T) /\ Cardinality(T) \in Nat
<1>1. /\ IsFiniteSet(q.entries)
      /\ \A e \in q.entries : e.event \in Event /\ e.seq \in Nat
      /\ \A e, f \in q.entries : e.seq = f.seq => e = f
  BY DEF QueueOK, EntrySet
<1>2. \A ev \in Event : ev.time \in Nat
  BY QueueBounds DEF Event
<1>3. Keyed(q.entries)
  BY <1>1, <1>2 DEF Keyed
<1>4. QED
  BY <1>3, KeyedPart

\* Reading a sequence of entries field by field respects concatenation.
LEMMA ReadingJoins ==
  ASSUME NEW S, NEW p \in Seq(S), NEW r \in Seq(S)
  PROVE  /\ PayloadsOf(p \o r) = PayloadsOf(p) \o PayloadsOf(r)
         /\ EventsOf(p \o r) = EventsOf(p) \o EventsOf(r)
<1> DEFINE m == Len(p)
           n == Len(r)
           pr == p \o r
<1>1. /\ m \in Nat /\ n \in Nat /\ Len(pr) = m + n
      /\ \A i \in 1..(m + n) : pr[i] = IF i <= m THEN p[i] ELSE r[i - m]
  OBVIOUS
<1> DEFINE join(a, b) == [i \in 1..(m + n) |-> IF i <= m THEN a[i] ELSE b[i - m]]
<1>3. PayloadsOf(p \o r) = PayloadsOf(p) \o PayloadsOf(r)
  <2> DEFINE a == PayloadsOf(p)
             b == PayloadsOf(r)
  <2>1. /\ a = [i \in 1..m |-> p[i].event.payload]
        /\ b = [i \in 1..n |-> r[i].event.payload]
        /\ PayloadsOf(pr) = [i \in 1..(m + n) |-> pr[i].event.payload]
    BY <1>1 DEF PayloadsOf
  <2> HIDE DEF m, n, pr
  <2>2. a = [i \in 1..m |-> a[i]] /\ b = [i \in 1..n |-> b[i]]
    BY <2>1
  <2>3. a \o b = join(a, b)
    BY <1>1, <2>2, JoinOfTwo, SMTT(30)
  <2>4. \A i \in 1..(m + n) : pr[i].event.payload = IF i <= m THEN a[i] ELSE b[i - m]
    BY <1>1, <2>1
  <2> HIDE DEF a, b
  <2>5. PayloadsOf(pr) = join(a, b)
    BY <2>1, <2>4
  <2>6. QED
    BY <2>3, <2>5 DEF a, b, pr
<1>4. EventsOf(p \o r) = EventsOf(p) \o EventsOf(r)
  <2> DEFINE a == EventsOf(p)
             b == EventsOf(r)
  <2>1. /\ a = [i \in 1..m |-> p[i].event]
        /\ b = [i \in 1..n |-> r[i].event]
        /\ EventsOf(pr) = [i \in 1..(m + n) |-> pr[i].event]
    BY <1>1 DEF EventsOf
  <2> HIDE DEF m, n, pr
  <2>2. a = [i \in 1..m |-> a[i]] /\ b = [i \in 1..n |-> b[i]]
    BY <2>1
  <2>3. a \o b = join(a, b)
    BY <1>1, <2>2, JoinOfTwo, SMTT(30)
  <2>4. \A i \in 1..(m + n) : pr[i].event = IF i <= m THEN a[i] ELSE b[i - m]
    BY <1>1, <2>1
  <2> HIDE DEF a, b
  <2>5. EventsOf(pr) = join(a, b)
    BY <2>1, <2>4
  <2>6. QED
    BY <2>3, <2>5 DEF a, b, pr
<1>5. QED
  BY <1>3, <1>4

\* A bucket is a sequence of payloads, empty when no entry has its time.
LEMMA BucketType ==
  ASSUME NEW q, QueueOK(q, Event), NEW t
  PROVE  /\ InKeyOrder(At(q, t)) \in Seq(At(q, t))
         /\ BucketOf(q, t) \in Seq(Payloads)
         /\ BucketOf(q, t) = <<>> <=> At(q, t) = {}
<1> DEFINE s == InKeyOrder(At(q, t))
<1>1. At(q, t) \in SUBSET q.entries
  BY DEF At
<1>2. Keyed(At(q, t)) /\ Cardinality(At(q, t)) \in Nat
  BY <1>1, QueueIsKeyed
<1>3. s \in Seq(At(q, t)) /\ Len(s) = Cardinality(At(q, t))
  BY <1>2, InKeyOrderIs
<1>4. \A e \in At(q, t) : e.event.payload \in Payloads
  BY DEF At, QueueOK, EntrySet, Event
<1>5. Cardinality(At(q, t)) = 0 <=> At(q, t) = {}
  BY <1>2, FS_EmptySet DEF Keyed
<1>6. BucketOf(q, t) = PayloadsOf(s)
  BY DEF BucketOf
<1> HIDE DEF s
<1>7. PayloadsOf(s) \in Seq(Payloads) /\ Len(PayloadsOf(s)) = Len(s)
  BY <1>3, <1>4 DEF PayloadsOf
<1>8. BucketOf(q, t) = <<>> <=> Len(PayloadsOf(s)) = 0
  BY <1>6, <1>7
<1>9. QED
  BY <1>3, <1>5, <1>6, <1>7, <1>8 DEF s

\* The order of one entry more, or one less, at one end.
LEMMA BucketOfOne ==
  ASSUME NEW e, Keyed({e})
  PROVE  /\ PayloadsOf(InKeyOrder({e})) = <<e.event.payload>>
         /\ EventsOf(InKeyOrder({e})) = <<e.event>>
<1>1. InKeyOrder({e}) = <<e>>
  BY InKeyOrderOne
<1>2. Len(<<e>>) = 1 /\ <<e>>[1] = e
  OBVIOUS
<1>3. \A x : [i \in 1..1 |-> x] = <<x>>
  OBVIOUS
<1>4. /\ PayloadsOf(<<e>>) = [i \in 1..1 |-> e.event.payload]
      /\ EventsOf(<<e>>) = [i \in 1..1 |-> e.event]
  BY <1>2 DEF PayloadsOf, EventsOf
<1>5. QED
  BY <1>1, <1>3, <1>4

\* push adds to the back of one bucket.
LEMMA PushOnBucket ==
  ASSUME NEW q, QueueOK(q, Event), NEW ev \in Event, NEW t
  PROVE  /\ QueueOK(Push(q, ev), Event)
         /\ BucketOf(Push(q, ev), t) = IF t = ev.time THEN Append(BucketOf(q, t), ev.payload)
                                       ELSE BucketOf(q, t)
<1> DEFINE e == Entry(ev, q.counter)
           r == Push(q, ev)
<1>1. QueueOK(r, Event)
  <2>1. <<ev>> \in Seq(Event)
    OBVIOUS
  <2>2. QED
    BY <2>1, PushAllOK, PushIsPushAll
<1>2. r.entries = q.entries \cup {e} /\ e.event = ev /\ e.seq = q.counter
  BY DEF Push, Entry
<1> HIDE DEF e, r
<1>3. CASE t # ev.time
  <2>1. At(r, t) = At(q, t)
    BY <1>2, <1>3 DEF At
  <2>2. QED
    BY <1>1, <1>3, <2>1 DEF BucketOf, r
<1>4. CASE t = ev.time
  <2>1. /\ At(r, t) = At(q, t) \cup {e}
        /\ At(q, t) \in SUBSET At(r, t) /\ {e} \in SUBSET At(r, t)
        /\ At(r, t) \in SUBSET r.entries
    BY <1>2, <1>4 DEF At
  <2>2. Keyed(At(r, t)) /\ Keyed({e}) /\ Keyed(At(q, t))
    BY <1>1, <2>1, QueueIsKeyed, KeyedPart
  <2>3. \A a \in At(q, t), b \in {e} : Earlier(a, b)
    BY <1>2, <1>4 DEF At, Earlier, QueueOK, EntrySet
  <2>4. InKeyOrder(At(r, t)) = InKeyOrder(At(q, t)) \o InKeyOrder({e})
    BY <2>1, <2>2, <2>3, InKeyOrderJoin, ZenonT(40)
  <2>5. InKeyOrder(At(q, t)) \in Seq(r.entries) /\ InKeyOrder({e}) \in Seq(r.entries)
    <3>1. InKeyOrder(At(q, t)) \in Seq(At(q, t)) /\ InKeyOrder({e}) \in Seq({e})
      BY <2>2, InKeyOrderIs
    <3>2. At(q, t) \subseteq r.entries /\ {e} \subseteq r.entries
      BY <2>1
    <3>3. QED
      BY <3>1, <3>2
  <2>6. BucketOf(r, t) = BucketOf(q, t) \o PayloadsOf(InKeyOrder({e}))
    BY <2>4, <2>5, ReadingJoins DEF BucketOf
  <2>7. PayloadsOf(InKeyOrder({e})) = <<ev.payload>>
    BY <1>2, <2>2, BucketOfOne
  <2>8. BucketOf(q, t) \in Seq(Payloads) /\ ev.payload \in Payloads
    BY BucketType DEF Event
  <2> DEFINE b == BucketOf(q, t)
             x == ev.payload
  <2> HIDE DEF b, x
  <2>9. b \o <<x>> = Append(b, x)
    BY <2>8 DEF b, x
  <2>10. QED
    BY <1>1, <1>4, <2>6, <2>7, <2>9 DEF b, x, r
<1>5. QED
  BY <1>3, <1>4

\* pop removes the head of one bucket.
LEMMA PopOnBucket ==
  ASSUME NEW q, QueueOK(q, Event), NEW e, IsFirst(e, q), NEW t
  PROVE  BucketOf(q, t) = IF t = e.event.time
                          THEN <<e.event.payload>> \o BucketOf(Without(q, {e}), t)
                          ELSE BucketOf(Without(q, {e}), t)
<1> DEFINE r == Without(q, {e})
<1>1. r.entries = q.entries \ {e} /\ e \in q.entries
  BY DEF Without, IsFirst
<1> HIDE DEF r
<1>2. CASE t # e.event.time
  <2>1. At(r, t) = At(q, t)
    BY <1>1, <1>2 DEF At
  <2>2. QED
    BY <1>2, <2>1 DEF BucketOf, r
<1>3. CASE t = e.event.time
  <2>1. /\ At(q, t) = {e} \cup At(r, t)
        /\ At(r, t) \in SUBSET At(q, t) /\ {e} \in SUBSET At(q, t)
        /\ At(q, t) \in SUBSET q.entries
    BY <1>1, <1>3 DEF At
  <2>2. Keyed(At(q, t)) /\ Keyed({e}) /\ Keyed(At(r, t))
    BY <2>1, QueueIsKeyed, KeyedPart
  <2>3. \A a \in {e}, b \in At(r, t) : Earlier(a, b)
    BY <1>1 DEF At, IsFirst
  <2>4. InKeyOrder(At(q, t)) = InKeyOrder({e}) \o InKeyOrder(At(r, t))
    BY <2>1, <2>2, <2>3, InKeyOrderJoin
  <2>5. InKeyOrder(At(r, t)) \in Seq(q.entries) /\ InKeyOrder({e}) \in Seq(q.entries)
    <3>1. InKeyOrder(At(r, t)) \in Seq(At(r, t)) /\ InKeyOrder({e}) \in Seq({e})
      BY <2>2, InKeyOrderIs
    <3>2. At(r, t) \subseteq q.entries /\ {e} \subseteq q.entries
      BY <2>1
    <3>3. QED
      BY <3>1, <3>2
  <2>6. BucketOf(q, t) = PayloadsOf(InKeyOrder({e})) \o BucketOf(r, t)
    BY <2>4, <2>5, ReadingJoins DEF BucketOf
  <2>7. PayloadsOf(InKeyOrder({e})) = <<e.event.payload>>
    BY <2>2, BucketOfOne
  <2>8. QED
    BY <1>3, <2>6, <2>7 DEF r
<1>4. QED
  BY <1>2, <1>3

\* What TimeBuckets returns up to an instant.
Drained(b, target) ==
  LET due[t \in 0..MaxTime] ==
        (IF t = 0 THEN <<>> ELSE due[t - 1])
          \o [i \in 1..Len(b[t]) |-> [time |-> t, payload |-> b[t][i]]]
  IN  due[target]

\* drain_until leaves the later buckets and returns the earlier ones, bucket
\* after bucket: what pops one by one in key order is the concatenation.
LEMMA DrainOnBuckets ==
  ASSUME NEW q, QueueOK(q, Event), NEW target \in 0..MaxTime,
         NEW b, b = [t \in 0..MaxTime |-> BucketOf(q, t)]
  PROVE  EventsOf(InKeyOrder(DueBy(q, target))) = Drained(b, target)
<1> DEFINE part(t) == [i \in 1..Len(b[t]) |-> [time |-> t, payload |-> b[t][i]]]
           step(f, t) == (IF t = 0 THEN <<>> ELSE f[t - 1]) \o part(t)
           done(t) == EventsOf(InKeyOrder(DueBy(q, t)))
           g == [t \in 0..MaxTime |-> done(t)]
           due == CHOOSE f : f = [t \in 0..MaxTime |-> step(f, t)]
<1>1. \A t \in 0..MaxTime : t \in Nat /\ (t # 0 => t - 1 \in 0..MaxTime)
  BY QueueBounds
<1>2. \A e \in q.entries : e.event = [time |-> e.event.time, payload |-> e.event.payload]
  BY DEF QueueOK, EntrySet, Event
<1>2a. \A e \in q.entries : e.event.time \in Nat
  BY QueueBounds DEF QueueOK, EntrySet, Event
<1>3. ASSUME NEW t \in 0..MaxTime
      PROVE  part(t) = EventsOf(InKeyOrder(At(q, t)))
  <2> DEFINE s == InKeyOrder(At(q, t))
  <2>1. s \in Seq(At(q, t))
    BY BucketType
  <2>2. b[t] = PayloadsOf(s)
    BY DEF BucketOf
  <2> HIDE DEF s
  <2>3. Len(s) \in Nat /\ \A i \in 1..Len(s) : s[i] \in At(q, t)
    BY <2>1
  <2>4. \A i \in 1..Len(s) : s[i].event = [time |-> t, payload |-> s[i].event.payload]
    BY <1>2, <2>3 DEF At
  <2>5. Len(b[t]) = Len(s) /\ \A i \in 1..Len(s) : b[t][i] = s[i].event.payload
    BY <2>2, <2>3 DEF PayloadsOf
  <2>6. part(t) = [i \in 1..Len(s) |-> s[i].event]
    BY <2>4, <2>5
  <2>7. QED
    BY <2>6 DEF EventsOf, s
<1> HIDE DEF part
<1>4. ASSUME NEW t \in 0..MaxTime
      PROVE  done(t) = step(g, t)
  <2>1. At(q, t) \in SUBSET DueBy(q, t) /\ DueBy(q, t) \in SUBSET q.entries
    BY <1>1 DEF At, DueBy
  <2>2. Keyed(DueBy(q, t))
    BY <2>1, QueueIsKeyed
  <2>3. CASE t = 0
    <3>1. DueBy(q, t) = At(q, t)
      BY <1>2a, <2>3 DEF At, DueBy
    <3>2. done(t) = part(t)
      BY <1>3, <3>1
    <3>3. \A s : <<>> \o [i \in 1..Len(s) |-> s[i].event] = [i \in 1..Len(s) |-> s[i].event]
      OBVIOUS
    <3>4. <<>> \o part(t) = part(t)
      BY <1>3, <3>3 DEF EventsOf
    <3>5. QED
      BY <2>3, <3>2, <3>4
  <2>4. CASE t # 0
    <3> DEFINE u == t - 1
    <3>1. u \in 0..MaxTime /\ u \in Nat /\ t \in Nat /\ u + 1 = t
      BY <1>1, <2>4
    <3> HIDE DEF u
    <3>2. /\ DueBy(q, u) \in SUBSET DueBy(q, t)
          /\ DueBy(q, u) \cup At(q, t) = DueBy(q, t)
      BY <1>2a, <3>1 DEF At, DueBy
    <3>3. \A x \in DueBy(q, u), y \in At(q, t) : Earlier(x, y)
      BY <1>2a, <3>1 DEF At, DueBy, Earlier
    <3>4. InKeyOrder(DueBy(q, t)) = InKeyOrder(DueBy(q, u)) \o InKeyOrder(At(q, t))
      BY <2>1, <2>2, <3>2, <3>3, InKeyOrderJoin
    <3>5. /\ InKeyOrder(DueBy(q, u)) \in Seq(DueBy(q, t))
          /\ InKeyOrder(At(q, t)) \in Seq(DueBy(q, t))
      <4>1. Keyed(DueBy(q, u)) /\ Keyed(At(q, t))
        BY <2>1, <2>2, <3>2, KeyedPart
      <4>2. /\ InKeyOrder(DueBy(q, u)) \in Seq(DueBy(q, u))
            /\ InKeyOrder(At(q, t)) \in Seq(At(q, t))
        BY <4>1, InKeyOrderIs
      <4>3. QED
        BY <2>1, <3>2, <4>2
    <3>6. done(t) = done(u) \o part(t)
      <4>1. EventsOf(InKeyOrder(DueBy(q, u)) \o InKeyOrder(At(q, t)))
              = EventsOf(InKeyOrder(DueBy(q, u))) \o EventsOf(InKeyOrder(At(q, t)))
        BY <3>5, ReadingJoins
      <4>2. part(t) = EventsOf(InKeyOrder(At(q, t)))
        BY <1>3
      <4>3. QED
        BY <3>4, <4>1, <4>2
    <3>7. g[u] = done(u)
      BY <3>1
    <3>8. step(g, t) = g[u] \o part(t)
      BY <2>4 DEF u
    <3>9. QED
      BY <3>6, <3>7, <3>8
  <2>5. QED
    BY <2>3, <2>4
<1>5. g = [t \in 0..MaxTime |-> step(g, t)]
  BY <1>4
<1> HIDE DEF g, done
<1>6. due = [t \in 0..MaxTime |-> step(due, t)]
  BY <1>5
<1> HIDE DEF due
<1> DEFINE Same == {t \in Nat : t \in 0..MaxTime => due[t] = g[t]}
<1>7. 0 \in Same
  BY <1>5, <1>6
<1>8. ASSUME NEW t \in Nat, t \in Same  PROVE t + 1 \in Same
  <2> SUFFICES ASSUME t + 1 \in 0..MaxTime  PROVE due[t + 1] = g[t + 1]
    OBVIOUS
  <2>1. t \in 0..MaxTime /\ t + 1 # 0 /\ (t + 1) - 1 = t
    BY QueueBounds
  <2>2. due[t] = g[t]
    BY <1>8, <2>1
  <2>3. due[t + 1] = due[t] \o part(t + 1) /\ g[t + 1] = g[t] \o part(t + 1)
    BY <1>5, <1>6, <2>1
  <2>4. QED
    BY <2>2, <2>3
<1> HIDE DEF Same
<1>9. Nat \subseteq Same
  BY <1>7, <1>8, Inductive
<1>10. due[target] = g[target]
  BY <1>9 DEF Same
<1>11. g[target] = EventsOf(InKeyOrder(DueBy(q, target)))
  BY DEF g, done
<1>12. QED
  BY <1>10, <1>11 DEF Drained, due, part

-------------------------------------------------------------------------------
\* The queue is well formed, so no insert replaces a pending event.
QueueTyped == QueueOK(queue, Event)

\* The queue is always one: entries with distinct numbers below the counter.
LEMMA QueueStaysTyped == Spec => []QueueTyped
<1>1. Init => QueueTyped
  BY FS_EmptySet DEF Init, QueueTyped, QueueOK, EmptyQueue
<1>2. QueueTyped /\ [Next]_vars => QueueTyped'
  <2> SUFFICES ASSUME QueueTyped, [Next]_vars  PROVE QueueTyped'
    OBVIOUS
  <2> USE DEF QueueTyped
  <2>1. ASSUME NEW ev \in Event, PushEvent(ev)  PROVE QueueTyped'
    BY <2>1, PushOnBucket DEF PushEvent
  <2>2. ASSUME NEW T, queue' = Without(queue, T)  PROVE QueueTyped'
    <3>1. queue' = [entries |-> queue.entries \ T, counter |-> queue.counter]
      BY <2>2 DEF Without
    <3>2. IsFiniteSet(queue.entries \ T)
      BY FS_Difference DEF QueueOK
    <3>3. QED
      BY <3>1, <3>2 DEF QueueOK
  <2>3. CASE Pop
    BY <2>2, <2>3 DEF Pop
  <2>4. CASE PopEmpty \/ UNCHANGED vars
    BY <2>4 DEF PopEmpty, vars
  <2>5. CASE \E t \in 0..MaxTime : DrainUntil(t)
    BY <2>2, <2>5 DEF DrainUntil
  <2>6. CASE Clear
    BY <2>6, FS_EmptySet DEF Clear, QueueOK, EmptyQueue
  <2>7. QED
    BY <2>1, <2>3, <2>4, <2>5, <2>6 DEF Next
<1>3. QED
  BY <1>1, <1>2, PTL DEF Spec

buckets == [t \in 0..MaxTime |-> BucketOf(queue, t)]

\* The earliest bucket of the abstract queue is the one of the first entry.
LEMMA FirstIsEarliest ==
  ASSUME QueueTyped, NEW e, IsFirst(e, queue)
  PROVE  /\ e.event.time \in {t \in 0..MaxTime : buckets[t] # <<>>}
         /\ (CHOOSE t \in {t \in 0..MaxTime : buckets[t] # <<>>} :
               \A u \in {v \in 0..MaxTime : buckets[v] # <<>>} : t <= u) = e.event.time
<1> DEFINE W == {t \in 0..MaxTime : buckets[t] # <<>>}
           m == e.event.time
<1>1. /\ e \in queue.entries /\ \A f \in queue.entries : m <= f.event.time
      /\ \A f \in queue.entries : f.event.time \in 0..MaxTime
  <2>1. \A f \in queue.entries : f.event.time \in 0..MaxTime
    BY DEF QueueTyped, QueueOK, EntrySet, Event
  <2>2. e \in queue.entries /\ \A f \in queue.entries \ {e} : Earlier(e, f)
    BY DEF IsFirst
  <2>3. QED
    BY <2>1, <2>2, QueueBounds DEF Earlier
<1>2. ASSUME NEW t \in 0..MaxTime
      PROVE  t \in W <=> \E f \in queue.entries : f.event.time = t
  <2>1. buckets[t] = <<>> <=> At(queue, t) = {}
    BY BucketType DEF buckets, QueueTyped
  <2>2. QED
    BY <2>1 DEF At
<1> HIDE DEF W, m
<1>3. m \in 0..MaxTime /\ m \in W
  BY <1>1, <1>2 DEF m
<1>4. \A u \in W : u \in 0..MaxTime /\ m <= u
  BY <1>1, <1>2 DEF W
<1>5. \A t \in W : (\A u \in W : t <= u) => t = m
  BY <1>3, <1>4, QueueBounds
<1>6. (CHOOSE t \in W : \A u \in W : t <= u) = m
  BY <1>3, <1>4, <1>5
<1>7. QED
  BY <1>3, <1>6 DEF W, m

\* Every operation of the queue is the operation of that name on the buckets.
THEOREM QueueIsBuckets == Spec => ImplementsBuckets
<1>1. Init => Buckets!BucketInit
  <2> SUFFICES ASSUME Init  PROVE Buckets!BucketInit
    OBVIOUS
  <2>1. ASSUME NEW t \in 0..MaxTime  PROVE BucketAt(t) = <<>>
    <3>1. {e \in queue.entries : e.event.time = t} = {}
      BY DEF Init, EmptyQueue
    <3>2. InKeyOrder({e \in queue.entries : e.event.time = t}) = <<>>
      BY <3>1, InKeyOrderNone
    <3>3. \A r : r = <<>> => [i \in 1..Len(r) |-> r[i].event.payload] = <<>>
      OBVIOUS
    <3>4. QED
      BY <3>2, <3>3 DEF BucketAt
  <2>2. QED
    BY <2>1 DEF Init, Buckets!BucketInit, Buckets!Times
<1>2. QueueTyped /\ QueueTyped' /\ [Next]_vars => [Buckets!BucketNext]_(Buckets!bucketVars)
  <2> SUFFICES ASSUME QueueTyped, QueueTyped', [Next]_vars
               PROVE  [Buckets!BucketNext]_(Buckets!bucketVars)
    OBVIOUS
  <2> DEFINE b == [t \in 0..MaxTime |-> BucketAt(t)]
  <2>1. b = buckets /\ b' = buckets'
    BY DEF BucketAt, buckets, BucketOf, PayloadsOf, At
  <2>2. /\ buckets = [t \in 0..MaxTime |-> BucketOf(queue, t)]
        /\ buckets' = [t \in 0..MaxTime |-> BucketOf(queue', t)]
    BY DEF buckets, BucketOf, PayloadsOf, At
  <2>3. ASSUME NEW ev \in Event, PushEvent(ev)
        PROVE  Buckets!BucketNext
    <3>1. ev.time \in 0..MaxTime /\ ev.payload \in Payloads
      BY DEF Event
    <3>2. queue' = Push(queue, ev) /\ returned' = <<>>
      BY <2>3 DEF PushEvent
    <3>3. \A t \in 0..MaxTime : BucketOf(queue', t) = IF t = ev.time
                                                     THEN Append(BucketOf(queue, t), ev.payload)
                                                     ELSE BucketOf(queue, t)
      BY <3>2, PushOnBucket DEF QueueTyped
    <3>4. b' = [b EXCEPT ![ev.time] = Append(@, ev.payload)]
      <4> DEFINE old == b
                 new == b'
      <4>1. /\ old = [t \in 0..MaxTime |-> BucketOf(queue, t)]
            /\ new = [t \in 0..MaxTime |-> BucketOf(queue', t)]
        BY <2>1, <2>2
      <4> HIDE DEF old, new
      <4>2. /\ old = [t \in 0..MaxTime |-> old[t]] /\ new = [t \in 0..MaxTime |-> new[t]]
            /\ \A t \in 0..MaxTime : old[t] = BucketOf(queue, t) /\ new[t] = BucketOf(queue', t)
        BY <4>1
      <4>3. \A t \in 0..MaxTime : new[t] = IF t = ev.time THEN Append(old[t], ev.payload) ELSE old[t]
        BY <3>3, <4>2
      <4>4. new = [old EXCEPT ![ev.time] = Append(@, ev.payload)]
        BY <3>1, <4>2, <4>3
      <4>5. QED
        BY <4>4 DEF old, new
    <3>5. Buckets!Put(ev.time, ev.payload)
      BY <3>2, <3>4 DEF Buckets!Put
    <3>6. QED
      BY <3>1, <3>5 DEF Buckets!BucketNext, Buckets!Times
  <2>4. CASE Pop
    <3>1. PICK e \in queue.entries : /\ IsFirst(e, queue)
                                     /\ queue' = Without(queue, {e})
                                     /\ returned' = <<e.event>>
      BY <2>4 DEF Pop
    <3> DEFINE m == e.event.time
    <3>2. m \in Buckets!Waiting /\ Buckets!Earliest = m
      BY <2>1, <3>1, FirstIsEarliest DEF Buckets!Waiting, Buckets!Earliest, Buckets!Times
    <3>3. m \in 0..MaxTime /\ e.event = [time |-> m, payload |-> e.event.payload]
      BY DEF QueueTyped, QueueOK, EntrySet, Event
    <3>4. \A t \in 0..MaxTime :
            BucketOf(queue, t) = IF t = m THEN <<e.event.payload>> \o BucketOf(queue', t)
                                 ELSE BucketOf(queue', t)
      BY <3>1, PopOnBucket DEF QueueTyped
    <3>5. BucketOf(queue', m) \in Seq(Payloads) /\ e.event.payload \in Payloads
      <4>1. e.event.payload \in Payloads
        BY DEF QueueTyped, QueueOK, EntrySet, Event
      <4>2. QueueOK(queue', Event)
        BY DEF QueueTyped
      <4>3. QED
        BY <4>1, <4>2, BucketType
    <3>6. \A c \in Seq(Payloads), x \in Payloads :
            Head(<<x>> \o c) = x /\ Tail(<<x>> \o c) = c
      OBVIOUS
    <3> HIDE DEF m, b
    <3>7. b[m] = <<e.event.payload>> \o BucketOf(queue', m)
      BY <2>1, <2>2, <3>3, <3>4
    <3>8. Head(b[m]) = e.event.payload /\ Tail(b[m]) = BucketOf(queue', m)
      BY <3>5, <3>6, <3>7
    <3>9. b' = [b EXCEPT ![m] = Tail(@)]
      BY <2>1, <2>2, <3>3, <3>4, <3>8
    <3>10. returned' = <<[time |-> m, payload |-> Head(b[m])]>>
      BY <3>1, <3>3, <3>8
    <3>11. Buckets!Take
      BY <3>2, <3>9, <3>10 DEF Buckets!Take, b
    <3>12. QED
      BY <3>11 DEF Buckets!BucketNext
  <2>5. CASE PopEmpty
    <3>1. queue.entries = {} /\ returned' = <<>> /\ queue' = queue
      BY <2>5 DEF PopEmpty
    <3>2. b' = b
      BY <2>1, <2>2, <3>1
    <3>3. \A t \in 0..MaxTime : b[t] = <<>>
      <4>1. \A t \in 0..MaxTime : At(queue, t) = {}
        BY <3>1 DEF At
      <4>2. QED
        BY <2>1, <2>2, <4>1, BucketType DEF QueueTyped
    <3>4. Buckets!TakeNothing
      BY <3>1, <3>2, <3>3 DEF Buckets!TakeNothing, Buckets!Waiting, Buckets!Times
    <3>5. QED
      BY <3>4 DEF Buckets!BucketNext
  <2>6. ASSUME NEW target \in 0..MaxTime, DrainUntil(target)
        PROVE  Buckets!BucketNext
    <3>1. /\ queue' = Without(queue, DueBy(queue, target))
          /\ returned' = EventsOf(InKeyOrder(DueBy(queue, target)))
      BY <2>6 DEF DrainUntil, EventsOf
    <3>2. \A t \in 0..MaxTime : BucketOf(queue', t) = IF t <= target THEN <<>>
                                                     ELSE BucketOf(queue, t)
      <4>1. \A t \in 0..MaxTime : At(queue', t) = IF t <= target THEN {} ELSE At(queue, t)
        BY <3>1 DEF At, Without, DueBy
      <4>2. QueueOK(queue', Event)
        BY DEF QueueTyped
      <4>3. QED
        BY <4>1, <4>2, BucketType DEF BucketOf
    <3>3. b' = [t \in 0..MaxTime |-> IF t <= target THEN <<>> ELSE b[t]]
      BY <2>1, <2>2, <3>2
    <3>4. Buckets!TakeUntil(target)
      <4>1. b = [t \in 0..MaxTime |-> BucketOf(queue, t)]
        BY <2>1, <2>2
      <4> HIDE DEF b
      <4>2. returned' = Drained(b, target)
        BY <3>1, <4>1, DrainOnBuckets DEF QueueTyped
      <4>3. QED
        BY <3>3, <4>2 DEF Drained, Buckets!TakeUntil, Buckets!Times, b
    <3>5. QED
      BY <3>4 DEF Buckets!BucketNext, Buckets!Times
  <2>7. CASE Clear
    <3>1. queue' = EmptyQueue /\ returned' = <<>>
      BY <2>7 DEF Clear
    <3>2. \A t \in 0..MaxTime : BucketOf(queue', t) = <<>>
      <4>1. \A t \in 0..MaxTime : At(queue', t) = {}
        BY <3>1 DEF At, EmptyQueue
      <4>2. QueueOK(queue', Event)
        BY DEF QueueTyped
      <4>3. QED
        BY <4>1, <4>2, BucketType
    <3>3. b' = [t \in 0..MaxTime |-> <<>>]
      BY <2>1, <2>2, <3>2
    <3>4. QED
      BY <3>1, <3>3 DEF Buckets!Forget, Buckets!BucketNext, Buckets!Times
  <2>8. CASE UNCHANGED vars
    <3>1. queue' = queue /\ returned' = returned
      BY <2>8 DEF vars
    <3>2. b' = b
      BY <2>1, <2>2, <3>1
    <3>3. QED
      BY <3>1, <3>2 DEF Buckets!bucketVars
  <2>9. QED
    BY <2>3, <2>4, <2>5, <2>6, <2>7, <2>8 DEF Next
<1>3. QED
  BY <1>1, <1>2, QueueStaysTyped, PTL DEF Spec, ImplementsBuckets, Buckets!BucketSpec
===============================================================================

------------------------ MODULE TopologicalOrderProofs ------------------------
(***************************************************************************)
(* compute_execution_order is right for every list of dependencies over    *)
(* every finite set of nodes.                                              *)
(***************************************************************************)
EXTENDS TopologicalOrder, CollectionProofs

\* The places at which a sequence has n.
Places(s, n) == {i \in DOMAIN s : s[i] = n}

\* The dependencies of n on what is not done.
Open(list, n, finished) ==
  {i \in Relevant(list, Nodes) : list[i].from = n /\ list[i].to \notin finished}

Served == order \o queue

\* The types of the algorithm's state.
TypeOK ==
  /\ sorting \in BOOLEAN
  /\ deps \in Seq(Dependency)
  /\ in_degree \in [Nodes -> Nat]
  /\ queue \in Seq(Nodes) /\ relieving \in Seq(Nodes) /\ order \in Seq(Nodes)

\* What is served comes after everything it depends on.
Respected ==
  \A i \in DOMAIN Served :
    Prerequisites(Served[i], deps, Nodes) \subseteq {Served[j] : j \in 1..(i - 1)}

\* CountsAreExact in these terms.
Counted ==
  /\ \A n \in Nodes : in_degree[n] = Cardinality(Places(relieving, n))
                                       + Cardinality(Open(deps, n, Members(order)))
  /\ Members(Served) = {n \in Nodes : in_degree[n] = 0}
  /\ Len(Served) = Cardinality(Members(Served))

-------------------------------------------------------------------------------
(* Sequences and counts. *)

\* The members of a sequence are finitely many.
LEMMA MembersFinite ==
  ASSUME NEW S, NEW s \in Seq(S)
  PROVE  /\ DOMAIN s = 1..Len(s) /\ Len(s) \in Nat
         /\ IsFiniteSet(1..Len(s)) /\ Cardinality(1..Len(s)) = Len(s)
         /\ s \in Surjection(1..Len(s), Members(s))
         /\ IsFiniteSet(Members(s)) /\ Members(s) \subseteq S
<1> DEFINE all == 1..Len(s)
<1>1. DOMAIN s = all /\ Len(s) \in Nat /\ s \in [all -> S]
  OBVIOUS
<1>2. IsFiniteSet(all) /\ Cardinality(all) = Len(s)
  <2>1. 1 \in Int /\ Len(s) \in Int
    BY <1>1
  <2>2. IsFiniteSet(1..Len(s)) /\ Cardinality(1..Len(s)) = IF 1 > Len(s) THEN 0 ELSE Len(s) - 1 + 1
    BY <2>1, FS_Interval, Zenon
  <2>3. QED
    BY <1>1, <2>2
<1>3. s \in Surjection(all, Members(s))
  <2> HIDE DEF all
  <2>1. QED
    BY <1>1 DEF Members, Surjection
<1>4. IsFiniteSet(Members(s))
  BY <1>2, <1>3, FS_Surjection
<1>5. Members(s) \subseteq S
  BY <1>1 DEF Members
<1>6. QED
  BY <1>1, <1>2, <1>3, <1>4, <1>5

\* A sequence as long as it has members has none of them twice.
LEMMA NoneTwice ==
  ASSUME NEW S, NEW s \in Seq(S), Len(s) = Cardinality(Members(s))
  PROVE  \A i, j \in 1..Len(s) : s[i] = s[j] => i = j
<1> DEFINE all == 1..Len(s)
<1>1. IsFiniteSet(all) /\ Cardinality(all) = Cardinality(Members(s)) /\ s \in Surjection(all, Members(s))
  BY MembersFinite
<1>2. s \in Injection(all, Members(s))
  <2> HIDE DEF all
  <2>1. QED
    BY <1>1, FS_SurjSameCardinalityImpliesInj
<1>3. QED
  BY <1>2 DEF Injection, IsInjective

\* An order of the queue's first nodes has each once.
LEMMA EnumerationOf ==
  ASSUME NEW S, IsFiniteSet(S), NEW s \in Enumerations(S)
  PROVE  s \in Seq(S) /\ Members(s) = S /\ Len(s) = Cardinality(S)
<1>1. Cardinality(S) \in Nat
  BY FS_CardinalityType
<1>2. s \in [1..Cardinality(S) -> S] /\ Members(s) = S
  BY DEF Enumerations
<1>3. QED
  BY <1>1, <1>2

\* A new element of a sequence is a new member.
LEMMA AppendMember ==
  ASSUME NEW S, NEW s \in Seq(S), NEW x \in S
  PROVE  /\ Append(s, x) \in Seq(S) /\ Len(Append(s, x)) = Len(s) + 1
         /\ Members(Append(s, x)) = Members(s) \cup {x}
         /\ Append(s, x)[Len(s) + 1] = x
         /\ \A i \in 1..Len(s) : Append(s, x)[i] = s[i]
<1> DEFINE n == Len(s)
           u == Append(s, x)
<1>1. /\ n \in Nat /\ DOMAIN s = 1..n /\ u \in Seq(S) /\ DOMAIN u = 1..(n + 1) /\ Len(u) = n + 1
      /\ u[n + 1] = x /\ \A i \in 1..n : u[i] = s[i]
  OBVIOUS
<1> HIDE DEF n, u
<1>2. \A i : i \in 1..(n + 1) <=> i \in 1..n \/ i = n + 1
  BY <1>1
<1>3. Members(u) = Members(s) \cup {x}
  BY <1>1, <1>2 DEF Members
<1>4. QED
  BY <1>1, <1>3 DEF n, u

\* The first element is at one place more than in the rest.
LEMMA PlacesOfTail ==
  ASSUME NEW S, NEW s \in Seq(S), s # <<>>, NEW n
  PROVE  /\ IsFiniteSet(Places(s, n)) /\ IsFiniteSet(Places(Tail(s), n))
         /\ Cardinality(Places(s, n)) =
              Cardinality(Places(Tail(s), n)) + (IF Head(s) = n THEN 1 ELSE 0)
<1> DEFINE k == Len(s)
           t == Tail(s)
           P == Places(s, n)
           Q == Places(t, n)
           R == P \ {1}
           shift == [i \in Q |-> i + 1]
<1>1. /\ k \in Nat /\ k >= 1 /\ DOMAIN s = 1..k /\ t \in Seq(S) /\ DOMAIN t = 1..(k - 1)
      /\ \A i \in 1..(k - 1) : t[i] = s[i + 1]
  OBVIOUS
<1>2. Head(s) = s[1]
  OBVIOUS
<1> HIDE DEF k, t
<1>3. IsFiniteSet(P) /\ IsFiniteSet(Q)
  <2>1. IsFiniteSet(1..k) /\ IsFiniteSet(1..(k - 1))
    <3>1. 1 \in Int /\ k \in Int /\ k - 1 \in Int
      BY <1>1
    <3>2. QED
      BY <3>1, FS_Interval, Zenon
  <2>2. P \in SUBSET (1..k) /\ Q \in SUBSET (1..(k - 1))
    BY <1>1 DEF Places
  <2> DEFINE all == 1..k
             less == 1..(k - 1)
  <2>3. IsFiniteSet(all) /\ IsFiniteSet(less) /\ P \in SUBSET all /\ Q \in SUBSET less
    BY <2>1, <2>2
  <2> HIDE DEF all, less, P, Q
  <2>4. QED
    BY <2>3, FS_Subset
<1>4. shift \in Bijection(Q, R)
  <2>1. \A i \in Q : i \in 1..(k - 1) /\ i + 1 \in R
    BY <1>1 DEF Places
  <2>2. \A j \in R : j - 1 \in Q /\ (j - 1) + 1 = j
    BY <1>1 DEF Places
  <2>3. \A i, j \in Q : i + 1 = j + 1 => i = j
    BY <2>1
  <2> HIDE DEF Q, R
  <2>4. shift \in [Q -> R] /\ \A i \in Q : shift[i] = i + 1
    BY <2>1
  <2>5. \A j \in R : \E i \in Q : shift[i] = j
    BY <2>2
  <2>6. \A i, j \in Q : shift[i] = shift[j] => i = j
    BY <2>3
  <2> HIDE DEF shift
  <2>7. QED
    BY <2>4, <2>5, <2>6 DEF Bijection, Injection, Surjection, IsInjective
<1>5. Cardinality(R) = Cardinality(Q)
  <2>1. ExistsBijection(Q, R)
    BY <1>4 DEF ExistsBijection
  <2> HIDE DEF Q, R
  <2>2. QED
    BY <1>3, <2>1, FS_Bijection
<1>6. Cardinality(R) = IF 1 \in P THEN Cardinality(P) - 1 ELSE Cardinality(P)
  <2> HIDE DEF P
  <2>1. QED
    BY <1>3, FS_RemoveElement
<1>7. 1 \in P <=> Head(s) = n
  BY <1>1, <1>2 DEF Places
<1>8. Cardinality(P) \in Nat
  BY <1>3, FS_CardinalityType
<1> HIDE DEF P, Q, R
<1>9. Cardinality(P) = Cardinality(Q) + (IF Head(s) = n THEN 1 ELSE 0)
  BY <1>5, <1>6, <1>7, <1>8
<1>10. QED
  BY <1>3, <1>9 DEF P, Q, t

-------------------------------------------------------------------------------
(* Dependencies. *)

\* There are finitely many dependencies.
LEMMA OpenFinite ==
  ASSUME NEW list \in Seq(Dependency), NEW n, NEW finished
  PROVE  /\ Relevant(list, Nodes) \subseteq 1..Len(list) /\ IsFiniteSet(Relevant(list, Nodes))
         /\ IsFiniteSet(Open(list, n, finished)) /\ Cardinality(Open(list, n, finished)) \in Nat
<1> DEFINE all == 1..Len(list)
           rel == Relevant(list, Nodes)
           open == Open(list, n, finished)
<1>1. rel \in SUBSET all /\ open \in SUBSET rel
  BY DEF Relevant, Open
<1>2. IsFiniteSet(all)
  BY MembersFinite
<1> HIDE DEF all, rel, open
<1>3. IsFiniteSet(rel)
  BY <1>1, <1>2, FS_Subset
<1>4. IsFiniteSet(open) /\ Cardinality(open) \in Nat
  BY <1>1, <1>3, FS_Subset, FS_CardinalityType
<1>5. QED
  BY <1>1, <1>3, <1>4 DEF all, rel, open

\* The nodes to relieve when h is taken are nodes, each as often as it depends on h.
LEMMA AdjacentCounts ==
  ASSUME NEW list \in Seq(Dependency), NEW h \in Nodes
  PROVE  /\ Adjacent(h, list) \in Seq(Nodes)
         /\ \A n \in Nodes :
              Cardinality(Places(Adjacent(h, list), n)) =
                Cardinality({i \in Relevant(list, Nodes) : list[i].from = n /\ list[i].to = h})
<1> DEFINE I == {i \in Relevant(list, Nodes) : list[i].to = h}
           T == {d \in Dependency : d.from \in Nodes}
           edges == Kept(list, I)
           made == [i \in DOMAIN edges |-> edges[i].from]
<1>1. Len(list) \in Nat /\ \A i \in 1..Len(list) : i \in I => list[i] \in T
  BY DEF Relevant
<1>2. I \subseteq 1..Len(list) /\ DOMAIN list = 1..Len(list)
  BY DEF Relevant
<1> HIDE DEF I, T
<1>3. edges \in Seq(T)
  BY <1>1, KeptType
<1>4. Adjacent(h, list) = made
  BY DEF Adjacent, I
<1>5. ASSUME NEW n \in Nodes
      PROVE  Cardinality(Places(made, n)) =
               Cardinality({i \in Relevant(list, Nodes) : list[i].from = n /\ list[i].to = h})
  <2> DEFINE V == {d \in Dependency : d.from = n}
  <2>1. Cardinality(Spots(edges, V)) = Cardinality(I \cap Spots(list, V))
    BY KeptCount
  <2> HIDE DEF edges
  <2>2. Places(made, n) = Spots(edges, V)
    <3>1. DOMAIN edges = 1..Len(edges) /\ \A k \in 1..Len(edges) : edges[k] \in Dependency
      BY <1>3 DEF T
    <3>2. QED
      BY <3>1 DEF Places, Spots
  <2>3. I \cap Spots(list, V)
          = {i \in Relevant(list, Nodes) : list[i].from = n /\ list[i].to = h}
    <3>1. \A i \in I : list[i] \in Dependency
      BY <1>1, <1>2 DEF T
    <3>2. QED
      BY <1>2, <3>1 DEF I, Spots
  <2>4. QED
    BY <2>1, <2>2, <2>3
<1>6. made \in Seq(Nodes)
  <2> HIDE DEF edges
  <2>1. Len(edges) \in Nat /\ DOMAIN edges = 1..Len(edges) /\ \A k \in 1..Len(edges) : edges[k].from \in Nodes
    BY <1>3 DEF T
  <2>2. QED
    BY <2>1
<1>7. QED
  BY <1>4, <1>5, <1>6

-------------------------------------------------------------------------------
(* The steps of the algorithm. *)

\* What holds of the algorithm's state.
SortInv == TypeOK /\ (sorting => Counted /\ Respected)

\* The queue comes after the order.
LEMMA Concatenation ==
  ASSUME NEW S, NEW s \in Seq(S), NEW t \in Seq(S)
  PROVE  /\ s \o t \in Seq(S) /\ Len(s \o t) = Len(s) + Len(t)
         /\ Members(s \o t) = Members(s) \cup Members(t)
         /\ \A i \in 1..Len(s) : (s \o t)[i] = s[i]
         /\ \A i \in 1..Len(t) : (s \o t)[Len(s) + i] = t[i]
<1> DEFINE m == Len(s)
           n == Len(t)
           u == s \o t
<1>1. /\ m \in Nat /\ n \in Nat /\ DOMAIN s = 1..m /\ DOMAIN t = 1..n /\ DOMAIN u = 1..(m + n)
      /\ u \in Seq(S) /\ Len(u) = m + n
      /\ \A i \in 1..m : u[i] = s[i]
      /\ \A i \in 1..n : u[m + i] = t[i]
  OBVIOUS
<1> HIDE DEF m, n, u
<1>2. Members(u) \subseteq Members(s) \cup Members(t)
  <2>1. SUFFICES ASSUME NEW i \in 1..(m + n)  PROVE u[i] \in Members(s) \cup Members(t)
    BY <1>1 DEF Members
  <2>2. CASE i \in 1..m
    BY <1>1, <2>2 DEF Members
  <2>3. CASE i \notin 1..m
    <3>1. i - m \in 1..n /\ m + (i - m) = i
      BY <1>1, <2>3
    <3>2. u[i] = t[i - m]
      BY <1>1, <3>1
    <3>3. QED
      BY <1>1, <3>1, <3>2 DEF Members
  <2>4. QED
    BY <2>2, <2>3
<1>3. Members(s) \subseteq Members(u)
  <2>1. \A i \in 1..m : i \in 1..(m + n)
    BY <1>1
  <2>2. QED
    BY <1>1, <2>1 DEF Members
<1>4. Members(t) \subseteq Members(u)
  <2>1. \A i \in 1..n : m + i \in 1..(m + n)
    BY <1>1
  <2>2. QED
    BY <1>1, <2>1 DEF Members
<1>5. Members(u) = Members(s) \cup Members(t)
  BY <1>2, <1>3, <1>4
<1>6. QED
  BY <1>1, <1>5 DEF m, n, u

\* A list of dependencies is a sequence.
LEMMA ListsAreSequences ==
  ASSUME OrderAssumption, NEW list \in DependencyLists
  PROVE  list \in Seq(Dependency)
<1>1. PICK n \in 0..MaxDeps : list \in [1..n -> Dependency]
  BY DEF DependencyLists
<1>2. n \in Nat
  BY DEF OrderAssumption
<1>3. QED
  BY <1>1, <1>2

\* The call begins with the nodes that depend on nothing.
LEMMA BeginKeepsInv ==
  ASSUME OrderAssumption, SortInv, NEW list \in DependencyLists, BeginSort(list)
  PROVE  SortInv'
<1> DEFINE free == {n \in Nodes : Degree(n, list) = 0}
<1>1. list \in Seq(Dependency) /\ list = deps'
  BY ListsAreSequences DEF BeginSort
<1>2. /\ sorting' = TRUE /\ in_degree' = [n \in Nodes |-> Degree(n, list)]
      /\ relieving' = <<>> /\ order' = <<>> /\ queue' \in Enumerations(free)
  BY DEF BeginSort
<1>3. IsFiniteSet(free)
  <2>1. free \in SUBSET Nodes /\ IsFiniteSet(Nodes)
    BY DEF OrderAssumption
  <2> HIDE DEF free
  <2>2. QED
    BY <2>1, FS_Subset
<1>4. queue' \in Seq(free) /\ Members(queue') = free /\ Len(queue') = Cardinality(free)
  <2> HIDE DEF free
  <2>1. QED
    BY <1>2, <1>3, EnumerationOf
<1>5. Members(<<>>) = {} /\ \A n : Places(<<>>, n) = {}
  BY DEF Members, Places
<1>6. \A n \in Nodes : Degree(n, list) = Cardinality(Open(list, n, {})) /\ Degree(n, list) \in Nat
  <2>1. SUFFICES ASSUME NEW n \in Nodes
                 PROVE  Degree(n, list) = Cardinality(Open(list, n, {})) /\ Degree(n, list) \in Nat
    OBVIOUS
  <2>2. Open(list, n, {}) = {i \in Relevant(list, Nodes) : list[i].from = n}
    BY DEF Open
  <2>3. QED
    BY <1>1, <2>2, OpenFinite DEF Degree
<1>7. queue' \in Seq(Nodes)
  BY <1>4
<1>8. Served' = queue'
  BY <1>2, <1>7 DEF Served
<1>9. TypeOK'
  BY <1>1, <1>2, <1>6, <1>7 DEF TypeOK
<1>10. Counted'
  <2>1. \A n \in Nodes : in_degree'[n] = Cardinality(Places(relieving', n))
                             + Cardinality(Open(deps', n, Members(order')))
    <3>1. SUFFICES ASSUME NEW n \in Nodes
                   PROVE  in_degree'[n] = Cardinality(Places(relieving', n))
                             + Cardinality(Open(deps', n, Members(order')))
      OBVIOUS
    <3>2. Cardinality(Places(relieving', n)) = 0
      BY <1>2, <1>5, FS_EmptySet
    <3>3. in_degree'[n] = Cardinality(Open(list, n, {})) /\ in_degree'[n] \in Nat
      BY <1>2, <1>6
    <3>4. Open(deps', n, Members(order')) = Open(list, n, {})
      BY <1>1, <1>2, <1>5
    <3>5. QED
      BY <3>2, <3>3, <3>4
  <2>2. free = {n \in Nodes : in_degree'[n] = 0}
    BY <1>2
  <2>3. QED
    BY <1>4, <1>8, <2>1, <2>2 DEF Counted
<1>11. Respected'
  <2>1. SUFFICES ASSUME NEW i \in DOMAIN queue'
                 PROVE  Prerequisites(queue'[i], list, Nodes) = {}
    BY <1>1, <1>8 DEF Respected
  <2>2. queue'[i] \in free
    BY <1>4
  <2>3. Cardinality(Open(list, queue'[i], {})) = 0 /\ IsFiniteSet(Open(list, queue'[i], {}))
    BY <1>1, <1>6, <2>2, OpenFinite
  <2>4. Open(list, queue'[i], {}) = {}
    BY <2>3, FS_EmptySet
  <2>5. QED
    BY <2>4 DEF Open, Prerequisites
<1>12. QED
  BY <1>9, <1>10, <1>11 DEF SortInv

\* Taking a node passes its edges from the dependencies still open to the list of
\* nodes to relieve.
LEMMA TakeKeepsInv ==
  ASSUME OrderAssumption, SortInv, TakeNode
  PROVE  SortInv'
<1> DEFINE h == Head(queue)
           M == Members(order)
           rest == Tail(queue)
<1>1. /\ deps \in Seq(Dependency) /\ in_degree \in [Nodes -> Nat]
      /\ queue \in Seq(Nodes) /\ order \in Seq(Nodes)
      /\ sorting /\ relieving = <<>> /\ queue # <<>> /\ Counted /\ Respected
  BY DEF SortInv, TypeOK, TakeNode
<1>2. /\ order' = Append(order, h) /\ queue' = rest /\ relieving' = Adjacent(h, deps)
      /\ deps' = deps /\ sorting' = sorting /\ in_degree' = in_degree
  BY DEF TakeNode
<1>3. h \in Nodes /\ rest \in Seq(Nodes) /\ queue = <<h>> \o rest /\ h = queue[1] /\ Len(queue) >= 1
  BY <1>1
<1> HIDE DEF h, rest
<1>4. order' \in Seq(Nodes) /\ Members(order') = M \cup {h}
  BY <1>1, <1>2, <1>3, AppendMember
<1>5. Served' = Served
  <2>1. Append(order, h) \o rest = order \o (<<h>> \o rest)
    BY <1>1, <1>3
  <2>2. QED
    BY <1>2, <1>3, <2>1 DEF Served
<1>6. h \notin M
  <2>1. /\ Served \in Seq(Nodes) /\ Len(Served) = Len(order) + Len(queue)
        /\ \A i \in 1..Len(order) : Served[i] = order[i]
        /\ \A i \in 1..Len(queue) : Served[Len(order) + i] = queue[i]
    BY <1>1, Concatenation DEF Served
  <2>2. \A i, j \in 1..Len(Served) : Served[i] = Served[j] => i = j
    BY <1>1, <2>1, NoneTwice DEF Counted
  <2> DEFINE m == Len(order)
             n == Len(queue)
  <2>3. m \in Nat /\ n \in Nat /\ n >= 1 /\ DOMAIN order = 1..m
    BY <1>1, <1>3
  <2>4. Served[m + 1] = h
    BY <1>3, <2>1, <2>3
  <2> HIDE DEF m, n
  <2>5. SUFFICES ASSUME NEW i \in 1..m, order[i] = h  PROVE FALSE
    BY <2>3 DEF Members
  <2>6. Served[i] = h /\ i \in 1..Len(Served) /\ m + 1 \in 1..Len(Served)
    BY <2>1, <2>3, <2>5 DEF m, n
  <2>7. i = m + 1
    BY <2>2, <2>4, <2>6
  <2>8. QED
    BY <2>3, <2>7
<1>7. /\ relieving' \in Seq(Nodes)
      /\ \A n \in Nodes : Cardinality(Places(relieving', n)) =
           Cardinality({i \in Relevant(deps, Nodes) : deps[i].from = n /\ deps[i].to = h})
  BY <1>1, <1>2, <1>3, AdjacentCounts
<1>8. ASSUME NEW n \in Nodes
      PROVE  in_degree[n] = Cardinality(Places(relieving', n))
                              + Cardinality(Open(deps, n, M \cup {h}))
  <2> DEFINE A == {i \in Relevant(deps, Nodes) : deps[i].from = n /\ deps[i].to = h}
             B == Open(deps, n, M \cup {h})
  <2>1. A \cup B = Open(deps, n, M) /\ A \cap B = {}
    BY <1>6 DEF Open
  <2>2. A \in SUBSET Open(deps, n, M)
    BY <2>1
  <2>3. IsFiniteSet(A) /\ IsFiniteSet(B) /\ Cardinality(A) \in Nat /\ Cardinality(B) \in Nat
    <3>1. IsFiniteSet(Open(deps, n, M)) /\ IsFiniteSet(B)
      BY <1>1, OpenFinite
    <3> HIDE DEF A, B
    <3>2. QED
      BY <2>2, <3>1, FS_Subset, FS_CardinalityType
  <2>4. Cardinality(Places(relieving, n)) = 0
    <3>1. Places(relieving, n) = {}
      BY <1>1 DEF Places
    <3>2. QED
      BY <3>1, FS_EmptySet
  <2>5. in_degree[n] = Cardinality(Places(relieving, n)) + Cardinality(Open(deps, n, M))
    BY <1>1 DEF Counted
  <2>6. Cardinality(Places(relieving', n)) = Cardinality(A)
    BY <1>7
  <2> HIDE DEF A, B
  <2>7. Cardinality(A \cup B) = Cardinality(A) + Cardinality(B)
    <3>1. Cardinality(A \cup B) = Cardinality(A) + Cardinality(B) - Cardinality(A \cap B)
      BY <2>3, FS_Union
    <3>2. Cardinality(A \cap B) = 0
      BY <2>1, FS_EmptySet
    <3>3. QED
      BY <2>3, <3>1, <3>2
  <2>8. in_degree[n] = Cardinality(A) + Cardinality(B)
    <3>1. Cardinality(Open(deps, n, M)) = Cardinality(A) + Cardinality(B)
      BY <2>1, <2>7
    <3> DEFINE a == Cardinality(A)
               b == Cardinality(B)
               c == Cardinality(Open(deps, n, M))
               e == Cardinality(Places(relieving, n))
    <3>2. a \in Nat /\ b \in Nat /\ c = a + b /\ e = 0 /\ in_degree[n] = e + c
      BY <2>3, <2>4, <2>5, <3>1
    <3> HIDE DEF a, b, c, e
    <3>3. in_degree[n] = a + b
      BY <3>2
    <3>4. QED
      BY <3>3 DEF a, b
  <2>9. QED
    BY <2>6, <2>8 DEF B
<1>9. TypeOK'
  BY <1>1, <1>2, <1>3, <1>4, <1>7 DEF TypeOK
<1>10. Counted'
  <2>1. \A n \in Nodes : in_degree'[n] = Cardinality(Places(relieving', n))
                             + Cardinality(Open(deps', n, Members(order')))
    BY <1>2, <1>4, <1>8
  <2>2. Members(Served') = {n \in Nodes : in_degree'[n] = 0} /\ Len(Served') = Cardinality(Members(Served'))
    BY <1>1, <1>2, <1>5 DEF Counted
  <2>3. QED
    BY <2>1, <2>2 DEF Counted
<1>11. Respected'
  BY <1>1, <1>2, <1>5 DEF Respected
<1>12. QED
  BY <1>9, <1>10, <1>11 DEF SortInv

\* Relieving an edge takes one from a count that was not zero; when it becomes zero, all
\* that the node depends on is ordered.
LEMMA RelieveKeepsInv ==
  ASSUME OrderAssumption, SortInv, RelieveEdge
  PROVE  SortInv'
<1> DEFINE next == Head(relieving)
           d == in_degree[next]
<1>1. /\ deps \in Seq(Dependency) /\ in_degree \in [Nodes -> Nat]
      /\ queue \in Seq(Nodes) /\ order \in Seq(Nodes) /\ relieving \in Seq(Nodes)
      /\ sorting /\ relieving # <<>> /\ Counted /\ Respected
  BY DEF SortInv, TypeOK, RelieveEdge
<1>2. /\ relieving' = Tail(relieving) /\ in_degree' = [in_degree EXCEPT ![next] = d - 1]
      /\ queue' = IF d = 1 THEN Append(queue, next) ELSE queue
      /\ order' = order /\ deps' = deps /\ sorting' = sorting
  BY DEF RelieveEdge
<1>3. next \in Nodes /\ relieving' \in Seq(Nodes)
  BY <1>1, <1>2
<1> HIDE DEF next, d
<1>4. \A n \in Nodes :
        /\ Cardinality(Places(relieving', n)) \in Nat
        /\ Cardinality(Places(relieving, n)) =
              Cardinality(Places(relieving', n)) + (IF next = n THEN 1 ELSE 0)
  BY <1>1, <1>2, PlacesOfTail, FS_CardinalityType DEF next
<1>5. \A n \in Nodes :
        /\ in_degree[n] = Cardinality(Places(relieving, n)) + Cardinality(Open(deps, n, Members(order)))
        /\ Cardinality(Open(deps, n, Members(order))) \in Nat
  BY <1>1, OpenFinite DEF Counted
<1>6. \A n \in Nodes : in_degree[n] = Cardinality(Places(relieving', n))
        + (IF next = n THEN 1 ELSE 0) + Cardinality(Open(deps, n, Members(order)))
  BY <1>4, <1>5
<1>7. d \in Nat /\ d >= 1
  BY <1>1, <1>3, <1>4, <1>5, <1>6 DEF d
<1>8. in_degree' \in [Nodes -> Nat]
  BY <1>1, <1>2, <1>3, <1>7
<1>9. \A n \in Nodes : in_degree'[n] = Cardinality(Places(relieving', n))
                           + Cardinality(Open(deps', n, Members(order')))
  <2>1. SUFFICES ASSUME NEW n \in Nodes
                 PROVE  in_degree'[n] = Cardinality(Places(relieving', n))
                                          + Cardinality(Open(deps, n, Members(order)))
    BY <1>2
  <2> DEFINE a == Cardinality(Places(relieving', n))
             b == Cardinality(Open(deps, n, Members(order)))
  <2>2. a \in Nat /\ b \in Nat /\ in_degree[n] = a + (IF next = n THEN 1 ELSE 0) + b
    BY <1>4, <1>5, <1>6
  <2> HIDE DEF a, b
  <2>3. in_degree'[n] = IF n = next THEN in_degree[n] - 1 ELSE in_degree[n]
    BY <1>1, <1>2 DEF d
  <2>4. in_degree'[n] = a + b
    BY <2>2, <2>3
  <2>5. QED
    BY <2>4 DEF a, b
<1>10. queue' \in Seq(Nodes)
  BY <1>1, <1>2, <1>3
<1>11. TypeOK'
  BY <1>1, <1>2, <1>3, <1>8, <1>10 DEF TypeOK
<1>12. /\ Served \in Seq(Nodes) /\ Members(Served) = Members(order) \cup Members(queue)
       /\ Members(Served) = {n \in Nodes : in_degree[n] = 0} /\ Len(Served) = Cardinality(Members(Served))
       /\ IsFiniteSet(Members(Served))
  <2>1. Served \in Seq(Nodes) /\ Members(Served) = Members(order) \cup Members(queue)
    BY <1>1, Concatenation DEF Served
  <2>2. Members(Served) = {n \in Nodes : in_degree[n] = 0} /\ Len(Served) = Cardinality(Members(Served))
    BY <1>1 DEF Counted
  <2>3. IsFiniteSet(Members(Served))
    BY <2>1, MembersFinite
  <2>4. QED
    BY <2>1, <2>2, <2>3
<1>13. CASE d # 1
  <2>1. Served' = Served
    BY <1>2, <1>13 DEF Served
  <2>2. {n \in Nodes : in_degree'[n] = 0} = {n \in Nodes : in_degree[n] = 0}
    BY <1>1, <1>2, <1>7, <1>13 DEF d
  <2>3. Counted'
    BY <1>9, <1>12, <2>1, <2>2 DEF Counted
  <2>4. Respected'
    BY <1>1, <1>2, <2>1 DEF Respected
  <2>5. QED
    BY <1>11, <2>3, <2>4 DEF SortInv
<1>14. CASE d = 1
  <2>1. Served' = Append(Served, next)
    BY <1>1, <1>2, <1>3, <1>14, SMTT(30) DEF Served
  <2>2. next \notin Members(Served)
    BY <1>12, <1>14 DEF d
  <2>3. {n \in Nodes : in_degree'[n] = 0} = {n \in Nodes : in_degree[n] = 0} \cup {next}
    BY <1>1, <1>2, <1>3, <1>14 DEF d
  <2>4. /\ Members(Served') = Members(Served) \cup {next} /\ Len(Served') = Len(Served) + 1
        /\ Served' \in Seq(Nodes) /\ Served'[Len(Served) + 1] = next
        /\ \A i \in 1..Len(Served) : Served'[i] = Served[i]
    <3> DEFINE u == Served
               v == Served'
    <3>1. u \in Seq(Nodes) /\ v = Append(u, next)
      BY <1>12, <2>1
    <3> HIDE DEF u, v
    <3>2. /\ v \in Seq(Nodes) /\ Len(v) = Len(u) + 1 /\ Members(v) = Members(u) \cup {next}
          /\ v[Len(u) + 1] = next /\ \A i \in 1..Len(u) : v[i] = u[i]
      BY <1>3, <3>1, AppendMember
    <3>3. QED
      BY <3>2 DEF u, v
  <2>5. Len(Served') = Cardinality(Members(Served'))
    <3>1. Cardinality(Members(Served) \cup {next}) = Cardinality(Members(Served)) + 1
      BY <1>12, <2>2, FS_AddElement
    <3>2. Cardinality(Members(Served')) = Cardinality(Members(Served) \cup {next})
      BY <2>4
    <3>3. Len(Served') = Len(Served) + 1 /\ Len(Served) = Cardinality(Members(Served))
      BY <1>12, <2>4
    <3>4. QED
      BY <3>1, <3>2, <3>3
  <2>6. Counted'
    BY <1>9, <1>12, <2>3, <2>4, <2>5 DEF Counted
  <2>7. Prerequisites(next, deps, Nodes) \subseteq Members(Served)
    <3>1. in_degree'[next] = 0 /\ next \in Nodes
      BY <1>3, <2>3
    <3>2. Cardinality(Open(deps, next, Members(order))) = 0
      BY <1>2, <1>4, <1>5, <1>9, <3>1
    <3>3. Open(deps, next, Members(order)) = {}
      BY <1>1, <3>2, OpenFinite, FS_EmptySet
    <3>4. QED
      BY <1>12, <3>3 DEF Open, Prerequisites
  <2> DEFINE m == Len(Served)
  <2>8. m \in Nat /\ DOMAIN Served = 1..m /\ DOMAIN (Served') = 1..(m + 1)
    <3> DEFINE u == Served
               v == Served'
    <3>1. u \in Seq(Nodes) /\ v \in Seq(Nodes) /\ Len(v) = Len(u) + 1
      BY <1>12, <2>4
    <3> HIDE DEF u, v
    <3>2. Len(u) \in Nat /\ DOMAIN u = 1..Len(u) /\ DOMAIN v = 1..(Len(u) + 1)
      BY <3>1
    <3>3. QED
      BY <3>2 DEF u, v
  <2> HIDE DEF m
  <2>9. Respected'
    <3>1. SUFFICES ASSUME NEW i \in 1..(m + 1)
                   PROVE  Prerequisites(Served'[i], deps, Nodes) \subseteq {Served'[j] : j \in 1..(i - 1)}
      BY <1>2, <2>8 DEF Respected
    <3>2. CASE i \in 1..m
      <4>1. Prerequisites(Served[i], deps, Nodes) \subseteq {Served[j] : j \in 1..(i - 1)}
        BY <1>1, <2>8, <3>2 DEF Respected
      <4>2. \A j \in 1..(i - 1) : j \in 1..m
        BY <2>8, <3>2
      <4>3. \A j \in 1..(i - 1) : Served'[j] = Served[j]
        BY <2>4, <4>2 DEF m
      <4>4. Served'[i] = Served[i]
        BY <2>4, <3>2 DEF m
      <4>5. QED
        BY <4>1, <4>3, <4>4
    <3>3. CASE i = m + 1
      <4>1. Served'[i] = next /\ i - 1 = m
        BY <2>4, <2>8, <3>3 DEF m
      <4>2. Members(Served) = {Served'[j] : j \in 1..m}
        BY <2>4, <2>8 DEF Members, m
      <4>3. QED
        BY <2>7, <4>1, <4>2
    <3>4. QED
      BY <2>8, <3>2, <3>3
  <2>10. QED
    BY <1>11, <2>6, <2>9 DEF SortInv
<1>15. QED
  BY <1>13, <1>14

\* The end of the call forgets what it worked on.
LEMMA FinishKeepsInv ==
  ASSUME SortInv, FinishSort
  PROVE  SortInv'
<1>1. /\ sorting' = FALSE /\ deps' = <<>> /\ order' = <<>> /\ in_degree' = [n \in Nodes |-> 0]
      /\ queue' = queue /\ relieving' = relieving
  BY DEF FinishSort
<1>2. TypeOK'
  <2>1. sorting' \in BOOLEAN
    BY <1>1
  <2>2. in_degree' \in [Nodes -> Nat] /\ deps' \in Seq(Dependency) /\ order' \in Seq(Nodes)
    BY <1>1
  <2>3. queue' \in Seq(Nodes) /\ relieving' \in Seq(Nodes)
    BY <1>1 DEF SortInv, TypeOK
  <2>4. QED
    BY <2>1, <2>2, <2>3 DEF TypeOK
<1>3. QED
  BY <1>1, <1>2 DEF SortInv

\* The algorithm keeps what holds of its state.
LEMMA SortInvHolds ==
  ASSUME OrderAssumption
  PROVE  Spec => []SortInv
<1>1. Init => SortInv
  <2>1. Init => TypeOK
    <3>1. <<>> \in Seq(Nodes) /\ <<>> \in Seq(Dependency) /\ [n \in Nodes |-> 0] \in [Nodes -> Nat]
      OBVIOUS
    <3>2. QED
      BY <3>1 DEF Init, TypeOK
  <2>2. QED
    BY <2>1 DEF Init, SortInv
<1>2. SortInv /\ [Next]_vars => SortInv'
  <2>1. SUFFICES ASSUME SortInv, [Next]_vars  PROVE SortInv'
    OBVIOUS
  <2>2. ASSUME NEW list \in DependencyLists, BeginSort(list)  PROVE SortInv'
    BY <2>1, <2>2, BeginKeepsInv
  <2>3. CASE TakeNode
    BY <2>1, <2>3, TakeKeepsInv
  <2>4. CASE RelieveEdge
    BY <2>1, <2>4, RelieveKeepsInv
  <2>5. CASE FinishSort
    BY <2>1, <2>5, FinishKeepsInv
  <2>6. CASE UNCHANGED vars
    <3>1. TypeOK'
      BY <2>1, <2>6 DEF vars, SortInv, TypeOK
    <3>2. /\ Served' = Served /\ sorting' = sorting /\ deps' = deps /\ in_degree' = in_degree
          /\ relieving' = relieving /\ order' = order
      BY <2>6 DEF vars, Served
    <3>3. sorting => Counted' /\ Respected'
      BY <2>1, <3>2 DEF SortInv, Counted, Respected
    <3>4. QED
      BY <3>1, <3>2, <3>3 DEF SortInv
  <2>7. QED
    BY <2>1, <2>2, <2>3, <2>4, <2>5, <2>6 DEF Next
<1>3. QED
  BY <1>1, <1>2, PTL DEF Spec

\* The counts of compute_execution_order (src/executor/tick.rs:107-159) are exact while it
\* runs, for every list of dependencies over every finite set of nodes: no in_degree is
\* decremented below zero, and no node is queued early, twice or never.
THEOREM DegreesAreExact == Spec => []CountsAreExact
<1>1. OrderAssumption /\ SortInv => CountsAreExact
  BY DEF SortInv, Counted, Places, Open, Served, CountsAreExact
<1>2. QED
  BY <1>1, SortInvHolds, OrderAssumption, PTL

\* An order that has every node after what it depends on leaves no cycle.
LEMMA OrderedIsAcyclic ==
  ASSUME NEW s \in Seq(Nodes), NEW list, IsTopologicalOrder(s, list, Nodes)
  PROVE  ~Cyclic(list, Nodes)
<1>1. SUFFICES ASSUME NEW S \in (SUBSET Nodes) \ {{}},
                      \A n \in S : Prerequisites(n, list, Nodes) \cap S # {}
               PROVE  FALSE
  BY DEF Cyclic
<1> DEFINE k == Len(s)
           Good == {n \in Nat : \A i \in 1..k : i <= n => s[i] \notin S}
<1>2. k \in Nat /\ DOMAIN s = 1..k
  OBVIOUS
<1> HIDE DEF k
<1>3. Members(s) = Nodes
  BY DEF IsTopologicalOrder, Members
<1>4. 0 \in Good
  BY <1>2
<1>5. ASSUME NEW n \in Nat, n \in Good  PROVE n + 1 \in Good
  <2>1. SUFFICES ASSUME n + 1 \in 1..k, s[n + 1] \in S  PROVE FALSE
    BY <1>5
  <2>2. PICK p \in S : p \in Prerequisites(s[n + 1], list, Nodes)
    BY <1>1, <2>1
  <2>3. PICK j \in 1..n : p = s[j]
    <3>1. Prerequisites(s[n + 1], list, Nodes) \subseteq {s[j] : j \in 1..((n + 1) - 1)}
      BY <1>2, <2>1 DEF IsTopologicalOrder
    <3>2. (n + 1) - 1 = n
      OBVIOUS
    <3>3. QED
      BY <2>2, <3>1, <3>2
  <2>4. j \in 1..k /\ j <= n
    BY <1>2, <2>1, <2>3
  <2>5. QED
    BY <1>5, <2>2, <2>3, <2>4
<1> HIDE DEF Good
<1>6. Nat \subseteq Good
  BY <1>4, <1>5, Inductive
<1>7. PICK n \in S : n \in Nodes
  BY <1>1
<1>8. PICK i \in 1..k : s[i] = n
  BY <1>2, <1>3, <1>7 DEF Members
<1>9. QED
  BY <1>2, <1>6, <1>7, <1>8 DEF Good

\* compute_execution_order (src/executor/tick.rs:103-159) succeeds exactly when some order
\* exists, for every list of dependencies over every finite set of nodes; then the order it
\* installs respects every dependency, and otherwise the old one stays.
THEOREM SortIsCorrect == Spec => SortsOrRejects
<1> DEFINE Outcome ==
      IF Cyclic(deps, Nodes)
      THEN result' = "err" /\ execution_order' = execution_order
      ELSE result' = "ok" /\ IsTopologicalOrder(execution_order', deps, Nodes)
<1>1. ASSUME SortInv, [Next]_vars, sorting, ~sorting'  PROVE Outcome
  <2>1. FinishSort
    BY <1>1 DEF Next, vars, BeginSort, TakeNode, RelieveEdge
  <2>2. /\ deps \in Seq(Dependency) /\ order \in Seq(Nodes) /\ Counted /\ Respected
        /\ queue = <<>> /\ relieving = <<>> /\ IsFiniteSet(Nodes)
    BY <1>1, <2>1, OrderAssumption DEF SortInv, TypeOK, FinishSort, OrderAssumption
  <2>3. Served = order
    BY <2>2 DEF Served
  <2> DEFINE M == Members(order)
  <2>4. /\ M \in SUBSET Nodes /\ M = {n \in Nodes : in_degree[n] = 0} /\ Len(order) = Cardinality(M)
        /\ \A n \in Nodes : in_degree[n] = Cardinality(Places(relieving, n)) + Cardinality(Open(deps, n, M))
    BY <2>2, <2>3 DEF Counted
  <2> HIDE DEF M
  <2>5. CASE Len(order) = Cardinality(Nodes)
    <3>1. M = Nodes
      BY <2>2, <2>4, <2>5, FS_Subset
    <3>2. IsTopologicalOrder(order, deps, Nodes)
      BY <2>2, <2>3, <2>5, <3>1 DEF M, Members, Respected, IsTopologicalOrder
    <3>3. ~Cyclic(deps, Nodes)
      BY <2>2, <3>2, OrderedIsAcyclic
    <3>4. result' = "ok" /\ execution_order' = order
      BY <2>1, <2>5 DEF FinishSort
    <3>5. QED
      BY <3>2, <3>3, <3>4
  <2>6. CASE Len(order) # Cardinality(Nodes)
    <3> DEFINE S == Nodes \ M
    <3>1. S \in (SUBSET Nodes) \ {{}}
      BY <2>4, <2>6
    <3>2. ASSUME NEW n \in S  PROVE Prerequisites(n, deps, Nodes) \cap S # {}
      <4>1. in_degree[n] # 0
        BY <2>4
      <4>2. Places(relieving, n) = {}
        BY <2>2 DEF Places
      <4>3. Cardinality(Places(relieving, n)) = 0
        BY <4>2, FS_EmptySet
      <4>4. Cardinality(Open(deps, n, M)) # 0
        BY <2>4, <4>1, <4>3
      <4>5. Open(deps, n, M) # {}
        BY <4>4, FS_EmptySet
      <4>6. PICK i \in Relevant(deps, Nodes) : deps[i].from = n /\ deps[i].to \notin M
        BY <4>5 DEF Open
      <4>7. deps[i].to \in Nodes
        BY <4>6 DEF Relevant
      <4>8. deps[i].to \in Prerequisites(n, deps, Nodes)
        BY <4>6 DEF Prerequisites
      <4>9. QED
        BY <4>6, <4>7, <4>8
    <3>3. Cyclic(deps, Nodes)
      BY <3>1, <3>2 DEF Cyclic
    <3>4. result' = "err" /\ execution_order' = execution_order
      BY <2>1, <2>6 DEF FinishSort
    <3>5. QED
      BY <3>3, <3>4
  <2>7. QED
    BY <2>5, <2>6
<1>2. SortInv /\ [Next]_vars => [sorting /\ ~sorting' => Outcome]_vars
  BY <1>1
<1>3. QED
  BY <1>2, SortInvHolds, OrderAssumption, PTL DEF Spec, SortsOrRejects
=============================================================================

--------------------------- MODULE CollectionProofs ---------------------------
(***************************************************************************)
(* Lemmas about the operators on sequences and functions that the modules  *)
(* share: Kept of Subsequences, and FlattenSeq, SetToSeqs and              *)
(* SumFunctionOnSet of the community modules.  The recursions are          *)
(* functions, so induction is on the members of a set.  The last section   *)
(* is about the priority queue of EventQueue, which three modules use.     *)
(***************************************************************************)
EXTENDS Subsequences, EventQueue, SequencesExt, FiniteSetTheorems, FunctionTheorems,
        WellFoundedInduction, TLAPS

\* Induction on the natural numbers, for the members of a set.
LEMMA Inductive ==
  ASSUME NEW S, 0 \in S, \A n \in Nat : n \in S => n + 1 \in S
  PROVE  Nat \subseteq S
<1> SUFFICES ASSUME Nat \ S # {}  PROVE FALSE
  OBVIOUS
<1> DEFINE R == OpToRel(<, Nat)
<1>1. IsWellFoundedOn(R, Nat)
  BY NatLessThanWellFounded
<1>2. \A x, y \in Nat : x < y => <<x, y>> \in R
  BY DEF OpToRel
<1> HIDE DEF R
<1>3. Nat \ S \in SUBSET Nat /\ Nat \ S # {}
  OBVIOUS
<1>4. PICK m \in Nat \ S : \A y \in Nat \ S : ~(<<y, m>> \in R)
  BY <1>1, <1>3, WFMin, Zenon
<1>5. \A y \in Nat \ S : ~(y < m)
  BY <1>2, <1>4
<1>6. m # 0 /\ m - 1 \in Nat
  BY <1>4
<1>7. m - 1 \in S
  BY <1>5, <1>6
<1>8. QED
  BY <1>4, <1>6, <1>7

\* A recursion over a sequence has a solution: the function that Kept defines.
LEMMA KeptDef ==
  ASSUME NEW s, Len(s) \in Nat, NEW I
  PROVE  \E f : /\ f = [n \in 0..Len(s) |-> IF n = 0 THEN <<>>
                                            ELSE IF n \in I THEN Append(f[n - 1], s[n])
                                            ELSE f[n - 1]]
                /\ Kept(s, I) = f[Len(s)]
<1> DEFINE val(f, n) == IF n = 0 THEN <<>>
                        ELSE IF n \in I THEN Append(f[n - 1], s[n])
                        ELSE f[n - 1]
           step(f, k) == [n \in 0..k |-> val(f, n)]
           Good == {k \in Nat : \E f : f = step(f, k)}
<1>1. 0 \in Good
  <2> DEFINE f0 == [n \in 0..0 |-> <<>>]
  <2>1. f0 = step(f0, 0)
    <3>1. \A n \in 0..0 : n = 0
      OBVIOUS
    <3>2. QED
      BY <3>1
  <2>2. QED
    BY <2>1
<1>2. ASSUME NEW k \in Nat, k \in Good  PROVE k + 1 \in Good
  <2>1. PICK f : f = step(f, k)
    BY <1>2
  <2> DEFINE g == [n \in 0..(k + 1) |-> IF n \in 0..k THEN f[n] ELSE val(f, n)]
  <2>2. ASSUME NEW n \in 0..(k + 1)
        PROVE  g[n] = val(g, n)
    <3>1. n # 0 => n - 1 \in 0..k /\ g[n - 1] = f[n - 1]
      OBVIOUS
    <3>2. g[n] = val(f, n)
      <4>1. CASE n \in 0..k
        BY <2>1, <4>1
      <4>2. CASE n \notin 0..k
        BY <4>2
      <4>3. QED
        BY <4>1, <4>2
    <3>3. val(f, n) = val(g, n)
      <4> HIDE DEF g
      <4>1. QED
        BY <3>1
    <3>4. QED
      BY <3>2, <3>3
  <2>3. g = step(g, k + 1)
    <3>1. g = [n \in 0..(k + 1) |-> g[n]]
      OBVIOUS
    <3> HIDE DEF g
    <3>2. QED
      BY <2>2, <3>1
  <2>4. \E h : h = step(h, k + 1)
    <3> HIDE DEF g
    <3>1. QED
      BY <2>3
  <2>5. QED
    <3> HIDE DEF step
    <3>1. QED
      BY <2>4
<1>3. Len(s) \in Good
  <2> HIDE DEF Good
  <2>1. QED
    BY <1>1, <1>2, Inductive
<1>4. \E f : f = step(f, Len(s))
  BY <1>3
<1> DEFINE F == CHOOSE f : f = step(f, Len(s))
<1>5. F = step(F, Len(s))
  BY <1>4
<1>6. Kept(s, I) = F[Len(s)]
  BY DEF Kept
<1>7. QED
  <2> HIDE DEF F
  <2>1. QED
    BY <1>5, <1>6

\* What is kept of a sequence are elements at the positions named.
LEMMA KeptType ==
  ASSUME NEW s, Len(s) \in Nat, NEW I, NEW S, \A i \in 1..Len(s) : i \in I => s[i] \in S
  PROVE  Kept(s, I) \in Seq(S)
<1>1. PICK f : /\ f = [n \in 0..Len(s) |-> IF n = 0 THEN <<>>
                                           ELSE IF n \in I THEN Append(f[n - 1], s[n])
                                           ELSE f[n - 1]]
               /\ Kept(s, I) = f[Len(s)]
  BY KeptDef
<1> DEFINE Good == {n \in Nat : n <= Len(s) => f[n] \in Seq(S)}
<1>2. \A n \in 0..Len(s) : f[n] = IF n = 0 THEN <<>>
                                  ELSE IF n \in I THEN Append(f[n - 1], s[n])
                                  ELSE f[n - 1]
  BY <1>1
<1>3. 0 \in Good
  <2>1. f[0] = <<>>
    BY <1>2
  <2>2. <<>> \in Seq(S)
    OBVIOUS
  <2>3. QED
    BY <2>1, <2>2
<1>4. ASSUME NEW n \in Nat, n \in Good  PROVE n + 1 \in Good
  <2> SUFFICES ASSUME n + 1 <= Len(s)  PROVE f[n + 1] \in Seq(S)
    OBVIOUS
  <2>1. f[n] \in Seq(S)
    BY <1>4
  <2>2. f[n + 1] = IF n + 1 \in I THEN Append(f[n], s[n + 1]) ELSE f[n]
    BY <1>2
  <2>3. n + 1 \in I => s[n + 1] \in S
    OBVIOUS
  <2>4. QED
    BY <2>1, <2>2, <2>3
<1>5. Len(s) \in Good
  <2> HIDE DEF Good
  <2>1. QED
    BY <1>3, <1>4, Inductive
<1>6. QED
  BY <1>1, <1>5

\* The same for the function that FlattenSeq defines.
LEMMA FlattenDef ==
  ASSUME NEW s, Len(s) \in Nat
  PROVE  \E f : /\ f = [i \in 1..Len(s) |-> IF i = 1 THEN s[i] ELSE f[i - 1] \o s[i]]
                /\ FlattenSeq(s) = IF Len(s) = 0 THEN s ELSE f[Len(s)]
<1> DEFINE val(f, n) == IF n = 1 THEN s[n] ELSE f[n - 1] \o s[n]
           step(f, k) == [n \in 1..k |-> val(f, n)]
           Good == {k \in Nat : \E f : f = step(f, k)}
<1>1. 0 \in Good
  <2> DEFINE f0 == [n \in 1..0 |-> <<>>]
  <2>1. f0 = step(f0, 0)
    <3>1. \A n \in 1..0 : FALSE
      OBVIOUS
    <3>2. QED
      BY <3>1
  <2>2. QED
    BY <2>1
<1>2. ASSUME NEW k \in Nat, k \in Good  PROVE k + 1 \in Good
  <2>1. PICK f : f = step(f, k)
    BY <1>2
  <2> DEFINE g == [n \in 1..(k + 1) |-> IF n \in 1..k THEN f[n] ELSE val(f, n)]
  <2>2. ASSUME NEW n \in 1..(k + 1)
        PROVE  g[n] = val(g, n)
    <3>1. n # 1 => n - 1 \in 1..k /\ g[n - 1] = f[n - 1]
      OBVIOUS
    <3>2. g[n] = val(f, n)
      <4>1. CASE n \in 1..k
        BY <2>1, <4>1
      <4>2. CASE n \notin 1..k
        BY <4>2
      <4>3. QED
        BY <4>1, <4>2
    <3>3. val(f, n) = val(g, n)
      <4> HIDE DEF g
      <4>1. QED
        BY <3>1
    <3>4. QED
      BY <3>2, <3>3
  <2>3. g = step(g, k + 1)
    <3>1. g = [n \in 1..(k + 1) |-> g[n]]
      OBVIOUS
    <3> HIDE DEF g
    <3>2. QED
      BY <2>2, <3>1
  <2>4. \E h : h = step(h, k + 1)
    <3> HIDE DEF g
    <3>1. QED
      BY <2>3
  <2>5. QED
    <3> HIDE DEF step
    <3>1. QED
      BY <2>4
<1>3. Len(s) \in Good
  <2> HIDE DEF Good
  <2>1. QED
    BY <1>1, <1>2, Inductive
<1>4. \E f : f = step(f, Len(s))
  BY <1>3
<1> DEFINE F == CHOOSE f : f = step(f, Len(s))
<1>5. F = step(F, Len(s))
  BY <1>4
<1>6. FlattenSeq(s) = IF Len(s) = 0 THEN s ELSE F[Len(s)]
  BY DEF FlattenSeq
<1>7. QED
  <2> HIDE DEF F
  <2>1. QED
    BY <1>5, <1>6

\* A sequence of sequences over a set flattens to a sequence over that set.
LEMMA FlattenType ==
  ASSUME NEW S, NEW s \in Seq(Seq(S))
  PROVE  FlattenSeq(s) \in Seq(S)
<1>1. Len(s) \in Nat /\ \A i \in 1..Len(s) : s[i] \in Seq(S)
  OBVIOUS
<1>2. PICK f : /\ f = [i \in 1..Len(s) |-> IF i = 1 THEN s[i] ELSE f[i - 1] \o s[i]]
               /\ FlattenSeq(s) = IF Len(s) = 0 THEN s ELSE f[Len(s)]
  BY <1>1, FlattenDef
<1> DEFINE Good == {n \in Nat : n + 1 <= Len(s) => f[n + 1] \in Seq(S)}
<1>3. \A n \in 1..Len(s) : f[n] = IF n = 1 THEN s[n] ELSE f[n - 1] \o s[n]
  BY <1>2
<1>4. 0 \in Good
  BY <1>1, <1>3
<1>5. ASSUME NEW n \in Nat, n \in Good  PROVE n + 1 \in Good
  <2> SUFFICES ASSUME n + 2 <= Len(s)  PROVE f[n + 2] \in Seq(S)
    BY <1>1
  <2>1. f[n + 1] \in Seq(S)
    BY <1>1, <1>5
  <2>2. f[n + 2] = f[n + 1] \o s[n + 2]
    <3>1. n + 2 \in 1..Len(s) /\ n + 2 # 1 /\ (n + 2) - 1 = n + 1
      BY <1>1
    <3> DEFINE m == n + 2
    <3>2. m \in 1..Len(s) /\ m # 1 /\ m - 1 = n + 1
      BY <3>1
    <3> HIDE DEF m
    <3>3. f[m] = f[m - 1] \o s[m]
      BY <1>3, <3>2
    <3>4. QED
      BY <3>2, <3>3 DEF m
  <2>3. s[n + 2] \in Seq(S)
    BY <1>1
  <2>4. QED
    BY <2>1, <2>2, <2>3
<1>6. Nat \subseteq Good
  <2> HIDE DEF Good
  <2>1. QED
    BY <1>4, <1>5, Inductive
<1>7. CASE Len(s) = 0
  BY <1>2, <1>7
<1>8. CASE Len(s) # 0
  <2>1. Len(s) - 1 \in Nat /\ (Len(s) - 1) + 1 = Len(s)
    BY <1>1, <1>8
  <2>2. Len(s) - 1 \in Good
    BY <1>6, <2>1
  <2>3. QED
    BY <1>2, <1>8, <2>1, <2>2
<1>9. QED
  BY <1>7, <1>8

\* An order in which each element of a finite set occurs once is a sequence of them,
\* and misses none.
LEMMA OrderOfSet ==
  ASSUME NEW S, IsFiniteSet(S), NEW f \in SetToSeqs(S)
  PROVE  /\ f \in Seq(S) /\ ToSet(f) = S
         /\ \A i, j \in 1..Len(f) : f[i] = f[j] => i = j
<1> DEFINE n == Cardinality(S)
<1>1. n \in Nat
  BY FS_CardinalityType
<1>2. f \in [1..n -> S] /\ \A i, j \in 1..n : i # j => f[i] # f[j]
  BY DEF SetToSeqs
<1>3. f \in Seq(S) /\ Len(f) = n /\ DOMAIN f = 1..n
  BY <1>1, <1>2
<1>4. f \in Injection(1..n, S)
  BY <1>2 DEF Injection, IsInjective
<1>5. Cardinality(1..n) = n
  <2>1. 1 \in Int /\ n \in Int
    BY <1>1
  <2>2. Cardinality(1..n) = IF 1 > n THEN 0 ELSE n - 1 + 1
    BY <2>1, FS_Interval, Zenon
  <2>3. QED
    BY <1>1, <2>2
<1>6. f \in Surjection(1..n, S)
  BY <1>4, <1>5, FS_Injection
<1>7. \A x \in S : \E i \in 1..n : f[i] = x
  BY <1>6 DEF Surjection
<1>8. ToSet(f) = S
  BY <1>2, <1>3, <1>7 DEF ToSet
<1>9. QED
  BY <1>2, <1>3, <1>8

\* A set that is not empty has one element less without one of its own.
LEMMA SmallerByOne ==
  ASSUME NEW T, IsFiniteSet(T), NEW n \in Nat, Cardinality(T) = n + 1
  PROVE  /\ T # {}
         /\ \A x \in T : Cardinality(T \ {x}) = n /\ IsFiniteSet(T \ {x})
<1>1. T # {}
  <2>1. Cardinality({}) = 0
    BY FS_EmptySet
  <2>2. QED
    BY <2>1
<1>2. ASSUME NEW x \in T  PROVE Cardinality(T \ {x}) = n /\ IsFiniteSet(T \ {x})
  BY FS_RemoveElement
<1>3. QED
  BY <1>1, <1>2

\* Induction on finite sets, for the members of a set of sets: by one element more,
\* and along the recursion that always takes the element CHOOSE takes.
LEMMA FiniteInductive ==
  ASSUME NEW S, IsFiniteSet(S), NEW P, {} \in P,
         \A T \in SUBSET S, x \in S : T \in P /\ x \notin T => T \cup {x} \in P
  PROVE  S \in P
<1> DEFINE Good == {n \in Nat : \A T \in SUBSET S : Cardinality(T) = n => T \in P}
<1>1. \A T \in SUBSET S : IsFiniteSet(T) /\ Cardinality(T) \in Nat
  BY FS_Subset, FS_CardinalityType
<1>2. 0 \in Good
  <2>1. \A T \in SUBSET S : Cardinality(T) = 0 => T = {}
    BY <1>1, FS_EmptySet
  <2>2. QED
    BY <2>1
<1>3. ASSUME NEW n \in Nat, n \in Good  PROVE n + 1 \in Good
  <2> SUFFICES ASSUME NEW T \in SUBSET S, Cardinality(T) = n + 1  PROVE T \in P
    OBVIOUS
  <2>1. PICK x \in T : Cardinality(T \ {x}) = n
    BY <1>1, SmallerByOne
  <2> DEFINE R == T \ {x}
  <2>2. R \cup {x} = T /\ x \notin R /\ x \in S /\ R \in SUBSET S /\ R \in P
    BY <1>3, <2>1
  <2> HIDE DEF R
  <2>3. QED
    BY <2>2
<1>4. Cardinality(S) \in Good
  <2> HIDE DEF Good
  <2>1. QED
    BY <1>1, <1>2, <1>3, Inductive
<1>5. QED
  BY <1>4

\* A recursion over the subsets of a finite set has a solution: the function that
\* SumFunctionOnSet defines.
LEMMA SumDef ==
  ASSUME NEW S, IsFiniteSet(S), NEW f
  PROVE  \E F : /\ F = [T \in SUBSET S |->
                         IF T = {} THEN 0
                         ELSE f[CHOOSE x \in T : TRUE] + F[T \ {CHOOSE x \in T : TRUE}]]
                /\ SumFunctionOnSet(f, S) = F[S]
<1> DEFINE val(F, T) == IF T = {} THEN 0
                        ELSE f[CHOOSE x \in T : TRUE] + F[T \ {CHOOSE x \in T : TRUE}]
           UpTo(n) == {T \in SUBSET S : Cardinality(T) <= n}
           step(F, n) == [T \in UpTo(n) |-> val(F, T)]
           Good == {n \in Nat : \E F : F = step(F, n)}
<1>1. \A T \in SUBSET S : IsFiniteSet(T) /\ Cardinality(T) \in Nat
  BY FS_Subset, FS_CardinalityType
<1>2. 0 \in Good
  <2> DEFINE F0 == [T \in UpTo(0) |-> 0]
  <2>1. \A T \in UpTo(0) : T = {}
    BY <1>1, FS_EmptySet
  <2>2. F0 = step(F0, 0)
    <3> HIDE DEF UpTo
    <3>1. QED
      BY <2>1
  <2>3. QED
    <3> HIDE DEF F0
    <3>1. QED
      BY <2>2
<1>3. ASSUME NEW n \in Nat, n \in Good  PROVE n + 1 \in Good
  <2>1. PICK F : F = step(F, n)
    BY <1>3
  <2> DEFINE G == [T \in UpTo(n + 1) |-> IF T \in UpTo(n) THEN F[T] ELSE val(F, T)]
  <2>2. ASSUME NEW T \in UpTo(n + 1)
        PROVE  G[T] = val(G, T)
    <3> DEFINE p == CHOOSE x \in T : TRUE
               R == T \ {p}
    <3>1. ASSUME T # {}
          PROVE  R \in UpTo(n) /\ G[R] = F[R]
      <4>1. p \in T
        BY <3>1
      <4>2. Cardinality(R) = Cardinality(T) - 1 /\ Cardinality(T) \in Nat
        <5> HIDE DEF p
        <5>1. QED
          BY <1>1, <4>1, FS_RemoveElement
      <4>3. R \in UpTo(n) /\ R \in UpTo(n + 1)
        BY <1>1, <4>2
      <4> HIDE DEF R, UpTo
      <4>4. QED
        BY <4>3
    <3>2. G[T] = val(F, T)
      <4>1. T \in UpTo(n) => F[T] = val(F, T)
        <5> HIDE DEF UpTo
        <5>1. QED
          BY <2>1
      <4> HIDE DEF UpTo
      <4>2. QED
        BY <4>1
    <3>3. val(F, T) = val(G, T)
      <4> HIDE DEF G
      <4>1. QED
        BY <3>1
    <3>4. QED
      <4> HIDE DEF G, UpTo
      <4>1. QED
        BY <3>2, <3>3
  <2>3. G = step(G, n + 1)
    <3>1. G = [T \in UpTo(n + 1) |-> G[T]]
      OBVIOUS
    <3> HIDE DEF G
    <3>2. QED
      BY <2>2, <3>1
  <2>4. \E F1 : F1 = step(F1, n + 1)
    <3> HIDE DEF G
    <3>1. QED
      BY <2>3
  <2>5. QED
    <3> HIDE DEF step
    <3>1. QED
      BY <2>4
<1>4. Cardinality(S) \in Good
  <2> HIDE DEF Good
  <2>1. QED
    BY <1>1, <1>2, <1>3, Inductive
<1>5. UpTo(Cardinality(S)) = SUBSET S
  BY FS_Subset
<1>6. \E F : F = [T \in SUBSET S |-> val(F, T)]
  <2>1. \E F : F = step(F, Cardinality(S))
    BY <1>4
  <2> HIDE DEF val, UpTo
  <2>2. QED
    BY <1>5, <2>1
<1> DEFINE X == CHOOSE F : F = [T \in SUBSET S |-> val(F, T)]
<1>7. X = [T \in SUBSET S |-> val(X, T)]
  BY <1>6
<1>8. SumFunctionOnSet(f, S) = X[S]
  BY DEF SumFunctionOnSet, FoldFunctionOnSet, MapThenFoldSet
<1>9. QED
  <2> HIDE DEF X
  <2>1. QED
    BY <1>7, <1>8

\* The sum by the recursion that defines it.
LEMMA SumUnfold ==
  ASSUME NEW S, IsFiniteSet(S), NEW f
  PROVE  SumFunctionOnSet(f, S) =
           IF S = {} THEN 0
           ELSE f[CHOOSE x \in S : TRUE] + SumFunctionOnSet(f, S \ {CHOOSE x \in S : TRUE})
<1> DEFINE pick(T) == CHOOSE x \in T : TRUE
           rec(F, U) == F = [T \in SUBSET U |->
                              IF T = {} THEN 0 ELSE f[pick(T)] + F[T \ {pick(T)}]]
<1>1. PICK F : rec(F, S) /\ SumFunctionOnSet(f, S) = F[S]
  BY SumDef
<1>2. CASE S = {}
  BY <1>1, <1>2
<1>3. CASE S # {}
  <2> DEFINE R == S \ {pick(S)}
  <2>1. IsFiniteSet(R) /\ R \in SUBSET S
    BY FS_Subset
  <2>2. PICK G : rec(G, R) /\ SumFunctionOnSet(f, R) = G[R]
    <3> HIDE DEF R
    <3>1. QED
      BY <2>1, SumDef
  <2> DEFINE Good == {n \in Nat : \A T \in SUBSET R : Cardinality(T) = n => F[T] = G[T]}
  <2>3. \A T \in SUBSET R : IsFiniteSet(T) /\ Cardinality(T) \in Nat
    <3> HIDE DEF R
    <3>1. QED
      BY <2>1, FS_Subset, FS_CardinalityType
  <2>4. \A T \in SUBSET R : /\ F[T] = IF T = {} THEN 0 ELSE f[pick(T)] + F[T \ {pick(T)}]
                            /\ G[T] = IF T = {} THEN 0 ELSE f[pick(T)] + G[T \ {pick(T)}]
    <3> HIDE DEF R, pick
    <3>1. QED
      BY <1>1, <2>1, <2>2
  <2>5. 0 \in Good
    <3>1. \A T \in SUBSET R : Cardinality(T) = 0 => T = {}
      <4> HIDE DEF R
      <4>1. QED
        BY <2>3, FS_EmptySet
    <3> HIDE DEF R
    <3>2. QED
      BY <2>4, <3>1
  <2>6. ASSUME NEW n \in Nat, n \in Good  PROVE n + 1 \in Good
    <3> SUFFICES ASSUME NEW T \in SUBSET R, Cardinality(T) = n + 1  PROVE F[T] = G[T]
      OBVIOUS
    <3> HIDE DEF R
    <3>1. T # {}
      BY FS_EmptySet
    <3>2. pick(T) \in T
      BY <3>1
    <3> DEFINE p == pick(T)
    <3>3. Cardinality(T \ {p}) = n /\ T \ {p} \in SUBSET R
      <4>1. p \in T /\ IsFiniteSet(T)
        BY <2>3, <3>2
      <4> HIDE DEF p
      <4>2. Cardinality(T \ {p}) = Cardinality(T) - 1
        BY <4>1, FS_RemoveElement
      <4>3. QED
        BY <4>2
    <3> HIDE DEF pick
    <3>4. F[T \ {p}] = G[T \ {p}]
      <4> HIDE DEF p
      <4>1. QED
        BY <2>6, <3>3
    <3>5. QED
      BY <2>4, <3>1, <3>4
  <2>7. Cardinality(R) \in Good
    <3>1. Cardinality(R) \in Nat
      BY <2>3
    <3> HIDE DEF Good
    <3>2. QED
      BY <2>5, <2>6, <3>1, Inductive
  <2>8. F[R] = G[R]
    BY <2>7
  <2>9. F[S] = f[pick(S)] + F[R]
    <3> HIDE DEF pick
    <3>1. QED
      BY <1>1, <1>3
  <2>10. QED
    <3> HIDE DEF pick, R
    <3>1. QED
      BY <1>1, <1>3, <2>2, <2>8, <2>9 DEF pick, R
<1>4. QED
  BY <1>2, <1>3

\* A sum of naturals is a natural.
LEMMA SumType ==
  ASSUME NEW S, IsFiniteSet(S), NEW f, \A x \in S : f[x] \in Nat
  PROVE  SumFunctionOnSet(f, S) \in Nat
<1> DEFINE sum(T) == SumFunctionOnSet(f, T)
           Good == {n \in Nat : \A T \in SUBSET S : Cardinality(T) = n => sum(T) \in Nat}
           pick(T) == CHOOSE x \in T : TRUE
<1>1. \A T \in SUBSET S : IsFiniteSet(T) /\ Cardinality(T) \in Nat
  BY FS_Subset, FS_CardinalityType
<1>2. \A T \in SUBSET S : sum(T) = IF T = {} THEN 0 ELSE f[pick(T)] + sum(T \ {pick(T)})
  BY <1>1, SumUnfold
<1> HIDE DEF sum
<1>3. 0 \in Good
  <2>1. \A T \in SUBSET S : Cardinality(T) = 0 => T = {}
    BY <1>1, FS_EmptySet
  <2>2. sum({}) = 0
    BY <1>2
  <2>3. QED
    BY <2>1, <2>2
<1>4. ASSUME NEW n \in Nat, n \in Good  PROVE n + 1 \in Good
  <2> SUFFICES ASSUME NEW T \in SUBSET S, Cardinality(T) = n + 1  PROVE sum(T) \in Nat
    OBVIOUS
  <2>1. T # {} /\ \A x \in T : Cardinality(T \ {x}) = n
    BY <1>1, SmallerByOne
  <2> DEFINE p == pick(T)
  <2>2. p \in T /\ sum(T) = f[p] + sum(T \ {p})
    BY <1>2, <2>1
  <2> HIDE DEF p, pick
  <2>3. Cardinality(T \ {p}) = n /\ T \ {p} \in SUBSET S /\ f[p] \in Nat
    BY <2>1, <2>2
  <2>4. sum(T \ {p}) \in Nat
    BY <1>4, <2>3
  <2>5. QED
    BY <2>2, <2>3, <2>4
<1>5. Cardinality(S) \in Good
  <2> HIDE DEF Good
  <2>1. QED
    BY <1>1, <1>3, <1>4, Inductive
<1>6. QED
  BY <1>5 DEF sum

\* In the sum any element may be taken first.
LEMMA SumRemove ==
  ASSUME NEW S, IsFiniteSet(S), NEW f, \A x \in S : f[x] \in Nat, NEW e \in S
  PROVE  SumFunctionOnSet(f, S) = f[e] + SumFunctionOnSet(f, S \ {e})
<1> DEFINE sum(T) == SumFunctionOnSet(f, T)
           Fine(T) == \A x \in T : sum(T) = f[x] + sum(T \ {x})
           Good == {n \in Nat : \A T \in SUBSET S : Cardinality(T) = n => Fine(T)}
           pick(T) == CHOOSE x \in T : TRUE
<1>1. \A T \in SUBSET S : IsFiniteSet(T) /\ Cardinality(T) \in Nat
  BY FS_Subset, FS_CardinalityType
<1>2. \A T \in SUBSET S : sum(T) = IF T = {} THEN 0 ELSE f[pick(T)] + sum(T \ {pick(T)})
  BY <1>1, SumUnfold
<1>7. \A T \in SUBSET S : sum(T) \in Nat
  BY <1>1, SumType
<1> HIDE DEF sum
<1>3. 0 \in Good
  <2>1. \A T \in SUBSET S : Cardinality(T) = 0 => T = {}
    BY <1>1, FS_EmptySet
  <2>2. QED
    BY <2>1
<1>4. ASSUME NEW n \in Nat, n \in Good  PROVE n + 1 \in Good
  <2> SUFFICES ASSUME NEW T \in SUBSET S, Cardinality(T) = n + 1  PROVE Fine(T)
    OBVIOUS
  <2>1. T # {} /\ \A x \in T : Cardinality(T \ {x}) = n
    BY <1>1, SmallerByOne
  <2> DEFINE p == pick(T)
  <2>2. p \in T /\ sum(T) = f[p] + sum(T \ {p})
    BY <1>2, <2>1
  <2> HIDE DEF p, pick
  <2>3. \A x \in T : T \ {x} \in SUBSET S /\ Fine(T \ {x})
    <3> SUFFICES ASSUME NEW x \in T  PROVE T \ {x} \in SUBSET S /\ Fine(T \ {x})
      OBVIOUS
    <3> HIDE DEF Fine
    <3>1. Cardinality(T \ {x}) = n
      BY <2>1
    <3>2. QED
      BY <1>4, <3>1
  <2>4. ASSUME NEW x \in T, x # p
        PROVE  sum(T) = f[x] + sum(T \ {x})
    <3>1. sum(T \ {p}) = f[x] + sum((T \ {p}) \ {x})
      BY <2>2, <2>3, <2>4
    <3>2. sum(T \ {x}) = f[p] + sum((T \ {x}) \ {p})
      BY <2>2, <2>3, <2>4
    <3>3. (T \ {x}) \ {p} = (T \ {p}) \ {x} /\ (T \ {p}) \ {x} \in SUBSET S
      OBVIOUS
    <3> DEFINE rest == sum((T \ {p}) \ {x})
    <3>4. rest \in Nat /\ f[p] \in Nat /\ f[x] \in Nat
      BY <1>7, <2>2, <3>3
    <3>5. sum(T \ {p}) = f[x] + rest /\ sum(T \ {x}) = f[p] + rest
      BY <3>1, <3>2, <3>3
    <3> HIDE DEF rest
    <3>6. QED
      BY <2>2, <3>4, <3>5
  <2>5. QED
    BY <2>2, <2>4
<1>5. Cardinality(S) \in Good
  <2> HIDE DEF Good
  <2>1. QED
    BY <1>1, <1>3, <1>4, Inductive
<1>6. QED
  BY <1>5 DEF sum

\* The sum of naturals over a set and one element more.
LEMMA SumAdd ==
  ASSUME NEW T, IsFiniteSet(T), NEW x, x \notin T, NEW f, \A y \in T \cup {x} : f[y] \in Nat
  PROVE  /\ SumFunctionOnSet(f, T \cup {x}) = SumFunctionOnSet(f, T) + f[x]
         /\ SumFunctionOnSet(f, T) \in Nat
<1> DEFINE U == T \cup {x}
<1>1. IsFiniteSet(U) /\ x \in U /\ U \ {x} = T /\ \A y \in U : f[y] \in Nat
  BY FS_AddElement
<1>2. SumFunctionOnSet(f, T) \in Nat /\ f[x] \in Nat
  BY SumType
<1> HIDE DEF U
<1>3. SumFunctionOnSet(f, U) = f[x] + SumFunctionOnSet(f, U \ {x})
  BY <1>1, SumRemove
<1>4. QED
  BY <1>1, <1>2, <1>3 DEF U

\* Sums add up pointwise; in particular the sum only depends on the values.
LEMMA SumPlus ==
  ASSUME NEW S, IsFiniteSet(S), NEW f, NEW g, NEW h,
         \A x \in S : f[x] \in Nat /\ g[x] \in Nat /\ h[x] = f[x] + g[x]
  PROVE  SumFunctionOnSet(h, S) = SumFunctionOnSet(f, S) + SumFunctionOnSet(g, S)
<1> DEFINE sum(k, T) == SumFunctionOnSet(k, T)
           P == {T \in SUBSET S : sum(h, T) = sum(f, T) + sum(g, T)}
<1>1. \A T \in SUBSET S : IsFiniteSet(T)
  BY FS_Subset
<1>2. {} \in P
  <2>1. sum(h, {}) = 0 /\ sum(f, {}) = 0 /\ sum(g, {}) = 0
    BY SumUnfold, FS_EmptySet
  <2>2. QED
    BY <2>1
<1>3. ASSUME NEW T \in SUBSET S, NEW x \in S, T \in P, x \notin T
      PROVE  T \cup {x} \in P
  <2>1. \A y \in T \cup {x} : f[y] \in Nat /\ g[y] \in Nat /\ h[y] \in Nat
    OBVIOUS
  <2>2. /\ sum(f, T \cup {x}) = sum(f, T) + f[x] /\ sum(f, T) \in Nat
        /\ sum(g, T \cup {x}) = sum(g, T) + g[x] /\ sum(g, T) \in Nat
        /\ sum(h, T \cup {x}) = sum(h, T) + h[x] /\ sum(h, T) \in Nat
    <3>1. IsFiniteSet(T)
      BY <1>1
    <3>2. sum(f, T \cup {x}) = sum(f, T) + f[x] /\ sum(f, T) \in Nat
      BY <1>3, <2>1, <3>1, SumAdd
    <3>3. sum(g, T \cup {x}) = sum(g, T) + g[x] /\ sum(g, T) \in Nat
      BY <1>3, <2>1, <3>1, SumAdd
    <3>4. sum(h, T \cup {x}) = sum(h, T) + h[x] /\ sum(h, T) \in Nat
      BY <1>3, <2>1, <3>1, SumAdd
    <3>5. QED
      BY <3>2, <3>3, <3>4
  <2>3. sum(h, T) = sum(f, T) + sum(g, T)
    BY <1>3
  <2> HIDE DEF sum
  <2>4. QED
    BY <2>1, <2>2, <2>3
<1>4. S \in P
  <2> HIDE DEF P
  <2>1. QED
    BY <1>2, <1>3, FiniteInductive
<1>5. QED
  BY <1>4

\* A sum of zeros.
LEMMA SumZero ==
  ASSUME NEW S, IsFiniteSet(S), NEW f, \A x \in S : f[x] = 0
  PROVE  SumFunctionOnSet(f, S) = 0
<1>1. SumFunctionOnSet(f, S) = SumFunctionOnSet(f, S) + SumFunctionOnSet(f, S)
  <2>1. \A x \in S : f[x] \in Nat /\ f[x] = f[x] + f[x]
    OBVIOUS
  <2>2. QED
    BY <2>1, SumPlus
<1>2. SumFunctionOnSet(f, S) \in Nat
  BY SumType
<1> DEFINE t == SumFunctionOnSet(f, S)
<1>3. t \in Nat /\ t = t + t
  BY <1>1, <1>2
<1> HIDE DEF t
<1>4. t = 0
  BY <1>3
<1>5. QED
  BY <1>4 DEF t

\* Two functions with the same values have the same sum.
LEMMA SumSame ==
  ASSUME NEW S, IsFiniteSet(S), NEW f, NEW g, \A x \in S : f[x] \in Nat /\ g[x] = f[x]
  PROVE  SumFunctionOnSet(g, S) = SumFunctionOnSet(f, S)
<1> DEFINE zero == [x \in S |-> 0]
<1>1. SumFunctionOnSet(g, S) = SumFunctionOnSet(f, S) + SumFunctionOnSet(zero, S)
  <2>1. \A x \in S : f[x] \in Nat /\ zero[x] \in Nat /\ g[x] = f[x] + zero[x]
    OBVIOUS
  <2> HIDE DEF zero
  <2>2. QED
    BY <2>1, SumPlus
<1>2. SumFunctionOnSet(zero, S) = 0
  <2>1. \A x \in S : zero[x] = 0
    OBVIOUS
  <2> HIDE DEF zero
  <2>2. QED
    BY <2>1, SumZero
<1>3. SumFunctionOnSet(f, S) \in Nat
  BY SumType
<1>4. QED
  BY <1>1, <1>2, <1>3

\* One value changes: so does the sum, by as much.
LEMMA SumUpdate ==
  ASSUME NEW S, IsFiniteSet(S), NEW f, NEW g, NEW e \in S,
         \A x \in S : f[x] \in Nat /\ g[x] \in Nat, \A x \in S \ {e} : g[x] = f[x]
  PROVE  SumFunctionOnSet(g, S) + f[e] = SumFunctionOnSet(f, S) + g[e]
<1> DEFINE R == S \ {e}
<1>1. IsFiniteSet(R)
  BY FS_Subset
<1>2. SumFunctionOnSet(g, R) = SumFunctionOnSet(f, R) /\ SumFunctionOnSet(f, R) \in Nat
  <2>1. \A x \in R : f[x] \in Nat /\ g[x] = f[x]
    OBVIOUS
  <2> HIDE DEF R
  <2>2. QED
    BY <1>1, <2>1, SumSame, SumType
<1>3. /\ SumFunctionOnSet(f, S) = f[e] + SumFunctionOnSet(f, R)
      /\ SumFunctionOnSet(g, S) = g[e] + SumFunctionOnSet(g, R)
  BY SumRemove
<1> HIDE DEF R
<1>4. QED
  BY <1>2, <1>3

\* The sizes of disjoint sets add up to the size of their union.
LEMMA SumOfSizes ==
  ASSUME NEW S, IsFiniteSet(S), NEW part, NEW size,
         \A x \in S : IsFiniteSet(part[x]) /\ size[x] = Cardinality(part[x]),
         \A x, y \in S : x # y => part[x] \cap part[y] = {}
  PROVE  SumFunctionOnSet(size, S) = Cardinality(UNION {part[x] : x \in S})
<1> DEFINE all(T) == UNION {part[x] : x \in T}
           P == {T \in SUBSET S : /\ IsFiniteSet(all(T))
                                  /\ SumFunctionOnSet(size, T) = Cardinality(all(T))}
<1>1. \A T \in SUBSET S : IsFiniteSet(T)
  BY FS_Subset
<1>2. {} \in P
  <2>1. all({}) = {}
    OBVIOUS
  <2>2. SumFunctionOnSet(size, {}) = 0
    BY SumUnfold, FS_EmptySet
  <2> HIDE DEF all
  <2>3. QED
    BY <2>1, <2>2, FS_EmptySet
<1>3. ASSUME NEW T \in SUBSET S, NEW x \in S, T \in P, x \notin T
      PROVE  T \cup {x} \in P
  <2>1. all(T \cup {x}) = all(T) \cup part[x]
    OBVIOUS
  <2>2. all(T) \cap part[x] = {}
    <3>1. \A y \in T : part[y] \cap part[x] = {}
      BY <1>3
    <3>2. QED
      BY <3>1
  <2>3. IsFiniteSet(all(T)) /\ SumFunctionOnSet(size, T) = Cardinality(all(T))
    BY <1>3
  <2> HIDE DEF all
  <2>4. \A y \in T \cup {x} : size[y] \in Nat
    BY FS_CardinalityType
  <2>5. SumFunctionOnSet(size, T \cup {x}) = SumFunctionOnSet(size, T) + size[x]
    BY <1>1, <1>3, <2>4, SumAdd
  <2> DEFINE A == all(T)
             B == part[x]
  <2>6. IsFiniteSet(A) /\ IsFiniteSet(B) /\ A \cap B = {}
    BY <2>2, <2>3
  <2>7. IsFiniteSet(A \cup B) /\ Cardinality(A \cup B) = Cardinality(A) + Cardinality(B)
    <3> HIDE DEF A, B
    <3>1. IsFiniteSet(A \cup B)
      BY <2>6, FS_Union
    <3>2. Cardinality(A \cup B) = Cardinality(A) + Cardinality(B) - Cardinality(A \cap B)
      BY <2>6, FS_Union
    <3>3. Cardinality(A) \in Nat /\ Cardinality(B) \in Nat /\ Cardinality(A \cap B) = 0
      BY <2>6, FS_CardinalityType, FS_EmptySet
    <3>4. QED
      BY <3>1, <3>2, <3>3
  <2>8. QED
    BY <2>1, <2>3, <2>5, <2>7
<1>4. S \in P
  <2> HIDE DEF P
  <2>1. QED
    BY <1>2, <1>3, FiniteInductive
<1>5. QED
  BY <1>4

\* As many elements are kept as there are positions to keep.
LEMMA KeptLength ==
  ASSUME NEW A, NEW s \in Seq(A), NEW I
  PROVE  Len(Kept(s, I)) = Cardinality(I \cap (1..Len(s)))
<1>1. Len(s) \in Nat
  OBVIOUS
<1>2. PICK f : /\ f = [n \in 0..Len(s) |-> IF n = 0 THEN <<>>
                                           ELSE IF n \in I THEN Append(f[n - 1], s[n])
                                           ELSE f[n - 1]]
               /\ Kept(s, I) = f[Len(s)]
  BY <1>1, KeptDef
<1> DEFINE upTo(n) == I \cap (1..n)
           Good == {n \in Nat : n <= Len(s) =>
                      /\ f[n] \in Seq(A) /\ IsFiniteSet(upTo(n))
                      /\ Len(f[n]) = Cardinality(upTo(n))}
<1>3. \A n \in 0..Len(s) : f[n] = IF n = 0 THEN <<>>
                                  ELSE IF n \in I THEN Append(f[n - 1], s[n])
                                  ELSE f[n - 1]
  BY <1>2
<1>4. 0 \in Good
  <2>1. f[0] = <<>> /\ upTo(0) = {} /\ <<>> \in Seq(A) /\ Len(<<>>) = 0
    BY <1>1, <1>3
  <2> HIDE DEF upTo
  <2>2. QED
    BY <2>1, FS_EmptySet
<1>5. ASSUME NEW n \in Nat, n \in Good  PROVE n + 1 \in Good
  <2> SUFFICES ASSUME n + 1 <= Len(s)
               PROVE  /\ f[n + 1] \in Seq(A) /\ IsFiniteSet(upTo(n + 1))
                      /\ Len(f[n + 1]) = Cardinality(upTo(n + 1))
    OBVIOUS
  <2>1. f[n] \in Seq(A) /\ IsFiniteSet(upTo(n)) /\ Len(f[n]) = Cardinality(upTo(n))
    BY <1>1, <1>5
  <2>2. f[n + 1] = IF n + 1 \in I THEN Append(f[n], s[n + 1]) ELSE f[n]
    BY <1>1, <1>3
  <2>3. upTo(n + 1) = IF n + 1 \in I THEN upTo(n) \cup {n + 1} ELSE upTo(n)
    OBVIOUS
  <2>4. s[n + 1] \in A /\ n + 1 \notin upTo(n)
    BY <1>1
  <2> HIDE DEF upTo
  <2>5. CASE n + 1 \in I
    <3>1. IsFiniteSet(upTo(n) \cup {n + 1}) /\ Cardinality(upTo(n) \cup {n + 1}) = Cardinality(upTo(n)) + 1
      BY <2>1, <2>4, FS_AddElement
    <3>2. Append(f[n], s[n + 1]) \in Seq(A) /\ Len(Append(f[n], s[n + 1])) = Len(f[n]) + 1
      BY <2>1, <2>4
    <3>3. QED
      BY <2>1, <2>2, <2>3, <2>5, <3>1, <3>2
  <2>6. CASE n + 1 \notin I
    BY <2>1, <2>2, <2>3, <2>6
  <2>7. QED
    BY <2>5, <2>6
<1>6. Len(s) \in Good
  <2> HIDE DEF Good
  <2>1. QED
    BY <1>1, <1>4, <1>5, Inductive
<1>7. QED
  BY <1>1, <1>2, <1>6

\* The length of a flattened sequence is the sum of the lengths.
LEMMA FlattenLength ==
  ASSUME NEW S, NEW s \in Seq(Seq(S)), NEW size, \A i \in 1..Len(s) : size[i] = Len(s[i])
  PROVE  Len(FlattenSeq(s)) = SumFunctionOnSet(size, 1..Len(s))
<1>1. Len(s) \in Nat /\ \A i \in 1..Len(s) : s[i] \in Seq(S)
  OBVIOUS
<1>2. PICK f : /\ f = [i \in 1..Len(s) |-> IF i = 1 THEN s[i] ELSE f[i - 1] \o s[i]]
               /\ FlattenSeq(s) = IF Len(s) = 0 THEN s ELSE f[Len(s)]
  BY <1>1, FlattenDef
<1> DEFINE sum(n) == SumFunctionOnSet(size, 1..n)
           Good == {n \in Nat : n + 1 <= Len(s) => f[n + 1] \in Seq(S) /\ Len(f[n + 1]) = sum(n + 1)}
<1>3. \A n \in 1..Len(s) : f[n] = IF n = 1 THEN s[n] ELSE f[n - 1] \o s[n]
  BY <1>2
<1>4. ASSUME NEW n \in Nat, n + 1 <= Len(s)
      PROVE  sum(n + 1) = sum(n) + Len(s[n + 1]) /\ sum(n) \in Nat
  <2> DEFINE T == 1..n
             x == n + 1
  <2>1. 1..(n + 1) = T \cup {x} /\ x \notin T
    OBVIOUS
  <2>2. IsFiniteSet(T)
    <3>1. 1 \in Int /\ n \in Int
      OBVIOUS
    <3>2. QED
      BY <3>1, FS_Interval, Zenon
  <2>3. \A y \in T \cup {x} : size[y] \in Nat
    <3> SUFFICES ASSUME NEW y \in T \cup {x}  PROVE size[y] \in Nat
      OBVIOUS
    <3>1. y \in 1..Len(s)
      BY <1>1, <1>4
    <3>2. s[y] \in Seq(S) /\ size[y] = Len(s[y])
      BY <3>1
    <3>3. QED
      BY <3>2
  <2>4. size[x] = Len(s[n + 1])
    BY <1>1, <1>4
  <2> HIDE DEF T, x
  <2>5. /\ SumFunctionOnSet(size, T \cup {x}) = SumFunctionOnSet(size, T) + size[x]
        /\ SumFunctionOnSet(size, T) \in Nat
    BY <2>1, <2>2, <2>3, SumAdd
  <2>6. QED
    BY <2>1, <2>4, <2>5 DEF T
<1>5. sum(0) = 0
  <2>1. 1..0 = {}
    OBVIOUS
  <2>2. SumFunctionOnSet(size, {}) = 0
    BY SumUnfold, FS_EmptySet
  <2>3. QED
    BY <2>1, <2>2
<1> HIDE DEF sum
<1>6. 0 \in Good
  <2> SUFFICES ASSUME 1 <= Len(s)  PROVE f[0 + 1] \in Seq(S) /\ Len(f[0 + 1]) = sum(0 + 1)
    OBVIOUS
  <2>1. f[1] = s[1] /\ s[1] \in Seq(S) /\ Len(s[1]) \in Nat
    BY <1>1, <1>3
  <2>2. sum(0 + 1) = sum(0) + Len(s[0 + 1])
    BY <1>4
  <2>3. QED
    BY <1>5, <2>1, <2>2
<1>7. ASSUME NEW n \in Nat, n \in Good  PROVE n + 1 \in Good
  <2> SUFFICES ASSUME n + 2 <= Len(s)
               PROVE  f[n + 2] \in Seq(S) /\ Len(f[n + 2]) = sum(n + 2)
    BY <1>1
  <2> DEFINE m == n + 2
  <2>1. m \in 1..Len(s) /\ m # 1 /\ m - 1 = n + 1
    BY <1>1
  <2>2. sum(m) = sum(n + 1) + Len(s[m])
    <3>1. n + 1 \in Nat /\ (n + 1) + 1 <= Len(s)
      BY <1>1
    <3>2. sum((n + 1) + 1) = sum(n + 1) + Len(s[(n + 1) + 1])
      BY <1>4, <3>1
    <3>3. (n + 1) + 1 = m
      OBVIOUS
    <3> HIDE DEF m
    <3>4. QED
      BY <3>2, <3>3
  <2>3. f[n + 1] \in Seq(S) /\ Len(f[n + 1]) = sum(n + 1)
    BY <1>1, <1>7
  <2> HIDE DEF m
  <2>4. f[m] = f[n + 1] \o s[m]
    BY <1>3, <2>1
  <2>5. s[m] \in Seq(S)
    BY <1>1, <2>1
  <2>6. f[m] \in Seq(S) /\ Len(f[m]) = Len(f[n + 1]) + Len(s[m])
    <3> DEFINE a == f[n + 1]
               b == s[m]
    <3>1. a \in Seq(S) /\ b \in Seq(S)
      BY <2>3, <2>5
    <3> HIDE DEF a, b
    <3>2. a \o b \in Seq(S) /\ Len(a \o b) = Len(a) + Len(b)
      BY <3>1
    <3>3. QED
      BY <2>4, <3>2 DEF a, b
  <2>7. QED
    BY <2>2, <2>3, <2>6 DEF m
<1>8. Nat \subseteq Good
  <2> HIDE DEF Good
  <2>1. QED
    BY <1>6, <1>7, Inductive
<1>9. CASE Len(s) = 0
  BY <1>2, <1>5, <1>9 DEF sum
<1>10. CASE Len(s) # 0
  <2>1. Len(s) - 1 \in Nat /\ (Len(s) - 1) + 1 = Len(s)
    BY <1>1, <1>10
  <2>2. Len(s) - 1 \in Good
    BY <1>8, <2>1
  <2>3. Len(f[Len(s)]) = sum(Len(s))
    BY <2>1, <2>2
  <2>4. QED
    BY <1>2, <1>10, <2>3 DEF sum
<1>11. QED
  BY <1>9, <1>10

\* The places of a sequence whose elements are of a kind.
Spots(s, V) == {k \in 1..Len(s) : s[k] \in V}

\* A longer sequence has one more place of a kind, or the same ones.
LEMMA AppendPlaces ==
  ASSUME NEW A, NEW t \in Seq(A), NEW x \in A, NEW V
  PROVE  Spots(Append(t, x), V) = Spots(t, V) \cup (IF x \in V THEN {Len(t) + 1} ELSE {})
<1> DEFINE u == Append(t, x)
           n == Len(t)
<1>1. n \in Nat /\ Len(u) = n + 1 /\ u[n + 1] = x /\ \A k \in 1..n : u[k] = t[k]
  OBVIOUS
<1> HIDE DEF u, n
<1>2. 1..(n + 1) = (1..n) \cup {n + 1}
  BY <1>1
<1>3. \A k : k \in 1..(n + 1) /\ u[k] \in V <=>
               (k \in 1..n /\ t[k] \in V) \/ (k = n + 1 /\ x \in V)
  BY <1>1, <1>2
<1>4. {k \in 1..Len(u) : u[k] \in V} =
        {k \in 1..n : t[k] \in V} \cup (IF x \in V THEN {n + 1} ELSE {})
  BY <1>1, <1>3
<1>5. QED
  BY <1>4 DEF u, n, Spots

\* A sequence has finitely many places of a kind.
LEMMA PlacesFinite ==
  ASSUME NEW A, NEW t \in Seq(A), NEW V
  PROVE  IsFiniteSet(Spots(t, V))
<1> DEFINE all == 1..Len(t)
           P == {k \in all : t[k] \in V}
<1>1. 1 \in Int /\ Len(t) \in Int
  OBVIOUS
<1>2. IsFiniteSet(all)
  BY <1>1, FS_Interval, Zenon
<1>3. P \in SUBSET all
  OBVIOUS
<1> HIDE DEF all, P
<1>4. IsFiniteSet(P)
  BY <1>2, <1>3, FS_Subset
<1>5. QED
  BY <1>4 DEF all, P, Spots

\* Of each kind as many elements are kept as there are at the positions named.
LEMMA KeptCount ==
  ASSUME NEW A, NEW s \in Seq(A), NEW I, NEW V
  PROVE  Cardinality(Spots(Kept(s, I), V)) = Cardinality(I \cap Spots(s, V))
<1>1. Len(s) \in Nat
  OBVIOUS
<1>2. PICK f : /\ f = [n \in 0..Len(s) |-> IF n = 0 THEN <<>>
                                           ELSE IF n \in I THEN Append(f[n - 1], s[n])
                                           ELSE f[n - 1]]
               /\ Kept(s, I) = f[Len(s)]
  BY <1>1, KeptDef
<1> DEFINE places(t) == Spots(t, V)
           upTo(n) == {i \in I \cap (1..n) : s[i] \in V}
           Good == {n \in Nat : n <= Len(s) =>
                      /\ f[n] \in Seq(A) /\ IsFiniteSet(upTo(n))
                      /\ Cardinality(places(f[n])) = Cardinality(upTo(n))}
<1>3. \A n \in 0..Len(s) : f[n] = IF n = 0 THEN <<>>
                                  ELSE IF n \in I THEN Append(f[n - 1], s[n])
                                  ELSE f[n - 1]
  BY <1>2
<1>4. 0 \in Good
  <2>1. f[0] = <<>> /\ upTo(0) = {} /\ <<>> \in Seq(A) /\ places(<<>>) = {}
    BY <1>1, <1>3 DEF Spots
  <2> HIDE DEF upTo, places
  <2>2. QED
    BY <2>1, FS_EmptySet
<1>5. ASSUME NEW n \in Nat, n \in Good  PROVE n + 1 \in Good
  <2> DEFINE m == n + 1
             x == s[m]
             t == f[n]
  <2> SUFFICES ASSUME m <= Len(s)
               PROVE  /\ f[m] \in Seq(A) /\ IsFiniteSet(upTo(m))
                      /\ Cardinality(places(f[m])) = Cardinality(upTo(m))
    OBVIOUS
  <2>1. t \in Seq(A) /\ IsFiniteSet(upTo(n)) /\ Cardinality(places(t)) = Cardinality(upTo(n))
    BY <1>1, <1>5
  <2>2. f[m] = IF m \in I THEN Append(t, x) ELSE t
    BY <1>1, <1>3
  <2>3. upTo(m) = IF m \in I /\ x \in V THEN upTo(n) \cup {m} ELSE upTo(n)
    <3>1. \A i : i \in 1..m <=> i \in 1..n \/ i = m
      OBVIOUS
    <3> HIDE DEF m
    <3>2. QED
      BY <3>1
  <2>4. x \in A /\ m \notin upTo(n)
    BY <1>1
  <2>5. CASE m \notin I
    <3> HIDE DEF upTo, places, m, t
    <3>1. QED
      BY <2>1, <2>2, <2>3, <2>5
  <2>6. CASE m \in I
    <3>1. places(Append(t, x)) = places(t) \cup (IF x \in V THEN {Len(t) + 1} ELSE {})
      <4> HIDE DEF t, x
      <4>1. QED
        BY <2>1, <2>4, AppendPlaces
    <3>2. IsFiniteSet(places(t)) /\ Len(t) + 1 \notin places(t)
      <4> HIDE DEF t
      <4>1. IsFiniteSet(places(t))
        BY <2>1, PlacesFinite
      <4>2. Len(t) \in Nat
        BY <2>1
      <4>3. QED
        BY <4>1, <4>2 DEF Spots
    <3>3. Append(t, x) \in Seq(A)
      <4> HIDE DEF t, x
      <4>1. QED
        BY <2>1, <2>4
    <3> DEFINE k == Len(t) + 1
    <3> HIDE DEF upTo, places, m, t, x, k
    <3>4. CASE x \in V
      <4>1. upTo(m) = upTo(n) \cup {m} /\ places(Append(t, x)) = places(t) \cup {k}
        BY <2>3, <2>6, <3>1, <3>4 DEF k
      <4>2. IsFiniteSet(upTo(n) \cup {m}) /\ Cardinality(upTo(n) \cup {m}) = Cardinality(upTo(n)) + 1
        BY <2>1, <2>4, FS_AddElement
      <4>3. k \notin places(t)
        BY <3>2 DEF k
      <4>4. Cardinality(places(t) \cup {k}) = Cardinality(places(t)) + 1
        BY <3>2, <4>3, FS_AddElement
      <4>5. QED
        BY <2>1, <2>2, <2>6, <3>3, <4>1, <4>2, <4>4
    <3>5. CASE x \notin V
      <4>1. upTo(m) = upTo(n) /\ places(Append(t, x)) = places(t)
        BY <2>3, <3>1, <3>5
      <4>2. QED
        BY <2>1, <2>2, <2>6, <3>3, <4>1
    <3>6. QED
      BY <3>4, <3>5
  <2>7. QED
    BY <2>5, <2>6
<1>6. Len(s) \in Good
  <2> HIDE DEF Good
  <2>1. QED
    BY <1>1, <1>4, <1>5, Inductive
<1>7. upTo(Len(s)) = I \cap Spots(s, V)
  BY DEF Spots
<1>8. QED
  BY <1>1, <1>2, <1>6, <1>7

\* What Kept leaves of a sequence of no or one element.
LEMMA KeptOfOne ==
  ASSUME NEW m, NEW I
  PROVE  /\ Kept(<<>>, I) = <<>>
         /\ 1 \in I => Kept(<<m>>, I) = <<m>>
         /\ 1 \notin I => Kept(<<m>>, I) = <<>>
<1>1. Kept(<<>>, I) = <<>>
  <2>1. Len(<<>>) = 0 /\ Len(<<>>) \in Nat
    OBVIOUS
  <2>2. PICK f : /\ f = [n \in 0..Len(<<>>) |-> IF n = 0 THEN <<>>
                                            ELSE IF n \in I THEN Append(f[n - 1], <<>>[n])
                                            ELSE f[n - 1]]
                 /\ Kept(<<>>, I) = f[Len(<<>>)]
    BY <2>1, KeptDef
  <2>3. QED
    BY <2>1, <2>2
<1>2. Kept(<<m>>, I) = IF 1 \in I THEN <<m>> ELSE <<>>
  <2> DEFINE s == <<m>>
  <2>1. Len(s) = 1 /\ Len(s) \in Nat /\ s[1] = m
    OBVIOUS
  <2> HIDE DEF s
  <2>2. PICK f : /\ f = [n \in 0..Len(s) |-> IF n = 0 THEN <<>>
                                            ELSE IF n \in I THEN Append(f[n - 1], s[n])
                                            ELSE f[n - 1]]
                 /\ Kept(s, I) = f[Len(s)]
    BY <2>1, KeptDef
  <2>3. f[0] = <<>>
    BY <2>1, <2>2
  <2>4. f[1] = IF 1 \in I THEN Append(f[0], s[1]) ELSE f[0]
    BY <2>1, <2>2
  <2>5. Append(<<>>, m) = <<m>>
    OBVIOUS
  <2>6. Kept(s, I) = IF 1 \in I THEN <<m>> ELSE <<>>
    BY <2>1, <2>2, <2>3, <2>4, <2>5
  <2>7. QED
    BY <2>6 DEF s
<1>3. QED
  BY <1>1, <1>2

\* The concatenation of two sequences, given as functions.
LEMMA JoinOfTwo ==
  ASSUME NEW m \in Nat, NEW n \in Nat, NEW a, NEW b,
         a = [i \in 1..m |-> a[i]], b = [i \in 1..n |-> b[i]]
  PROVE  a \o b = [i \in 1..(m + n) |-> IF i <= m THEN a[i] ELSE b[i - m]]
<1> DEFINE X == {a[i] : i \in 1..m} \cup {b[i] : i \in 1..n}
           ab == a \o b
<1>1. a \in [1..m -> X] /\ b \in [1..n -> X]
  OBVIOUS
<1> HIDE DEF X
<1>2. a \in Seq(X) /\ Len(a) = m /\ b \in Seq(X) /\ Len(b) = n
  BY <1>1
<1>3. /\ ab \in Seq(X) /\ Len(ab) = m + n
      /\ \A i \in 1..(m + n) : ab[i] = IF i <= m THEN a[i] ELSE b[i - m]
  <2>1. ASSUME NEW c \in Seq(X), NEW d \in Seq(X)
        PROVE  /\ c \o d \in Seq(X) /\ Len(c \o d) = Len(c) + Len(d)
               /\ \A i \in 1..(Len(c) + Len(d)) :
                    (c \o d)[i] = IF i <= Len(c) THEN c[i] ELSE d[i - Len(c)]
    OBVIOUS
  <2>2. QED
    BY <1>2, <2>1
<1> HIDE DEF ab
<1>4. ab = [i \in 1..(m + n) |-> ab[i]]
  BY <1>3
<1>5. QED
  BY <1>3, <1>4 DEF ab

-------------------------------------------------------------------------------
\* PushAll keeps the queue well formed, keeps what was there, stamps what it
\* adds with the counters it uses up and adds exactly one entry per event.
LEMMA PushAllOK ==
  ASSUME NEW Event, NEW q, QueueOK(q, Event), NEW evs \in Seq(Event)
  PROVE  /\ QueueOK(PushAll(q, evs), Event)
         /\ \A e \in PushAll(q, evs).entries :
              \/ e \in q.entries
              \/ e.seq >= q.counter /\ \E i \in 1..Len(evs) : e.event = evs[i]
         /\ Cardinality(PushAll(q, evs).entries) = Cardinality(q.entries) + Len(evs)
<1> DEFINE stamped(i) == Entry(evs[i], q.counter + i - 1)
           added == {stamped(i) : i \in 1..Len(evs)}
           stamp == [i \in 1..Len(evs) |-> stamped(i)]
<1>1. Len(evs) \in Nat /\ \A i \in 1..Len(evs) : evs[i] \in Event
  OBVIOUS
<1>2. q.counter \in Nat /\ q.entries \subseteq EntrySet(Event)
  BY DEF QueueOK
<1>3. /\ PushAll(q, evs).entries = q.entries \cup added
      /\ PushAll(q, evs).counter = q.counter + Len(evs)
      /\ PushAll(q, evs) = [entries |-> q.entries \cup added, counter |-> q.counter + Len(evs)]
  BY DEF PushAll
<1>4. \A i \in 1..Len(evs) : /\ stamped(i) \in EntrySet(Event)
                             /\ stamped(i).event = evs[i]
                             /\ stamped(i).seq = q.counter + i - 1
                             /\ stamped(i).seq >= q.counter
                             /\ stamped(i).seq < q.counter + Len(evs)
  BY <1>1, <1>2 DEF Entry, EntrySet
<1>5. added \subseteq EntrySet(Event)
  BY <1>4
<1>6. stamp \in Bijection(1..Len(evs), added)
  <2>1. stamp \in [1..Len(evs) -> added]
    OBVIOUS
  <2>2. \A i, j \in 1..Len(evs) : stamp[i] = stamp[j] => i = j
    BY <1>1, <1>2, <1>4
  <2>3. \A x \in added : \E i \in 1..Len(evs) : stamp[i] = x
    OBVIOUS
  <2> HIDE DEF added, stamp
  <2>4. QED
    BY <2>1, <2>2, <2>3 DEF Bijection, Injection, Surjection, IsInjective
<1>7. IsFiniteSet(added) /\ Cardinality(added) = Len(evs)
  <2>1. IsFiniteSet(1..Len(evs)) /\ Cardinality(1..Len(evs)) = Len(evs)
    <3>1. 1 \in Int /\ Len(evs) \in Int
      BY <1>1
    <3>2. /\ IsFiniteSet(1..Len(evs))
          /\ Cardinality(1..Len(evs)) = IF 1 > Len(evs) THEN 0 ELSE Len(evs) - 1 + 1
      BY <3>1, FS_Interval, Zenon
    <3>3. QED
      BY <1>1, <3>2
  <2>2. ExistsBijection(1..Len(evs), added)
    BY <1>6 DEF ExistsBijection
  <2>3. QED
    BY <2>1, <2>2, FS_Bijection
<1>8. q.entries \cap added = {}
  BY <1>2, <1>4 DEF QueueOK, EntrySet
<1>9. /\ IsFiniteSet(q.entries \cup added)
      /\ Cardinality(q.entries \cup added) = Cardinality(q.entries) + Len(evs)
  <2>1. IsFiniteSet(q.entries) /\ Cardinality(q.entries) \in Nat
    BY FS_CardinalityType DEF QueueOK
  <2>2. Cardinality(q.entries \cap added) = 0
    BY <1>8, FS_EmptySet
  <2> HIDE DEF added
  <2>3. /\ IsFiniteSet(q.entries \cup added)
        /\ Cardinality(q.entries \cup added) =
             Cardinality(q.entries) + Cardinality(added) - Cardinality(q.entries \cap added)
    BY <2>1, <1>7, FS_Union, Zenon
  <2>4. QED
    BY <2>1, <2>2, <2>3, <1>1, <1>7
<1>10. \A e \in q.entries \cup added : e.seq < q.counter + Len(evs)
  BY <1>1, <1>2, <1>4 DEF QueueOK, EntrySet
<1>11. \A e, f \in q.entries \cup added : e.seq = f.seq => e = f
  <2>1. ASSUME NEW e \in q.entries, NEW f \in added  PROVE e.seq # f.seq
    BY <1>2, <1>4 DEF QueueOK, EntrySet
  <2>2. ASSUME NEW e \in added, NEW f \in added, e.seq = f.seq  PROVE e = f
    <3>1. PICK i \in 1..Len(evs) : e = stamped(i)
      OBVIOUS
    <3>2. PICK j \in 1..Len(evs) : f = stamped(j)
      OBVIOUS
    <3>3. e.seq = q.counter + i - 1 /\ f.seq = q.counter + j - 1
      BY <3>1, <3>2, <1>4
    <3>4. i = j
      BY <2>2, <3>1, <3>2, <3>3, <1>1, <1>2
    <3>5. QED
      BY <3>1, <3>2, <3>4
  <2>3. QED
    BY <2>1, <2>2 DEF QueueOK
<1>12. \A e \in q.entries \cup added :
         \/ e \in q.entries
         \/ e.seq >= q.counter /\ \E i \in 1..Len(evs) : e.event = evs[i]
  BY <1>4
<1> HIDE DEF added
<1>13. QED
  BY <1>1, <1>2, <1>3, <1>5, <1>9, <1>10, <1>11, <1>12 DEF QueueOK

\* push is push_all of one event.
LEMMA PushIsPushAll ==
  ASSUME NEW Event, NEW q, QueueOK(q, Event), NEW ev
  PROVE  Push(q, ev) = PushAll(q, <<ev>>)
<1>1. q.counter \in Nat
  BY DEF QueueOK
<1>2. Len(<<ev>>) = 1 /\ <<ev>>[1] = ev
  OBVIOUS
<1>3. {Entry(<<ev>>[i], q.counter + i - 1) : i \in 1..Len(<<ev>>)} = {Entry(ev, q.counter)}
  <2>1. 1..Len(<<ev>>) = {1}
    BY <1>2
  <2>2. q.counter + 1 - 1 = q.counter
    BY <1>1
  <2>3. QED
    BY <2>1, <2>2, <1>2
<1>4. QED
  BY <1>2, <1>3 DEF Push, PushAll

\* Removing an entry keeps the queue well formed and one smaller.
LEMMA WithoutOK ==
  ASSUME NEW Event, NEW q, QueueOK(q, Event), NEW e \in q.entries
  PROVE  /\ QueueOK(Without(q, {e}), Event)
         /\ Without(q, {e}).entries = q.entries \ {e}
         /\ Without(q, {e}).counter = q.counter
         /\ Cardinality(Without(q, {e}).entries) = Cardinality(q.entries) - 1
<1>1. /\ Without(q, {e}).entries = q.entries \ {e}
      /\ Without(q, {e}).counter = q.counter
      /\ Without(q, {e}) = [entries |-> q.entries \ {e}, counter |-> q.counter]
  BY DEF Without
<1>2. IsFiniteSet(q.entries)
  BY DEF QueueOK
<1>3. /\ IsFiniteSet(q.entries \ {e})
      /\ Cardinality(q.entries \ {e}) = Cardinality(q.entries) - 1
  BY <1>2, FS_RemoveElement, Zenon
<1>4. QED
  BY <1>1, <1>3 DEF QueueOK
===============================================================================

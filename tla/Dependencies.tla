------------------------------ MODULE Dependencies ------------------------------
(***************************************************************************)
(* What a dependency list asks of an execution order, as definitions that  *)
(* know nothing of Kahn's algorithm.  A dependency [from, to] says that    *)
(* `from` depends on `to`, which must execute first (NodeDependency,       *)
(* src/executor/tick.rs:15-27).                                            *)
(***************************************************************************)
EXTENDS Naturals, Sequences, FiniteSets

\* Mutant: only the dependent is looked up.
RelevantFrom(deps, N) == {i \in DOMAIN deps : deps[i].from \in N}

\* Dependencies that mention a node of another subgraph are skipped.
Relevant(deps, N) == {i \in DOMAIN deps : deps[i].from \in N /\ deps[i].to \in N}

Prerequisites(n, deps, N) == {deps[i].to : i \in {j \in Relevant(deps, N) : deps[j].from = n}}

\* Some nodes wait for each other, so that none of them can be first.
Cyclic(deps, N) ==
  \E S \in (SUBSET N) \ {{}} : \A n \in S : Prerequisites(n, deps, N) \cap S # {}

\* Mutant: the edges read backwards.
IsReversedOrder(order, deps, N) ==
  /\ Len(order) = Cardinality(N)
  /\ {order[i] : i \in DOMAIN order} = N
  /\ \A i \in DOMAIN order :
       Prerequisites(order[i], deps, N) \subseteq {order[j] : j \in (i + 1)..Len(order)}

\* Every node once, each after all that it depends on.
IsTopologicalOrder(order, deps, N) ==
  /\ Len(order) = Cardinality(N)
  /\ {order[i] : i \in DOMAIN order} = N
  /\ \A i \in DOMAIN order :
       Prerequisites(order[i], deps, N) \subseteq {order[j] : j \in 1..(i - 1)}
===============================================================================

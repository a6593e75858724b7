---------------------------- MODULE TopologicalOrder ----------------------------
(***************************************************************************)
(* compute_execution_order (src/executor/tick.rs:107-159): Kahn's          *)
(* algorithm, one step per node taken from the queue and one per edge it   *)
(* relieves.  The first queue is filled by iterating over a HashMap, so    *)
(* it may hold the nodes without dependencies in any order.                *)
(***************************************************************************)
EXTENDS Dependencies, Subsequences

CONSTANTS
  Nodes,    \* the keys of `nodes` when the order is computed
  Others,   \* ids that dependencies mention but this executor does not own
  MaxDeps,    \* bound: length of a dependency list
  MaxForeign  \* bound: how many of them mention an id of Others

ASSUME OrderAssumption ==
  IsFiniteSet(Nodes) /\ Nodes \cap Others = {}
  /\ MaxDeps \in Nat /\ MaxForeign \in Nat

VARIABLES
  execution_order,
  deps,        \* argument of the current call; locals are empty between calls
  sorting,     \* inside compute_execution_order
  in_degree,   \* node -> edges into it not yet relieved
  queue,       \* nodes without unrelieved edges, VecDeque
  relieving,   \* rest of adj[node] still to walk, for the node taken last
  order,       \* the local `order`
  result       \* of the last call: "none", "ok" or "err"

vars == <<execution_order, deps, sorting, in_degree, queue, relieving, order, result>>

Dependency == [from : Nodes \cup Others, to : Nodes \cup Others]
DependencyLists ==
  {list \in UNION {[1..n -> Dependency] : n \in 0..MaxDeps} :
    Cardinality(DOMAIN list \ Relevant(list, Nodes)) <= MaxForeign}

Members(s) == {s[i] : i \in DOMAIN s}
Enumerations(S) ==
  {s \in [1..Cardinality(S) -> S] : Members(s) = S}

\* Mutant: adjacency by dependent.
AdjacentReversed(node, list) ==
  LET edges == Kept(list, {i \in Relevant(list, Nodes) : list[i].from = node})
  IN  [i \in DOMAIN edges |-> edges[i].to]

\* adj[node]: who depends on node, once per dependency, in the list's order.
Adjacent(node, list) ==
  LET edges == Kept(list, {i \in Relevant(list, Nodes) : list[i].to = node})
  IN  [i \in DOMAIN edges |-> edges[i].from]

Degree(n, list) == Cardinality({i \in Relevant(list, Nodes) : list[i].from = n})

-------------------------------------------------------------------------------
Init ==
  /\ execution_order = <<>>
  /\ deps = <<>>
  /\ sorting = FALSE
  /\ in_degree = [n \in Nodes |-> 0]
  /\ queue = <<>>
  /\ relieving = <<>>
  /\ order = <<>>
  /\ result = "none"

\* Up to the filling of the queue.
BeginSort(list) ==
  /\ ~sorting
  /\ sorting' = TRUE
  /\ deps' = list
  /\ in_degree' = [n \in Nodes |-> Degree(n, list)]
  /\ queue' \in Enumerations({n \in Nodes : Degree(n, list) = 0})
  /\ relieving' = <<>>
  /\ order' = <<>>
  /\ result' = "none"
  /\ UNCHANGED execution_order

TakeNode ==
  /\ sorting /\ relieving = <<>> /\ queue # <<>>
  /\ order' = Append(order, Head(queue))
  /\ queue' = Tail(queue)
  /\ relieving' = Adjacent(Head(queue), deps)
  /\ UNCHANGED <<execution_order, deps, sorting, in_degree, result>>

\* A usize: at 0 the decrement would overflow.
RelieveEdge ==
  LET next == Head(relieving)
  IN  /\ sorting /\ relieving # <<>>
      /\ relieving' = Tail(relieving)
      /\ in_degree' = [in_degree EXCEPT ![next] = @ - 1]
      /\ queue' = IF in_degree[next] = 1 THEN Append(queue, next) ELSE queue
      /\ UNCHANGED <<execution_order, deps, sorting, order, result>>

\* Mutant: the order's length is not compared.
FinishUnchecked ==
  /\ sorting /\ relieving = <<>> /\ queue = <<>>
  /\ sorting' = FALSE
  /\ result' = "ok" /\ execution_order' = order
  /\ deps' = <<>> /\ order' = <<>>
  /\ in_degree' = [n \in Nodes |-> 0]
  /\ UNCHANGED <<queue, relieving>>

FinishSort ==
  /\ sorting /\ relieving = <<>> /\ queue = <<>>
  /\ sorting' = FALSE
  /\ IF Len(order) # Cardinality(Nodes)
     THEN result' = "err" /\ UNCHANGED execution_order
     ELSE result' = "ok" /\ execution_order' = order
  /\ deps' = <<>>
  /\ in_degree' = [n \in Nodes |-> 0]
  /\ order' = <<>>
  /\ UNCHANGED <<queue, relieving>>

Next ==
  \/ \E list \in DependencyLists : BeginSort(list)
  \/ TakeNode
  \/ RelieveEdge
  \/ FinishSort

Spec == Init /\ [][Next]_vars

-------------------------------------------------------------------------------
\* What the loop keeps true: an in_degree counts, with multiplicity, the
\* dependencies whose prerequisite has not relieved them yet, so the usize never
\* underflows; a node is queued or ordered exactly when its count is zero, and then
\* once.
CountsAreExact ==
  sorting =>
    LET owed(n)   == Cardinality({i \in DOMAIN relieving : relieving[i] = n})
        served    == order \o queue
    IN  /\ \A n \in Nodes :
             in_degree[n] = owed(n) + Cardinality({i \in Relevant(deps, Nodes) :
                              deps[i].from = n /\ deps[i].to \notin Members(order)})
        /\ Members(served) = {n \in Nodes : in_degree[n] = 0}
        /\ Len(served) = Cardinality(Members(served))

\* "to must execute before from" and "Err with a message if there's a cycle"
\* (tick.rs:103-106): the call succeeds exactly when some order exists,
\* installs one that respects every dependency, and a cycle leaves the old one.
SortsOrRejects ==
  [][sorting /\ ~sorting' =>
       IF Cyclic(deps, Nodes)
       THEN result' = "err" /\ execution_order' = execution_order
       ELSE result' = "ok" /\ IsTopologicalOrder(execution_order', deps, Nodes)]_vars
===============================================================================

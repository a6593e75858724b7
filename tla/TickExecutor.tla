------------------------------ MODULE TickExecutor ------------------------------
(***************************************************************************)
(* TickSubgraphExecutor (src/executor/tick.rs): the tick-driven executor   *)
(* of one subgraph.  A run_until call is a BeginRun step; for each tick a  *)
(* StartTick step, one step per entry of the execution order and an        *)
(* EndTick step; and a ReturnFromRun step.  Calls of the owner come        *)
(* between runs.  compute_execution_order is one step here; TopologicalOrder *)
(* shows that its algorithm takes exactly that step.                       *)
(*                                                                         *)
(* on_tick is any function to at most MaxFanout events stamped with the    *)
(* tick's time, as PipelineStageNode and SourceNode stamp theirs.          *)
(***************************************************************************)
EXTENDS Dependencies

CONSTANTS
  Nodes,        \* nodes that may be added to the executor
  Others,       \* ids an explicit order may name and no node has
  TickPeriod,
  MaxTime,      \* bound: targets and incoming stamps are 0..MaxTime
  MaxOrder,     \* bound: length of an explicit order
  MaxDeps,      \* bound: length of a dependency list
  MaxIncoming,  \* bound: incoming events between two inits
  MaxFanout     \* bound: events one on_tick returns

ASSUME TickAssumption ==
  /\ IsFiniteSet(Nodes) /\ Nodes \cap Others = {}
  /\ TickPeriod \in Nat /\ MaxTime \in Nat /\ MaxOrder \in Nat
  /\ MaxDeps \in Nat /\ MaxIncoming \in Nat /\ MaxFanout \in Nat

VARIABLES
  current_time,
  nodes,            \* keys of the node map
  execution_order,
  incoming_events,  \* times of the buffered events
  stats,            \* TickExecutorStats
  phase,            \* "idle", or "running" inside run_until
  target,           \* argument of the current or last run_until
  pos,              \* entry of the order that step_tick visits next, 0 between ticks
  all_events,       \* what the run has collected
  wanted,           \* history: what the order was computed from, see Wanted
  ticked,           \* history: nodes invoked in the current tick, in order
  start             \* history: the clock when the current or last run began

vars == <<current_time, nodes, execution_order, incoming_events, stats, phase,
          target, pos, all_events, wanted, ticked, start>>
owned == <<nodes, execution_order, wanted>>

Ids == Nodes \cup Others
Dependency == [from : Ids, to : Ids]
SeqsUpTo(S, n) == UNION {[1..k -> S] : k \in 0..n}
Members(s) == {s[i] : i \in DOMAIN s}
Event == [time : Nat, src : Nodes]

\* The nodes and dependencies of the last successful compute_execution_order;
\* an explicit order promises nothing.
Wanted == [nodes : SUBSET Nodes, deps : Seq(Dependency)]
NothingWanted == [nodes |-> {}, deps |-> <<>>]

NoStats == [ticks |-> 0, invocations |-> 0, generated |-> 0, incoming |-> 0]

-------------------------------------------------------------------------------
Init ==
  /\ current_time = 0
  /\ nodes = {}
  /\ execution_order = <<>>
  /\ incoming_events = <<>>
  /\ stats = NoStats
  /\ phase = "idle"
  /\ target = 0
  /\ pos = 0
  /\ all_events = <<>>
  /\ wanted = NothingWanted
  /\ ticked = <<>>
  /\ start = 0

\* SubgraphExecutor::init: nodes and order survive.
InitExecutor ==
  /\ phase = "idle"
  /\ current_time' = 0
  /\ incoming_events' = <<>>
  /\ stats' = NoStats
  /\ target' = 0 /\ start' = 0
  /\ all_events' = <<>>
  /\ UNCHANGED <<owned, phase, pos, ticked>>

AddNode(n) ==
  /\ phase = "idle"
  /\ nodes' = nodes \cup {n}
  /\ UNCHANGED <<current_time, execution_order, incoming_events, stats, phase,
                 target, pos, all_events, wanted, ticked, start>>

SetExecutionOrder(order) ==
  /\ phase = "idle"
  /\ execution_order' = order
  /\ wanted' = NothingWanted
  /\ UNCHANGED <<current_time, nodes, incoming_events, stats, phase, target, pos,
                 all_events, ticked, start>>

\* A cycle is an error that changes nothing.
ComputeExecutionOrder(deps) ==
  /\ phase = "idle"
  /\ \E order \in [1..Cardinality(nodes) -> nodes] :
       /\ IsTopologicalOrder(order, deps, nodes)
       /\ execution_order' = order
  /\ wanted' = [nodes |-> nodes, deps |-> deps]
  /\ UNCHANGED <<current_time, nodes, incoming_events, stats, phase, target, pos,
                 all_events, ticked, start>>

HandleIncoming(times) ==
  /\ phase = "idle"
  /\ stats.incoming + Len(times) <= MaxIncoming
  /\ stats' = [stats EXCEPT !.incoming = @ + Len(times)]
  /\ incoming_events' = incoming_events \o times
  /\ UNCHANGED <<current_time, owned, phase, target, pos, all_events, ticked, start>>

BeginRun(t) ==
  /\ phase = "idle"
  /\ phase' = "running"
  /\ target' = t
  /\ start' = current_time
  /\ all_events' = <<>>
  /\ UNCHANGED <<current_time, owned, incoming_events, stats, pos, ticked>>

\* Mutant: the clock jumps to the target.
StartTickAtTarget ==
  /\ phase = "running" /\ pos = 0
  /\ current_time + TickPeriod <= target
  /\ current_time' = target
  /\ pos' = 1
  /\ UNCHANGED <<owned, incoming_events, stats, phase, target, all_events, ticked, start>>

StartTick ==
  /\ phase = "running" /\ pos = 0
  /\ current_time + TickPeriod <= target
  /\ current_time' = current_time + TickPeriod
  /\ pos' = 1
  /\ UNCHANGED <<owned, incoming_events, stats, phase, target, all_events, ticked, start>>

\* Mutants: ids without a node are invoked too; the latest events come first.
TickUnknown(generated) ==
  /\ pos \in DOMAIN execution_order
  /\ pos' = pos + 1
  /\ ticked' = Append(ticked, execution_order[pos])
  /\ UNCHANGED <<current_time, owned, incoming_events, stats, phase, target, all_events, start>>
TickPrepending(generated) ==
  LET n == execution_order[pos]
  IN  /\ pos \in DOMAIN execution_order /\ n \in nodes
      /\ pos' = pos + 1
      /\ stats' = [stats EXCEPT !.invocations = @ + 1, !.generated = @ + generated]
      /\ all_events' = [i \in 1..generated |-> [time |-> current_time, src |-> n]] \o all_events
      /\ ticked' = Append(ticked, n)
      /\ UNCHANGED <<current_time, owned, incoming_events, phase, target, start>>

\* The next entry of the order; ids without a node are passed over.
TickNode(generated) ==
  LET n == execution_order[pos]
      fromNode == [i \in 1..generated |-> [time |-> current_time, src |-> n]]
  IN  /\ pos \in DOMAIN execution_order /\ n \in nodes
      /\ pos' = pos + 1
      /\ stats' = [stats EXCEPT !.invocations = @ + 1, !.generated = @ + generated]
      /\ all_events' = all_events \o fromNode
      /\ ticked' = Append(ticked, n)
      /\ UNCHANGED <<current_time, owned, incoming_events, phase, target, start>>

SkipUnknown ==
  /\ pos \in DOMAIN execution_order /\ execution_order[pos] \notin nodes
  /\ pos' = pos + 1
  /\ UNCHANGED <<current_time, owned, incoming_events, stats, phase, target,
                 all_events, ticked, start>>

EndTick ==
  /\ pos = Len(execution_order) + 1
  /\ pos' = 0
  /\ stats' = [stats EXCEPT !.ticks = @ + 1]
  /\ ticked' = <<>>
  /\ UNCHANGED <<current_time, owned, incoming_events, phase, target, all_events, start>>

\* Mutant: the loop waits until the clock reaches the target.
ReturnAtTarget ==
  /\ phase = "running" /\ pos = 0
  /\ current_time + TickPeriod > target
  /\ IF current_time >= target THEN phase' = "idle" ELSE UNCHANGED phase
  /\ UNCHANGED <<current_time, owned, incoming_events, stats, target, pos,
                 all_events, ticked, start>>

\* No further tick fits; unlike the event executor's, the clock stays behind.
ReturnFromRun ==
  /\ phase = "running" /\ pos = 0
  /\ current_time + TickPeriod > target
  /\ phase' = "idle"
  /\ UNCHANGED <<current_time, owned, incoming_events, stats, target, pos,
                 all_events, ticked, start>>

RunStep ==
  \/ StartTick
  \/ \E k \in 0..MaxFanout : TickNode(k)
  \/ SkipUnknown
  \/ EndTick
  \/ ReturnFromRun

Next ==
  \/ InitExecutor
  \/ \E n \in Nodes : AddNode(n)
  \/ \E order \in SeqsUpTo(Ids, MaxOrder) : SetExecutionOrder(order)
  \/ \E deps \in SeqsUpTo(Dependency, MaxDeps) : ComputeExecutionOrder(deps)
  \/ \E times \in SeqsUpTo(0..MaxTime, MaxIncoming) : HandleIncoming(times)
  \/ \E t \in 0..MaxTime : BeginRun(t)
  \/ RunStep

Spec == Init /\ [][Next]_vars

\* Once called, run_until keeps looping.
FairSpec == Spec /\ WF_vars(RunStep)

-------------------------------------------------------------------------------
\* The types of the state of TickSubgraphExecutor and of the run it is in.
TypeOK ==
  /\ current_time \in Nat
  /\ nodes \in SUBSET Nodes
  /\ execution_order \in Seq(Ids)
  /\ incoming_events \in Seq(0..MaxTime)
  /\ stats \in [ticks : Nat, invocations : Nat, generated : Nat, incoming : Nat]
  /\ phase \in {"idle", "running"}
  /\ target \in Nat
  /\ pos \in 0..(Len(execution_order) + 1)
  /\ all_events \in Seq(Event)
  /\ wanted \in Wanted
  /\ ticked \in Seq(Nodes)
  /\ start \in Nat

\* The clock counts the ticks since init, one period each, so it never leaves
\* the tick grid, whatever targets it is given; it never passes a target, and a
\* finished run leaves it less than one period short.
ClockOnGrid ==
  /\ current_time = (stats.ticks + (IF pos = 0 THEN 0 ELSE 1)) * TickPeriod
  /\ current_time <= target \/ current_time = start
  /\ phase = "idle" /\ TickPeriod > 0 => target < current_time + TickPeriod

\* "Calls each node's on_tick() at every tick boundary", in "topological order"
\* (tick.rs:3-4, 46-47): with a computed order, a tick invokes no node before its
\* prerequisites or twice, and by its end all nodes the order was computed for.
\* Nodes added since are never invoked.
DependenciesFirst ==
  pos > 0 /\ wanted # NothingWanted =>
    /\ \A i \in DOMAIN ticked :
         Prerequisites(ticked[i], wanted.deps, wanted.nodes)
           \subseteq {ticked[j] : j \in 1..(i - 1)}
    /\ Cardinality(Members(ticked)) = Len(ticked)
    /\ Members(ticked) \subseteq wanted.nodes
    /\ pos = Len(execution_order) + 1 => Members(ticked) = wanted.nodes

\* What run_until returns is in the order of the ticks of that run, and within a
\* tick in dependency order, so a consumer's output never precedes that of what it
\* depends on.
OutputFollowsTicks ==
  /\ \A i \in DOMAIN all_events :
       start + TickPeriod <= all_events[i].time /\ all_events[i].time <= current_time
  /\ \A i, j \in DOMAIN all_events : i < j =>
       /\ all_events[i].time <= all_events[j].time
       /\ phase = "running" /\ wanted # NothingWanted
            /\ all_events[i].time = all_events[j].time =>
              all_events[j].src
                \notin Prerequisites(all_events[i].src, wanted.deps, wanted.nodes)

\* A call of run_until returns, when the period is not zero.
RunReturns == phase = "running" ~> phase = "idle"

\* "Pending incoming events (buffered until the appropriate tick)" (tick.rs:60):
\* once the ticks have passed an event's time, it is no longer buffered.
IncomingLeaveTheBuffer ==
  phase = "idle" => \A i \in DOMAIN incoming_events : incoming_events[i] >= current_time
===============================================================================

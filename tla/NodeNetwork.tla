------------------------------ MODULE NodeNetwork ------------------------------
(***************************************************************************)
(* The event executor (EventExecutor) with nodes of src/nodes              *)
(* (BuiltInNodes) in it, instead of arbitrary ones: a network whose nodes  *)
(* forward to each other, fed by a source node of another subgraph.  One   *)
(* iteration of run_until's loop is one step, in which the addressed node  *)
(* handles its event and the executor queues or collects the answer.       *)
(***************************************************************************)
EXTENDS EventExecutor, BuiltInNodes, Subsequences, Functions

CONSTANTS
  Source,    \* a node outside this subgraph, driven by ticks
  Networks   \* the networks to consider: node id -> the node as new made it

\* Nodes do not know each other but by id, and an id may be nobody's; some
\* nodes add nothing to an event's time; none returns more than one event.
ASSUME NetworkAssumption ==
  /\ Source \in RemoteNodes /\ Nobody \notin LocalNodes \cup RemoteNodes
  /\ IsFiniteSet(LocalNodes)
  /\ 0 \in Delays /\ MaxFanout >= 1
  /\ MaxSample \in Nat
  /\ \A net \in Networks :
       /\ net \in [LocalNodes \cup {Source} -> Node(LocalNodes \cup RemoteNodes, Delays)]
       /\ net[Source].kind = "source" /\ net[Source].target \in LocalNodes
       /\ \A n \in DOMAIN net : net[n] = Reset(net[n])

VARIABLES
  node,      \* the nodes, of the executor and the source
  ticked,    \* time of the source's last tick
  arrived    \* history: the events that counter nodes have handled, in order

netVars == <<vars, node, ticked, arrived>>

NetInit ==
  /\ Init
  /\ node \in Networks
  /\ ticked = 0
  /\ arrived = <<>>

\* Mutant: the executors forget their nodes.
InitQueueOnly ==
  /\ InitExecutor
  /\ ticked' = 0
  /\ arrived' = <<>>
  /\ UNCHANGED node

\* init of this executor and of the source's.
InitNetwork ==
  /\ InitExecutor
  /\ node' = [n \in DOMAIN node |-> Reset(node[n])]
  /\ ticked' = 0
  /\ arrived' = <<>>

\* A tick of the source, whose event is handed over, maybe after its time.  Its
\* data may have what a MatchKey filter of this network looks for.
SourceTick(t, matches) ==
  LET made == SourceOnTick(Source, node[Source], t, matches)
  IN  /\ t >= ticked
      /\ HandleIncoming(made.out)
      /\ node' = [node EXCEPT ![Source] = made.node]
      /\ ticked' = t
      /\ UNCHANGED arrived

StartRun(t) == BeginRun(t) /\ UNCHANGED <<node, ticked, arrived>>

\* The places of the events that are, or are not, for a node of the executor.
LocalOf(evs) == {i \in DOMAIN evs : evs[i].dst \in LocalNodes}
RemoteOf(evs) == DOMAIN evs \ LocalOf(evs)

\* One iteration of the loop: what the node answers is split by destination.
HandleFirst ==
  \E e \in queue.entries :
    LET id == e.event.dst
    IN  \E result \in OnEvent(id, node[id], e.event) :
          LET out == result.out
          IN  /\ HandleEvent(e, Kept(out, LocalOf(out)), Kept(out, RemoteOf(out)))
              /\ node' = [node EXCEPT ![id] = result.node]
              /\ arrived' = IF node[id].kind = "counter" THEN Append(arrived, e.event)
                            ELSE arrived
              /\ UNCHANGED ticked

Return == ReturnFromRun /\ UNCHANGED <<node, ticked, arrived>>

\* What a key filter tells apart, if there is one.
Contents ==
  IF \E n \in LocalNodes : node[n].kind = "enhanced" /\ node[n].filter = MatchKey
  THEN BOOLEAN ELSE {FALSE}

NetNext ==
  \/ InitNetwork
  \/ \E t \in 0..MaxTime, matches \in Contents : SourceTick(t, matches)
  \/ \E t \in 0..MaxTime : StartRun(t)
  \/ HandleFirst
  \/ Return

NetSpec == NetInit /\ [][NetNext]_netVars

\* As in EventExecutor: a called run_until keeps running.
FairNetSpec == NetSpec /\ WF_netVars(HandleFirst) /\ WF_netVars(Return)

-------------------------------------------------------------------------------
\* EventExecutor keeps an event's time and destination only.
Plain(ev) == [time |-> ev.time, dst |-> ev.dst]
PlainEntries(entries) == {[event |-> Plain(e.event), seq |-> e.seq] : e \in entries}

Executor == INSTANCE EventExecutor WITH
  queue        <- [entries |-> PlainEntries(queue.entries), counter |-> queue.counter],
  all_outgoing <- [i \in DOMAIN all_outgoing |-> Plain(all_outgoing[i])],
  run          <- [run EXCEPT !.last = PlainEntries(@)]

\* Every node of src/nodes keeps the contract under which EventExecutor is
\* checked and proved: its answers are stamped with the time of the event it
\* handles plus a delay (delay.rs:117, probabilistic.rs:207, passthrough.rs:254),
\* and a network of them, with its feedback loops, generates no more than the
\* executor's bound.  So what holds of EventExecutor holds of these networks.
ImplementsExecutor == Executor!Spec

\* The statistics of the nodes add up to those of their executor, whatever is
\* filtered, delayed or echoed: each event processed was handled by one node, if
\* every node counts what it is handed, and each one generated is in its maker's
\* count.  With a target, a pass-through node passes or filters what it receives.
CountersAgree ==
  /\ (\A n \in LocalNodes : CountsAll(node[n])) =>
       stats.processed = SumFunction([n \in LocalNodes |-> Handled(node[n])])
  /\ stats.generated = SumFunction([n \in LocalNodes |-> Answered(node[n])])
  /\ stats.incoming = node[Source].generated
  /\ \A n \in LocalNodes :
       node[n].kind = "enhanced" /\ node[n].forward_to # Nobody =>
         node[n].received = node[n].passed + node[n].filtered

\* The events that are still on their way or have arrived at a counter.
Known == {e.event : e \in queue.entries} \cup {arrived[i] : i \in DOMAIN arrived}

\* The nodes in S lose nothing: they are counters or forward to nodes in S, and
\* leave the number in an event as it is.
Keeps(S) ==
  \A n \in S : \/ node[n].kind = "counter"
               \/ /\ node[n].kind \in {"simple", "passthrough", "delay", "probabilistic"}
                  /\ node[n].forward_to \in S

\* A path from the source to a counter on which no node echoes or draws a delay.
Line(path) ==
  LET last == Len(path)
  IN  /\ path[1] = node[Source].target
      /\ \A i, j \in 1..last : path[i] = path[j] => i = j
      /\ \A i \in 1..(last - 1) :
           /\ ForwardsInOrder(node[path[i]])
           /\ node[path[i]].forward_to = path[i + 1]
      /\ node[path[last]].kind = "counter"

\* "Only pass every Nth event" and "Add a sequence number" (passthrough.rs:18, 32):
\* of the events a sampling node receives exactly every Nth passes, and the
\* numbers it gives are 0, 1, 2, ... without a gap or a repetition among the
\* events that passed, whatever was filtered between them, as long as the nodes
\* behind it lose none.  Items arrive in the order in which they were sent,
\* unless a node on their way draws its delays.
SampledAndNumbered ==
  /\ \A p \in LocalNodes :
       LET mine == {ev \in Known : ev.data.number # <<>> /\ ev.data.number[1].by = p}
           numbers == {ev.data.number[1].seq : ev \in mine}
       IN  node[p].kind = "enhanced" /\ node[p].forward_to # Nobody =>
             /\ node[p].filter.mode = "Sample" =>
                  node[p].passed = node[p].received \div node[p].filter.rate
             /\ /\ Numbers(node[p])
                /\ \E S \in SUBSET (LocalNodes \ {p}) : node[p].forward_to \in S /\ Keeps(S)
                => /\ numbers = 0..(node[p].passed - 1)
                   /\ Cardinality(mine) = node[p].passed
  /\ (\E k \in 1..Cardinality(LocalNodes) : \E path \in [1..k -> LocalNodes] : Line(path)) =>
       \A i, j \in DOMAIN arrived : i < j => arrived[i].data.item < arrived[j].data.item

\* The delays a probabilistic node reports are those its events have had: total,
\* minimum and maximum of arrival less departure over all it forwarded, and all
\* of them lie in its distribution's range, where it sends them to a counter
\* and no other node takes time.
LatencyStatistics ==
  \A d \in LocalNodes :
    /\ node[d].kind = "probabilistic"
    /\ node[d].forward_to \in {Nobody} \cup {n \in LocalNodes : node[n].kind = "counter"}
    /\ \A n \in LocalNodes \ {d} :
         node[n].kind \in {"enhanced", "simple", "passthrough", "counter"}
    => LET behind == {ev \in Known : ev.src = d}
           lag == [ev \in behind |-> ev.time - ev.data.sent]
           lags == {lag[ev] : ev \in behind}
       IN  /\ node[d].total_delay = SumFunction(lag)
           /\ lags \subseteq Support(node[d].distribution)
           /\ lags = {} => node[d].min_delay = <<>> /\ node[d].max_delay = <<>>
           /\ lags # {} => /\ node[d].min_delay = <<CHOOSE x \in lags : \A y \in lags : x <= y>>
                           /\ node[d].max_delay = <<CHOOSE x \in lags : \A y \in lags : x >= y>>

\* run_until returns although the nodes of a feedback loop answer each other
\* forever, if going round the loop takes time.
LoopsReturn == phase = "running" ~> phase = "idle"
===============================================================================

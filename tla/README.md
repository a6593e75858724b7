# akiku in TLA+

TLA+ models of the simulation core of akiku, the TLC configurations that check
them on small instances, and TLAPS proofs about them. Paths are relative to the
repository root; `event.rs` below is `src/executor/event.rs`, `tick.rs` is
`src/executor/tick.rs`, `engine.rs` is `src/engine.rs`, `channel.rs` is
`src/channel.rs`, `parallel.rs` is `src/parallel.rs`, and `pipeline.rs`,
`delay.rs`, `passthrough.rs`, `probabilistic.rs` and `mock.rs` are in `src/nodes/`.

To check a model: `tlc -config <run>.cfg <Module>.tla`. To check the proofs of a
module: `tlapm <Module>.tla`.

## 1. The system

akiku simulates a graph of *nodes* that exchange time-stamped *events*. Nodes are
grouped in *subgraphs*; each subgraph has an executor with a local clock, of one
of two kinds. An engine advances all subgraphs together, in rounds of
`time_step`, and carries events between them over *channels* with a latency and
an alignment to the receiver's ticks.

    owner --inject_event--> engine.pending_events
                               |  dispatch_to_subgraphs (every event, at once)
                               v
             handle_incoming --> executor of each subgraph
                                  | run_until(next_time): nodes' on_event / on_tick
             outgoing events  <---+
                               |  process_outgoing: compute_arrival_time per event
                               v
                          engine.pending_events (for the next round)

| component | state | operations |
|---|---|---|
| event queue (`event.rs` 14-92) | BTreeMap keyed by (time, counter), the counter | push, push_all, pop, peek, clear, drain_until |
| event-driven executor (`event.rs`) | local clock, queue, nodes, statistics | schedule_event(s), handle_incoming, run_until, init |
| tick-driven executor (`tick.rs`) | local clock, nodes, execution order, buffered events, statistics | add_node, set_execution_order, compute_execution_order, handle_incoming, run_until, init |
| channel timing (`channel.rs`) | none: latency, alignment rule, tick period to an arrival time | align and the boundary functions, compute_arrival_time, transform_event_time |
| engine (`engine.rs`) | global clock, pending events, subgraphs, channels and their index, statistics | add_subgraph, add_channel, inject_event(s), run, step, run_steps, init |
| parallel engine (`parallel.rs`) | the same behind locks | inject_event, run, step, init; run_until calls on worker threads |
| pipeline stage (`pipeline.rs`) | Idle / Busy / Stalled, the item served, a bounded queue, `downstream_ready`, counters | on_event, on_tick, init |
| pipeline (`pipeline.rs` 314-374) | none: builds the stages | create_stages; the user's code drives the chain |
| other nodes (`delay.rs`, `passthrough.rs`, `probabilistic.rs`, `mock.rs`) | target, delay or distribution, filter, sequence number, counters | on_event, on_tick, init |
| configuration, registries, statistics export | none over time | parsing, look-up, formatting |

What makes the behaviour hard, and what is correct, per component:

* **Event queue.** Nodes insert while the executor's loop takes out, often at the
  same instant. Correct: earliest first, first in first out within an instant,
  nothing replaced or lost, over any sequence of operations.
* **Event-driven executor.** The loop of `run_until` looks at the head, processes
  it, and the node it calls inserts more, possibly for the same instant; and
  `handle_incoming` takes events that are already in the past. Correct: a run
  handles everything due, in order, returns, leaves the clock at the target, and
  sends nothing into its own past.
* **Tick-driven executor.** The order is a snapshot of dependencies, computed from
  a `HashMap` whose iteration differs from process to process; targets need not
  be multiples of the period. Correct: every tick on the grid, every node after
  what it depends on, outputs in tick order, cycles rejected without harm.
* **Channels.** Integer arithmetic on u64 around boundaries. Correct: never before
  `sent + latency`, on a boundary, the least such, and no overtaking.
* **Engines.** Events cross between clocks that are only synchronised once a
  round; subgraphs are advanced in arbitrary order, or concurrently. Correct: the
  clocks stay together whatever the order, no event is lost or duplicated,
  nothing due is left behind, no message is late when the channels are slow
  enough, `run` returns at the first round boundary at or past its target.
  They can be extended while they are in use: a subgraph that is added late starts at
  0, and a second channel for a pair takes the place of the first.
* **Pipeline stages.** Items, readiness signals and ticks come in any order, and a
  signal says what was true before the tick in which it is used. Correct: FIFO without
  loss, exact cycle accounting, no bubbles, no lost wake-up, and stages that never
  wait for each other in vain.
* **Other nodes.** They count what others filter, delay or echo, number what passes,
  and answer each other inside one `run_until`. Correct: their statistics agree with
  the executor's and with what arrives, numbers have no gaps, and loops return.

`PROJECT.json` lists under `hazards` the places in the code where these can go
wrong, with the properties that would show it.

## 2. The modules

| module | models | checked by |
|---|---|---|
| `EventQueue` | the queue's operators on `[entries, counter]` | used by the executors and the engines |
| `TimeBuckets` | *abstract:* one FIFO bucket per instant | |
| `EventQueueOps` | the queue under any sequence of its operations; refines `TimeBuckets` | `event_queue` |
| `EventExecutor` | `EventSubgraphExecutor` with arbitrary nodes | `event_executor` |
| `BuiltInNodes` | the event-driven nodes of `src/nodes/`, as operators on their values | used by the next |
| `NodeNetwork` | `EventExecutor` with such nodes in it; refines `EventExecutor` with arbitrary ones | |
| `MCNodeNetwork` | the networks checked | `node_network` |
| `Dependencies` | what a topological order is | used by the next two |
| `TopologicalOrder` | `compute_execution_order`, Kahn's algorithm edge by edge | `topological_order` |
| `TickExecutor` | `TickSubgraphExecutor` | `tick_executor`, `tick_incoming` |
| `Channel` | the arithmetic of `channel.rs`, modulo `Width` | used by the next and the engines |
| `ChannelStream` | messages through one channel | `channel_stream` |
| `Rounds` | *abstract:* what a simulation in rounds is, whatever its subgraphs and channels do | |
| `Engine` | `SimulationEngine`; refines `Rounds` | |
| `ParallelEngine` | `ParallelSimulationEngine`, on the steps of `Engine`; refines `Rounds` | |
| `MCEngine` | instances of both engines | `engine_any_owner`, `engine_late`, `engine_strict`, `parallel_lookahead` |
| `PipelineStage` | `PipelineStageNode`, as operators on its value | used by the next |
| `PipelineChain` | chains of stages as `create_stages` builds them, and their driver | |
| `MCPipelineChain` | the chains checked | `pipeline_chain` |
| `Subsequences` | what a loop over a Vec pushes on: the part of a sequence at some positions | used by the sort and the engines |
| `CollectionProofs` | lemmas on the queue's operators, and on sequences, sums and counts | |
| `EventQueueProofs`, `EventExecutorProofs`, `TopologicalOrderProofs`, `TickExecutorProofs`, `ChannelProofs`, `PipelineChainProofs`, `EngineProofs` | proofs (section 4); `EventExecutorProofs` is about `NodeNetwork` too, `PipelineChainProofs` about single stages first | |

### Correspondence with the code

*Calls and loops.* A call that contains a loop is a `BeginRun` (or `StartRun`)
step, one step per iteration, and a `Return...` step; a `phase` variable tells
where it is. All other calls are one step. Executors and engines are not
re-entrant (`&mut self`), so other calls come only while `phase = "idle"`.

*Nodes* are what the executors' models choose arbitrarily: a node answers an
event with up to `MaxFanout` events, each stamped `event.time + d` with `d` in
`Delays`; `on_tick` answers with events stamped with the tick's time. `MayReturn` is
`DelayNode::on_event` with the delay and the destination left open; `NodeNetwork`
shows that the nodes in `src/nodes/` all behave like this.

*EventQueue.* `entries` is the BTreeMap as a set of `[event, seq]`, where
`(event.time, seq)` is the key. `IsFirst` is what `pop` and `peek` return,
`DueBy` what `drain_until` removes. A push takes `seq = counter`.

*EventExecutor.* `InitExecutor`, `ScheduleEvent`, `HandleIncoming`, `BeginRun`,
`ProcessEvent` (one iteration of the loop in `run_until`, with
`process_event` and all its statistics), `ReturnFromRun`. An event for a node
that is not in the subgraph is counted and answered by nothing. `HandleEvent` is the
executor's half of `ProcessEvent`, without the choice of the answer, which
`NodeNetwork` takes from its nodes. `run` is history:
the clock at the start of the run, the entry processed last, the counter when
the last run returned, and whether an event was already late at the start.

*TickExecutor.* `AddNode`, `SetExecutionOrder`, `ComputeExecutionOrder`,
`HandleIncoming`, `InitExecutor`, `BeginRun`, and inside `run_until`
`StartTick`, one `TickNode` or `SkipUnknown` per entry of the order, `EndTick`,
`ReturnFromRun`. `ComputeExecutionOrder` takes *some* topological order in one
step; `TopologicalOrder` shows that the algorithm does exactly this, with every
order of its initial queue (the `HashMap`'s), and fails exactly on cycles
(theorem `SortIsCorrect`). `Adjacent(node, deps)` is `adj[node]`.

*Channel.* Times are `0..Width-1` and sums wrap, as in a release build (a debug
build panics instead; `InRange` tells the properties where sums fit). `None` is -1.

*BuiltInNodes.* A node is a record of its fields; `NewDelay` and its like are the
constructors, `Reset` is `Node::init`, and each `...OnEvent` gives the set of results
(next value, returned events) that the handler can have: one, unless it draws from
its generator, whose seeds are not kept. Of a payload the model keeps
whether a `MatchKey` filter finds what it looks for, the sequence number and its
author, and, as history, which item it is and when the source sent it. `DelayNode` and the
other sets named after a struct are its values, up to the bounds of the ids and delays.

*NodeNetwork* adds the nodes to `EventExecutor`: `HandleFirst` calls the addressed
node and hands its answer to `HandleEvent`, split as `process_event` splits it;
`SourceTick` is a `SourceNode` in another subgraph whose events arrive through
`handle_incoming`. An id that a node forwards to may be nobody's. `ImplementsExecutor`
forgets the nodes and the payloads.

*Engine.* A round is `BeginStep` (`dispatch_to_subgraphs`), then per subgraph
`EnterSubgraph`, its executor's steps, `LeaveSubgraph`, and `EndStep`
(`process_outgoing`). `order` is the HashMap's iteration order, any permutation, and
`AddSubgraph` may shuffle it, or replace an executor with all it holds; `channel_map`
is the index that `AddChannel` overwrites.
Of an executor only its clock and its queue (or, for a tick-driven one, the number of
buffered events) are kept. `run(max)` is `StartRun(max)`; `step()` is
`run(current_time + 1)` and `run_steps(k)` a run to `k` steps later, so they need no
action of their own. History: `injected`, `generated`, `discarded`, `replaced` count
events since `init`, and `fresh` holds the subgraphs added since the last round.

*Rounds* knows subgraphs by an opaque state, with operators for what `init` makes of
it (`New`), what taking messages does (`Give`) and when it is done up to a time
(`Settled`), and channels by what they do to a time (`Carry`). `Engine` supplies its
own for these and maps `waiting` to the members that have not had their turn,
`running` to those in it, `outgoing` to the outboxes and `pending_events` to the mail.
Between turns nothing moves; in its turn a subgraph changes its own state and
appends to its own outbox; at the end of the round the outboxes, each in its own
order and all in some order, become the next mail.
This is the statement that the schedule of the workers and the
HashMap's order decide nothing else, that messages are handed out exactly once, and
that of several channels for a pair the one added last counts.

*ParallelEngine* replaces `EnterSubgraph`, one at a time in iteration order, by
`StartWorker`, at any time in any order; the executors' steps then interleave.
Each executor is behind its own lock and `collect()` keeps the
order of the list, so workers share nothing else. `InitParallel` keeps the
pending events, which `SimulationEngine::init` clears.

*PipelineStage.* `SignalReady` and `Receive` are the two kinds of `on_event`,
`OnTick` is `IdleTick`, `BusyTick` or `StalledTick`, `InitStage` is `init`.
`cycle`, `ahead`, `ready_at` of an item and `ready_cycles` are history.

*PipelineChain.* `Init` is `create_stages` (one depth for all stages, no next stage
after the last). Neither executor in the repository calls both `on_event` and
`on_tick` on a node, and nothing sends the readiness signal, so a chain is driven by
the user's code, as in `tests/nodes_test.rs`. Two drivers are considered: one
that carries items and signals in any order and with any delay, true or not, and a
synchronous one that has delivered all items and told every stage whether the next
can accept before it ticks (`UpToDate`). `TickAll` ticks all stages at once: none
sees another's output before the tick is over, so their order does not matter.

## 3. The runs

| run | shows | bounds |
|---|---|---|
| `event_queue` | the (time, counter) keys implement FIFO buckets | 3 instants, 4 pushes: an instant can fill twice after being emptied |
| `event_executor` | order, clock, counters, nothing overdue, termination | times 0..2, two scheduled and two generated events, delays 0 and 1, fan-out 2: answers at the same instant, late arrivals, targets in the past |
| `topological_order` | sorts, or rejects exactly the cycles; in-degrees never underflow | 3 nodes, 3 dependencies: cycles of length 1, 2 and 3, duplicates, chains, forks, one foreign node |
| `tick_executor` | ticks on the grid, dependency order, output order, termination | 2 nodes, period 2, targets 0..4: on and off the grid, nodes added late, unknown and repeated ids |
| `channel_stream` | least safe boundary and where it fails, the rules agree, boundary arithmetic, no overtaking | 4-bit times up to the end of the range, latencies up to 5 and periods up to 7 |
| `engine_any_owner` | what holds with misrouted ids, late injections, and subgraphs and channels added or replaced between runs; the engine plays rounds | two subgraphs, neither there at first, a channel and its successor for one pair, none for the other; rounds of 2, targets 0..3, event times 1 and 3, two injected and two generated events |
| `parallel_lookahead` | workers play rounds too, lose nothing, hand each event to its node's subgraph, and with channels of one round nothing is late | three subgraphs, one with period 3 against rounds of 2, three rounds, one injected and two generated events |
| `pipeline_chain` | FIFO, exact utilization, bounded delay, working backpressure | latencies 0, 1, 2; depths 0, 1, 2 and unlimited; arbitrary driver: 2 stages, 3 items, 6 ticks; synchronous: 3 stages, 4 items, 12 ticks |
| `node_network` | nodes keep the executor's contract, statistics agree, no gaps in numbers, loops return | 23 networks of three nodes: every filter and distribution, lines and loops, without a target and with one elsewhere; three source events at times 0..2 |

Three runs find a property of a document or comment violated (section 6):
`tick_incoming`, `engine_late`, `engine_strict`.

The definitions of `Channel` wrap as the code does. `NoOvertaking` and
`TickArithmeticAgrees` are about sums that fit and say nothing of the others.
`CeilIsLeastSafeBoundary` says both: where adding the period fits the arrival is the least
safe boundary, and where it does not, in a release build, it is in the past.

The bounds (`MaxTime`, `MaxScheduled`, `MaxInjected`, `MaxGenerated`, `MaxOrder`,
`MaxDeps`, `MaxForeign`, `MaxIncoming`, `MaxFanout`, `MaxPushes`, `MaxItems`,
`MaxCycles`, `MaxChannels`, `MaxSample`, `Stamps`) appear only in guards and in the
sets that inputs come from. They suffice because the code treats times by comparison and addition only: two
pending events and one answer already show every relation between a head, an
insertion and a target, and three rounds every relation between a send, a dispatch and
a delivery. The engine's event times 1 and 3 are a round's middle, and past or to
come in each of the rounds. A stall that spreads backwards through a pipeline needs
three stages and more ticks than a two-stage chain under arbitrary signals, hence the
bounds by driver. `Width = 1000` in the engine's runs is wide enough never to wrap.

`ParallelLookahead` with one worker at a time is a run of the sequential engine:
`EnterSubgraph` is `StartWorker` with a stronger guard, so what it shows of the
rounds holds for `SimulationEngine` too; only `init` differs. `NodeNetwork` refines the
executor, so what the checks and the proofs say of `EventExecutor` holds of its networks.

**Fairness.** Liveness is checked under `FairSpec`: weak fairness of the steps
inside a running call (`RunStep`, `ProcessSomeEvent` and `ReturnFromRun`,
`HandleFirst` and `Return`, and `EngineStep`). They are loops of straight-line code
without locks or waiting, so once called they go on. Calls by the owner have no
fairness. Termination rests on facts that the code does not enforce: that
`time_step` and the tick period are not 0 (stated in the assumptions or seen in
the configurations), and that nodes generate only finitely many events for the
instants up to the target. Where they do not hold, `run` and `run_until` never return. The
runs exclude these cases and so catch none of them: with a step or a period of 0 the
statistics count for ever while the clock stands still, and two nodes that answer each other
without delay generate events for ever, so neither has a finite model (`MaxGenerated`
is what excludes the latter). In `node_network` the loops
answer each other for ever: there `MaxGenerated` is never reached, and it is the delay
in the loop that lets `run_until` return (`LoopsReturn`).

The sort needs no liveness property: each of its steps takes a node or an edge from a finite
list, and TLC, which checks for deadlock, finds it stuck nowhere.

## 4. The proofs

The theorems hold for all values of the constants, under the assumptions named in the
modules: `QueueBounds`, `ExecutorAssumption`, `NetworkAssumption`, `WidthAssumption`,
`StreamAssumption`, `OrderAssumption`, `TickAssumption`, `ChainAssumption`,
`UnlimitedAssumption` and `EngineAssumption`. These say what the constants are (natural numbers,
disjoint finite sets of nodes, networks of new nodes) and nothing of their size. The bounds of section 3 are
constants too, so the theorems hold however large they are. Five theorems ask for more, and say so
in their statements:

* `OutputIsOrdered` and `ClocksStayTogether` need tick periods that are not 0. With
  period 0 `run_until` never returns, and its endless ticks all bear the same time.
* `NothingComesLate` needs `Lookahead`: tick periods are not 0, nodes are where their ids
  say, every event-driven subgraph is reached from each other subgraph over a channel of
  at least one round, times stay inside the width, and the owner injects nothing
  that is already due and adds no subgraph later. The code enforces none of this;
  `engine_late` shows what a fast channel does. The constants of `parallel_lookahead`
  satisfy it.
* `EventsFindTheirSubgraph` needs `IdsByPrefix`, that nodes are where their ids say, and no
  subgraph that is added later. The constants of `parallel_lookahead` satisfy it, those
  of `engine_any_owner` do not.
* `NetworksAreExecutors` needs a network that stays within `MaxGenerated`, the executor's
  bound on what its nodes generate: without a delay in its loops a network does not. The
  run has networks that do, and checks the refinement without this condition.

Every theorem below states a property that a run checks, and every invariant, action
property and refinement that a passing run checks is proved.

**EventQueueProofs**, over `Spec` of `EventQueueOps`: `QueueIsBuckets` (`ImplementsBuckets`),
the refinement of `TimeBuckets`. The bucket of an instant is the sequence of its entries in
the order of their `seq`; `InKeyOrder` chooses it, and there is exactly one choice
(`AscendingExists`, `AscendingUnique`). The invariant is that every `seq` is unique and below
the counter. So a push appends to one bucket (`PushOnBucket`), what is popped is the head of
the earliest bucket (`PopOnBucket`), and what `drain_until` returns is all due buckets, one
after another (`DrainOnBuckets`).

**EventExecutorProofs**, over `Spec` of `EventExecutor`:

* `TypeCorrect`: `[]TypeOK`, which includes that no two pending events share a
  key: each `seq` is unique and below the counter. `CollectionProofs` has the
  lemmas about `Push`, `PushAll` and `Without` this rests on, cardinalities included.
* `NothingLeftBehind` (`[]NothingOverdue`), `PastIsClosed` (`[]NoTimeTravel`) and
  `Chronological` (`ProcessedInOrder`) follow from one inductive invariant,
  `IInv == TypeOK /\ RunInvariant /\ NothingOverdue`. `RunInvariant` is needed
  because none of the three is inductive. `ProcessedInOrder` compares the next
  event with the last one, which has left the queue by then; the invariant
  remembers that the entry processed last is `Earlier` than all that is pending. This
  survives insertion because an answer is stamped no earlier than its cause and
  a new `seq` is larger than all others. For `NoTimeTravel`
  it adds that without a late event at the start nothing pending is before the
  start, and that the clock is the time of the last event.
* `ClockFollowsTargets`: the clock ends at `max(target, start)`; only `init` sets it back.
* `EveryEventAccounted`: what was pushed is processed or pending, and the counters
  say from where it came. Its invariant is `Accounted` itself with `TypeOK`.

and over `NetSpec` of `NodeNetwork`, for every network of built-in nodes. Two lemmas reduce
the handlers of the eight kinds of nodes to what they have in common: `NodeAnswers` (at most one event,
stamped with its cause's time plus a delay of the node, from a node that keeps its kind and
configuration) and `ForwardsOrDrops` (it carries its cause's item). `NetTypes` is invariant:
the types, and that the configuration is that of one of `Networks`.

* `NetworksAreExecutors` (`ImplementsExecutor`): under the mapping that forgets nodes and
  payloads, each step is one of `EventExecutor`, or changes nothing there. Most of it
  is that the queue's operators commute with the mapping: two entries may become equal in
  all but `seq`, which is unique, so cardinalities and order are kept.
* `CountersAddUp` (`[]CountersAgree`), inductive with the types: a step changes the counters of
  one node and the executor's alike, and so the sum over all nodes by as much.
* `LatencyIsReported` (`[]LatencyStatistics`) from `LatencyInv` and `EachItemOnce`. The property
  is about the set of events behind a node, so a sum over it would miss one of
  two equal events; `EachItemOnce`, that no two events pending or arrived carry the same
  item, excludes these. `Measured` adds that all that is in front of the node is still
  stamped with the time at which it was sent.
* `SamplesAndNumbers` (`[]SampledAndNumbered`) from three invariants. `EnhancedInv`:
  `event_counter` is what was received, and what passed is its quotient by the rate.
  `NumberedInv`: for a node behind which nothing is lost, the numbers it gave are all
  below what it has passed, no two events carry the same, none is missing, and all are on
  nodes that lose none. `LineInv`: on a line of nodes, an event's stamp is the time at which
  its item was sent plus the delays of the nodes before the one it is at (`Offsets`), and of two
  items the one sent first is further on, or on its way to the same node with the smaller `seq`.
  The executor takes the event with the earliest stamp, which need not be the item sent
  first; that it never lets an item overtake another on its own node is what has to be shown.

**TopologicalOrderProofs**, over `Spec` of `TopologicalOrder`: Kahn's algorithm is right.

* `DegreesAreExact` (`[]CountsAreExact`) is itself inductive, given the types. What
  has to be proved is that taking a node moves its edges from the dependencies still open
  to the list being walked, one for one (`AdjacentCounts`, from the count of a subsequence in
  `CollectionProofs`), and that a node whose count becomes 0 is not in the queue yet.
* `SortIsCorrect` (`SortsOrRejects`) needs `Respected` as well: everything served comes
  after all that it depends on. An order of all nodes then leaves no cycle
  (`OrderedIsAcyclic`, by induction on the first place with a node of the cycle), and
  if nodes are left over, they wait for each other: each has a count above 0, nothing
  is being walked, so it has a prerequisite that was never ordered.

**TickExecutorProofs**, over `Spec` of `TickExecutor`:

* `TypeCorrect`; `TicksKeepTheGrid` (`[]ClockOnGrid`), inductive with
  `CallsBetweenTicks`, which says what is empty outside of a tick.
* `TicksRespectDependencies` (`[]DependenciesFirst`) from `PrefixTicked`: while a computed
  order is in force, the nodes it was computed for are still there, so that no entry is
  skipped, and what has ticked in this tick is the part of the order before the current
  place; a node's prerequisites precede it there.
* `OutputIsOrdered` (`[]OutputFollowsTicks`) from `OutputInv`: what has been collected is
  in order, none of it is from a later tick, and what is from this one comes from nodes
  that have ticked.

**ChannelProofs**, over `Spec` of `ChannelStream`: `CeilingIsSafe`, `AlignmentRulesAgree`,
`ChannelKeepsOrder` and `TickArithmetic`. The invariant is `Stream` (`result` is what
`transform_event_time` says of the last message). The rest is division: `CeilExact` says that
the ceiling of `t` is the least multiple of `p` not below it while `t + p`
fits the width, and there are like lemmas for the floor and for boundaries
in a row. The proof of `TickArithmetic` found an error in the model: `TickArithmeticAgrees`
asked that rounding up twice gives the same even where the second sum wraps, which no instance
had been large enough to show. Its guard now is `up + period <= Width`, and
the run has periods large enough for the case. Of rounding it says from where
it leads to the nearest boundary and from where not (lemma `RoundIsNearest`), and
`CeilingIsSafe` where the ceiling wraps into the past (`CeilWraps`).

**PipelineChainProofs**, over `Spec` of `PipelineChain`: first lemmas about one stage, whose
invariant `StageInv` is `Sound` (types and which state goes with which contents), `Numbered`
(ids in order), `Utilized` and `Timely`; then the theorems.

* `TypeCorrect`, `UtilizationIsExact` (`[]BusyCyclesAreWork`) and `ItemsAreOnTime`
  (`[]OnTime`) are properties of every stage on its own, kept by every mix of items,
  signals and ticks. For the last, `Timely` adds up, for every item still inside, the
  ready ticks it has seen and those it can still need.
* `ItemsAreAccounted` (`[]Accounted`) is a property of the whole: `Linked` says that what
  a stage has processed is on the wire or was received by the next one, and `InOrder`
  that the items in and between the stages, from the last to the first, are in the order
  in which they were offered.
* `BackpressureHolds` (`BackpressureWorks`), for the synchronous driver, from `InStep`:
  all stages are equally deep, those behind the first never drop, at most one item is on
  its way to each of them and there is room for it. That something moves is
  `ChainProgress`: of the stages that hold an item the last one is not held back.

**EngineProofs** states each theorem of both engines at once, `Spec \/ ParallelSpec => ...`.
Every step of either is one of `Step == InitEngine \/ ParallelNext`, since `EnterSubgraph` is
`StartWorker` with a stronger guard.

* `TypeCorrect`, with `Placed`: every subgraph is once in the iteration order, takes its turn
  once per round, and is as `init` leaves it until it is added.
* `ClocksStayTogether` (`[]Lockstep`), for every time step and all positive periods.
* `NothingLeftBehind` (`[]NothingOverdue`) from `Handled`: in a round, a subgraph that
  has had its turn holds nothing due before the round's end.
* `RunStopsAtGoal` (`RunReachesGoal`) from `Bounded`: a round begins before the goal only.
* `NothingIsLost` (`[]Conserved`) from `Balanced`. `Conserved` alone is not inductive: during a
  round it does not look at `pending_events`, and holds at the end only because the round
  began by dispatching all of them.
* `NothingComesLate` (`[]NothingLate`) from `Ahead`: what is in an outbox is stamped in this
  round or later, so that a round's latency puts it behind all clocks; what is pending
  between rounds for an event-driven subgraph is not before `current_time`. The alignment
  rule is no condition: a receiver without ticks has nothing to round to.
* `EventsFindTheirSubgraph` (`EachToItsSubgraph`): what a subgraph is handed is as long as the
  group that the routing makes for it, which under `IdsByPrefix` are the events for its nodes.
* `EnginesPlayRounds` (`ImplementsRounds`): the refinement of `Rounds`, step by step, under
  the mapping of section 2. `Indexed` is what it needs of `channel_map`, that every pair
  with a channel has the index of the last one. Most of the proof is that the dispatch and
  `process_outgoing` treat the mail and the outboxes as `Rounds` does, which rests on the
  lemmas of `CollectionProofs` about `Kept`, `FlattenSeq` and `SetToSeqs`.

Only model-checked: all liveness (`RunReturns` of both executors and the sequential engine,
`LoopsReturn`), which is out of the prover's reach.

## 5. Not modelled

* `ChannelRegistry` (`channel.rs` 442-509): nothing in the repository uses it with an
  engine. Its `find_one` returns the first channel of a pair, the engines take the last.
* `config.rs`: parsing, builders and validation of a value that no engine is built
  from: nothing in `src/` turns a `SimConfig` into an engine. `registry.rs`: a map of
  factories. `stats.rs`: formatting of counters that the models of their owners have.
* `examples/` and `benches/`: clients; the ids of `mini_cache.rs` are in `engine_any_owner`.
* Replacing a subgraph by one of another time mode or period: `add_subgraph` with an id
  in use puts an executor of the same kind in its place.
* Threads inside rayon: the model lets every worker start at any time.
* `NodeId` wider than `SubgraphId`: `(node_id / 1000) as u32` truncates for ids
  from 1000 * 2^32 on; the models' ids are small.
* Seeds and random generators: a draw is any value it can have, so that equal seeds
  give equal runs is not shown.
* Payloads beyond what filters and numbering tell apart, ports and names;
  `CounterNode::on_tick`, which counts ticks.

## 6. Where documents and code differ

With a run that shows it:

* `tick_incoming`: `incoming_events` are "buffered until the appropriate tick"
  (`tick.rs` 60); nothing ever reads them.
* `engine_late`: with channels faster than a round a message arrives after the
  receiver's clock has passed it, and is processed after later events.
  `NothingLate` holds with channels of at least one round (`parallel_lookahead`).
* `engine_strict`: an event that the strict rule rejects is delivered all the
  same, with the time at which it was sent.

Stated exactly by a property that passes, since the document is right for most inputs:

* `round_to_tick` "Rounds to the nearest tick boundary", "up if the remainder is >= half
  the tick period, down otherwise" (`channel.rs` 190-192), but compares the remainder with
  `tick_period / 2`, rounded down. With period 3 instant 1 goes to 3 although 0 is nearer,
  and with period 1 every instant, each on a boundary, goes to the next. By
  `TickArithmeticAgrees` the document is right for every even period and wrong
  for exactly one remainder of every odd one.
* `ceil_to_tick` is documented as "t / dt, rounded up, times dt" (`channel.rs` 166). It adds
  the period first, so within a period of the end of u64 a release build wraps and
  delivers in the past, even where the boundary itself fits; a debug build panics. By
  `CeilIsLeastSafeBoundary` the arrival is safe exactly where that sum fits.
* `find_subgraph_for_node` "Finds which subgraph contains a given node" and "checks each
  subgraph" (`engine.rs` 216-218). It takes `node_id / 1000`, then subgraph 1, then any, a
  convention that a comment in its body states. For ids that follow it,
  `EachToItsSubgraph` says that every event gets to the subgraph of its node. The ids of
  `examples/mini_cache.rs` (10 and 20 in subgraph 2) break it: what its CPU sends to
  the cache is handed to the CPU's own subgraph. `engine_any_owner` runs with such
  ids: no event is lost, it is only in the wrong place.

Seen while reading:

* `run_until` of the tick executor stops at the last tick not after the target,
  while the trait promises "Advance local time to at least `target`"
  (`src/executor/mod.rs` 54-57). `Lockstep` states what does hold: within one period.
* The doc of `step_tick` in `spec/sim_framework_spec.md` (line 169) ticks and then
  advances the clock; the code advances first, so the first tick is at `tick_period`.
* `PipelineStageNode` lists "Backpressure signaling when full" (`pipeline.rs` 41),
  but `on_event` returns no event: a full stage drops items and tells nobody. The
  receiving half of the protocol works: `BackpressureWorks`.
* No executor calls both `on_event` and `on_tick`, so a `PipelineStageNode` inside
  one either never gets an item or never finishes one.
* `ParallelSimulationEngine::init` leaves the pending events of the previous
  simulation; `SimulationEngine::init` clears them. The models have both, and no property
  fails on either.
* A subgraph added late changes where ids without a subgraph of their own are routed.
  Events that are pending by then were given their latency for the old receiver.
* A comment in the sampling test expects the events 0, 5, 10, 15 (`tests/nodes_test.rs`
  280); a sampling node passes the fifth, tenth, and so on, as `SampledAndNumbered` says.
* A pass-through node without a target counts an event that passes its filter in
  `events_received` only (`passthrough.rs` 243).
* `Sample` with rate 0 divides by zero (`passthrough.rs` 165); `Wrap` writes the
  sequence number without advancing it (`passthrough.rs` 202).
* `Uniform` over all of u64 overflows in `max - min + 1` (`probabilistic.rs` 37).

## 7. What could follow

Nothing that the runs check and the prover can reach is left unproved. What would add to the
models: networks whose nodes are in several subgraphs of an engine (`NodeNetwork` under
`Engine` instead of one executor), with a source whose ticks the engine drives; subgraphs
replaced by ones of another time mode; and the truncation of ids from 1000 * 2^32 on.

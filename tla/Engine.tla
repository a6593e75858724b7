-------------------------------- MODULE Engine --------------------------------
(***************************************************************************)
(* SimulationEngine (src/engine.rs): lockstep rounds over the subgraphs,   *)
(* with the event queues of the event-driven ones (EventQueue) and the     *)
(* latency and alignment of the channels (Channel) inside.                 *)
(*                                                                         *)
(* run(max) is a StartRun step, rounds, and a ReturnFromRun step.  A round *)
(* is BeginStep (dispatch_to_subgraphs), then for every subgraph, in the   *)
(* order in which the HashMap happens to iterate, EnterSubgraph, what its  *)
(* run_until does, and LeaveSubgraph, then EndStep (process_outgoing).     *)
(* step() is run(current_time + 1), run_steps(k) is run to k steps later.  *)
(* ParallelEngine reuses these steps for the engine of src/parallel.rs.    *)
(*                                                                         *)
(* Inside a subgraph only what the engine can see of the executors is      *)
(* kept; EventExecutor and TickExecutor model them in full.                *)
(***************************************************************************)
EXTENDS EventQueue, Channel, Subsequences, SequencesExt

CONSTANTS
  EventSubs, TickSubs,  \* ids of the subgraphs, by time mode
  Period,               \* tick period of each tick subgraph
  Nodes,                \* node ids, u64
  Home,                 \* node -> the subgraph it was added to
  IdSpan,               \* 1000: node ids per subgraph in the routing heuristic
  Custom,               \* destination of an EventPayload::Custom, which has none
  LateSubs,             \* subgraphs the owner adds later or again; the others are there
  Channels,             \* the channels added at first, one for a pair
  LateChannels,         \* channels the owner may add later
  TimeStep,
  Delays,               \* what an event-driven node adds to an event's time
  OnTimeOnly,           \* whether the owner only injects events not yet due
  MaxTime,              \* bound: run targets are 0..MaxTime
  Stamps,               \* bound: the times of injected events
  MaxInjected,          \* bound: events injected between two inits
  MaxGenerated,         \* bound: events nodes generate between two inits
  MaxChannels           \* bound: channels in all

Subs == EventSubs \cup TickSubs

\* A ChannelDesc with its endpoints.
Link == [src : Subs, dst : Subs, latency : SimTime, alignment : Alignments]

ASSUME EngineAssumption ==
  /\ EventSubs \subseteq Nat /\ TickSubs \subseteq Nat
  /\ EventSubs \cap TickSubs = {} /\ Subs # {} /\ IsFiniteSet(Subs)
  /\ Period \in [TickSubs -> Nat]
  /\ Nodes \subseteq Nat /\ Custom \notin Nodes
  /\ Home \in [Nodes -> Subs]
  /\ IdSpan \in Nat \ {0}
  /\ LateSubs \subseteq Subs
  /\ Channels \in Seq(Link) /\ LateChannels \subseteq Link
  /\ \A i, j \in DOMAIN Channels :
       Channels[i].src = Channels[j].src /\ Channels[i].dst = Channels[j].dst => i = j
  /\ TimeStep \in Nat \ {0} /\ Delays \subseteq Nat
  /\ OnTimeOnly \in BOOLEAN
  /\ MaxTime \in Nat /\ Stamps \subseteq Nat /\ MaxInjected \in Nat /\ MaxGenerated \in Nat
  /\ MaxChannels \in Nat

VARIABLES
  order,       \* the iteration order of `subgraphs`, fixed as long as none is added
  channels,
  channel_map, \* <<src, dst>> -> index in channels
  current_time,
  pending_events,
  stats,       \* EngineStats
  phase,       \* "idle", "looping" between rounds of a run, or "stepping"
  goal,        \* argument of the current run, 0 outside
  waiting,     \* subgraphs that this round has not advanced yet
  running,     \* subgraphs inside run_until
  outgoing,    \* subgraph -> what its run_until has collected in this round
  clock,       \* subgraph -> its local time
  inbox,       \* event-driven subgraph -> its event queue
  buffered,    \* tick-driven subgraph -> number of incoming events it stored
  injected, generated, discarded, replaced,   \* history: events since init, see Conserved
  fresh        \* history: subgraphs added since the last round

network == <<order, channels, channel_map>>
history == <<fresh, replaced>>
globals == <<current_time, pending_events, stats, goal, injected>>
locals  == <<clock, inbox, buffered>>
vars == <<network, history, globals, phase, waiting, running, outgoing, locals, generated, discarded>>

Event == [time : Nat, src : Nodes, dst : Nodes \cup {Custom}]
Message == [time : Nat, dst : Nodes \cup {Custom}]

\* What a queue keeps of events.
Messages(evs) == [i \in DOMAIN evs |-> [time |-> evs[i].time, dst |-> evs[i].dst]]

NoStats == [steps |-> 0, processed |-> 0, dispatched |-> 0, dropped |-> 0]

\* Mutant: the clock never advances.
LaterStays(a, b) == b

Later(a, b) == IF a >= b THEN a ELSE b
next_time == current_time + TimeStep

\* The keys of `subgraphs`.
Members == ToSet(order)

\* Mutant: the fallback to subgraph 1 comes first.
FindFallback(n) ==
  IF 1 \in Members THEN 1 ELSE IF order # <<>> THEN order[1] ELSE None

\* find_subgraph_for_node: the id's thousands, else subgraph 1, else any; None
\* only if there is no subgraph.
FindSubgraph(n) ==
  IF n \div IdSpan \in Members THEN n \div IdSpan
  ELSE IF 1 \in Members THEN 1
  ELSE IF order # <<>> THEN order[1]
  ELSE None

PeriodOf(s) == IF s \in TickSubs THEN Period[s] ELSE 0

\* An event that the strict rule rejects keeps the time at which it was sent.
Carried(channel, sent, dst) ==
  LET arrival == ComputeArrivalTime(channel, sent, PeriodOf(dst))
  IN  IF arrival = None THEN sent ELSE arrival

\* What process_outgoing makes of one event.
Deliver(ev) ==
  LET src == FindSubgraph(ev.src)
      dst == FindSubgraph(ev.dst)
  IN  [time |-> IF ev.dst # Custom /\ <<src, dst>> \in DOMAIN channel_map
                THEN Carried(channels[channel_map[<<src, dst>>]], ev.time, dst)
                ELSE ev.time,
       dst  |-> ev.dst]

\* Mutants: the last event of a group replaces the others; the fallbacks of the
\* routing are missing when the groups are delivered.
ForLast(s) ==
  LET all == {i \in DOMAIN pending_events :
                pending_events[i].dst # Custom /\ FindSubgraph(pending_events[i].dst) = s}
  IN  Kept(pending_events, {i \in all : \A j \in all : j <= i})
ForHinted(s) ==
  Kept(pending_events, {i \in DOMAIN pending_events :
    pending_events[i].dst # Custom /\ pending_events[i].dst \div IdSpan = s})

\* The group of events for a subgraph, in the order in which they are pending.
For(s) ==
  Kept(pending_events, {i \in DOMAIN pending_events :
    pending_events[i].dst # Custom /\ FindSubgraph(pending_events[i].dst) = s})

-------------------------------------------------------------------------------
Init ==
  /\ order \in SetToSeqs(Subs \ LateSubs)
  /\ channels = Channels
  /\ channel_map = [link \in {<<Channels[i].src, Channels[i].dst>> : i \in DOMAIN Channels} |->
       CHOOSE i \in DOMAIN Channels : link = <<Channels[i].src, Channels[i].dst>>]
  /\ current_time = 0
  /\ pending_events = <<>>
  /\ stats = NoStats
  /\ phase = "idle"
  /\ goal = 0
  /\ waiting = {} /\ running = {} /\ outgoing = [s \in Subs |-> <<>>]
  /\ clock = [s \in Subs |-> 0]
  /\ inbox = [s \in EventSubs |-> EmptyQueue]
  /\ buffered = [s \in TickSubs |-> 0]
  /\ injected = 0 /\ generated = 0 /\ discarded = 0 /\ replaced = 0 /\ fresh = {}

\* Events ever handed to the executor of a subgraph, since its init.
Stored(s) == IF s \in EventSubs THEN inbox[s].counter ELSE buffered[s]

\* HashMap::insert of a new key may change the iteration order of the others; of
\* one in use it puts a new executor in the place of the old one and what it holds.
AddSubgraph(s) ==
  /\ phase = "idle" /\ s \in LateSubs
  /\ order' \in IF s \in Members THEN {order} ELSE SetToSeqs(Members \cup {s})
  /\ fresh' = fresh \cup {s}
  /\ clock' = [clock EXCEPT ![s] = 0]
  /\ inbox' = [q \in EventSubs |-> IF q = s THEN EmptyQueue ELSE inbox[q]]
  /\ buffered' = [q \in TickSubs |-> IF q = s THEN 0 ELSE buffered[q]]
  /\ replaced' = replaced + Stored(s)
  /\ UNCHANGED <<channels, channel_map, globals, phase, waiting, running, outgoing,
                 generated, discarded>>

\* Mutant: the entry of a pair is kept, as ChannelRegistry::find_one would have it.
AddChannelFirst(channel) ==
  /\ phase = "idle" /\ Len(channels) < MaxChannels
  /\ channels' = Append(channels, channel)
  /\ LET pair == <<channel.src, channel.dst>>
     IN  channel_map' = [link \in DOMAIN channel_map \cup {pair} |->
           IF link \in DOMAIN channel_map THEN channel_map[link] ELSE Len(channels')]
  /\ UNCHANGED <<order, history, globals, phase, waiting, running, outgoing, locals,
                 generated, discarded>>

AddChannel(channel) ==
  /\ phase = "idle" /\ Len(channels) < MaxChannels
  /\ channels' = Append(channels, channel)
  /\ LET pair == <<channel.src, channel.dst>>
     IN  channel_map' = [link \in DOMAIN channel_map \cup {pair} |->
           IF link = pair THEN Len(channels') ELSE channel_map[link]]
  /\ UNCHANGED <<order, history, globals, phase, waiting, running, outgoing, locals,
                 generated, discarded>>

\* executor.init() of every subgraph.
InitExecutors ==
  /\ clock' = [s \in Subs |-> 0]
  /\ inbox' = [s \in EventSubs |-> EmptyQueue]
  /\ buffered' = [s \in TickSubs |-> 0]

\* init(): pending events are cleared and every executor is initialised.
InitEngine ==
  /\ phase = "idle"
  /\ current_time' = 0
  /\ pending_events' = <<>>
  /\ stats' = NoStats
  /\ InitExecutors
  /\ injected' = 0 /\ generated' = 0 /\ discarded' = 0 /\ replaced' = 0
  /\ fresh' = {}
  /\ UNCHANGED <<network, phase, goal, waiting, running, outgoing>>

\* The stamp is not compared with current_time.
InjectEvent(msg) ==
  /\ phase = "idle"
  /\ injected < MaxInjected
  /\ OnTimeOnly => msg.time >= current_time
  /\ pending_events' = Append(pending_events, msg)
  /\ injected' = injected + 1
  /\ UNCHANGED <<network, history, current_time, stats, phase, goal, waiting, running, outgoing,
                 locals, generated, discarded>>

StartRun(max) ==
  /\ phase = "idle"
  /\ phase' = "looping"
  /\ goal' = max
  /\ UNCHANGED <<network, history, current_time, pending_events, stats, injected, waiting, running,
                 outgoing, locals, generated, discarded>>

\* dispatch_to_subgraphs; events without a destination are in neither counter.
BeginStep ==
  LET addressed == {i \in DOMAIN pending_events : pending_events[i].dst # Custom}
      routed == {i \in addressed : FindSubgraph(pending_events[i].dst) # None}
  IN  /\ phase = "looping" /\ current_time < goal
      /\ phase' = "stepping"
      /\ waiting' = Members
      /\ inbox' = [s \in EventSubs |-> PushAll(inbox[s], For(s))]
      /\ buffered' = [s \in TickSubs |-> buffered[s] + Len(For(s))]
      /\ stats' = [stats EXCEPT !.dispatched = @ + Cardinality(routed),
                               !.dropped = @ + Cardinality(addressed) - Cardinality(routed)]
      /\ discarded' = discarded + Len(pending_events) - Cardinality(addressed)
      /\ pending_events' = <<>>
      /\ UNCHANGED <<network, history, current_time, goal, injected, running, outgoing, clock,
                     generated>>

EnterSubgraph(s) ==
  /\ phase = "stepping" /\ running = {}
  /\ s \in waiting
  /\ \E k \in DOMAIN order : order[k] = s /\ \A j \in 1..(k - 1) : order[j] \notin waiting
  /\ running' = {s}
  /\ waiting' = waiting \ {s}
  /\ UNCHANGED <<network, history, globals, phase, outgoing, locals, generated, discarded>>

\* One iteration of the event executor's loop.  The node answers with at most
\* one event; if nobody here has the destination the event just disappears.
ProcessEvent(s, e, answer) ==
  LET mine == {i \in DOMAIN answer : answer[i].dst \in Nodes /\ Home[answer[i].dst] = s}
  IN  /\ s \in running /\ IsFirst(e, inbox[s]) /\ e.event.time <= next_time
      /\ generated + Len(answer) <= MaxGenerated
      /\ answer # <<>> => e.event.dst \in Nodes /\ Home[e.event.dst] = s
      /\ \A i \in DOMAIN answer :
           answer[i].src = e.event.dst /\ answer[i].time - e.event.time \in Delays
      /\ inbox' = [inbox EXCEPT ![s] =
           PushAll(Without(@, {e}), Messages(Kept(answer, mine)))]
      /\ clock' = [clock EXCEPT ![s] = Later(e.event.time, @)]
      /\ outgoing' = [outgoing EXCEPT ![s] = @ \o Kept(answer, DOMAIN answer \ mine)]
      /\ generated' = generated + Len(answer)
      /\ UNCHANGED <<network, history, globals, phase, waiting, running, buffered,
                     discarded>>

\* One tick of a tick executor; everything its nodes generate goes to the engine,
\* stamped with the tick's time, even if it is for one of them.
Tick(s, output) ==
  /\ s \in running \cap TickSubs
  /\ clock[s] + Period[s] <= next_time
  /\ generated + Len(output) <= MaxGenerated
  /\ clock' = [clock EXCEPT ![s] = @ + Period[s]]
  /\ \A i \in DOMAIN output :
       Home[output[i].src] = s /\ output[i].time = clock[s] + Period[s]
  /\ outgoing' = [outgoing EXCEPT ![s] = @ \o output]
  /\ generated' = generated + Len(output)
  /\ UNCHANGED <<network, history, globals, phase, waiting, running, inbox, buffered,
                 discarded>>

\* The executor's loop has nothing left to do within the round.
LeaveSubgraph(s) ==
  /\ s \in running
  /\ \/ /\ s \in EventSubs /\ DueBy(inbox[s], next_time) = {}
        /\ clock' = [clock EXCEPT ![s] = Later(next_time, @)]
     \/ /\ s \in TickSubs /\ clock[s] + Period[s] > next_time
        /\ UNCHANGED clock
  /\ running' = running \ {s}
  /\ UNCHANGED <<network, history, globals, phase, waiting, outgoing, inbox, buffered,
                 generated, discarded>>

\* What the round has collected, in the order in which subgraphs are iterated.
Collected == FlattenSeq([i \in DOMAIN order |-> outgoing[order[i]]])

\* Mutant: the round ends when every subgraph has been started.
AllStarted == waiting = {}

\* Every run_until of the round has returned.
AllReturned == waiting = {} /\ running = {}

\* The events collected are pushed to the queue that take emptied.
EndStep ==
  /\ phase = "stepping" /\ AllReturned
  /\ phase' = "looping"
  /\ pending_events' = [i \in DOMAIN Collected |-> Deliver(Collected[i])]
  /\ outgoing' = [s \in Subs |-> <<>>]
  /\ current_time' = next_time
  /\ fresh' = {}
  /\ stats' = [stats EXCEPT !.steps = @ + 1, !.processed = @ + Len(Collected)]
  /\ UNCHANGED <<network, goal, injected, waiting, running, locals, generated, discarded,
                 replaced>>

\* Mutants: the run stops rather than overshoot, or wants to meet max_time exactly.
ReturnWithoutOvershoot ==
  /\ phase = "looping" /\ next_time > goal
  /\ phase' = "idle"
  /\ goal' = 0
  /\ UNCHANGED <<network, history, current_time, pending_events, stats, injected, waiting, running,
                 outgoing, locals, generated, discarded>>
ReturnWhenEqual ==
  /\ phase = "looping" /\ current_time >= goal
  /\ IF current_time = goal THEN phase' = "idle" ELSE UNCHANGED phase
  /\ UNCHANGED <<network, history, globals, waiting, running, outgoing, locals, generated, discarded>>

ReturnFromRun ==
  /\ phase = "looping" /\ current_time >= goal
  /\ phase' = "idle"
  /\ goal' = 0
  /\ UNCHANGED <<network, history, current_time, pending_events, stats, injected, waiting, running,
                 outgoing, locals, generated, discarded>>

ProcessSomeEvent ==
  \E s \in running \cap EventSubs : \E e \in inbox[s].entries :
    \/ ProcessEvent(s, e, <<>>)
    \/ \E d \in Delays, dst \in Nodes \cup {Custom} :
         ProcessEvent(s, e, <<[time |-> e.event.time + d, src |-> e.event.dst, dst |-> dst]>>)

SomeTick ==
  \E s \in running \cap TickSubs :
    \/ Tick(s, <<>>)
    \/ \E src \in Nodes, dst \in Nodes \cup {Custom} :
         Tick(s, <<[time |-> clock[s] + Period[s], src |-> src, dst |-> dst]>>)

EngineStep ==
  \/ BeginStep
  \/ \E s \in Subs : EnterSubgraph(s)
  \/ ProcessSomeEvent
  \/ SomeTick
  \/ \E s \in Subs : LeaveSubgraph(s)
  \/ EndStep
  \/ ReturnFromRun

\* What the owner of the engine may call between runs.
Owner ==
  \/ \E s \in LateSubs : AddSubgraph(s)
  \/ \E channel \in LateChannels : AddChannel(channel)
  \/ \E t \in Stamps, n \in Nodes \cup {Custom} : InjectEvent([time |-> t, dst |-> n])
  \/ \E max \in 0..MaxTime : StartRun(max)

Next == InitEngine \/ Owner \/ EngineStep

Spec == Init /\ [][Next]_vars

\* A run keeps running; its owner is free to do nothing.
FairSpec == Spec /\ WF_vars(EngineStep)
-------------------------------------------------------------------------------
\* The types of the engine's state and of the executors' state it relies on.
TypeOK ==
  /\ current_time \in Nat
  /\ pending_events \in Seq(Message)
  /\ stats \in [steps : Nat, processed : Nat, dispatched : Nat, dropped : Nat]
  /\ channels \in Seq(Link)
  /\ \A link \in DOMAIN channel_map :
       /\ channel_map[link] \in DOMAIN channels
       /\ link = <<channels[channel_map[link]].src, channels[channel_map[link]].dst>>
  /\ phase \in {"idle", "looping", "stepping"}
  /\ goal \in Nat
  /\ waiting \in SUBSET Subs
  /\ running \in SUBSET Subs
  /\ outgoing \in [Subs -> Seq(Event)]
  /\ clock \in [Subs -> Nat]
  /\ DOMAIN inbox = EventSubs
  /\ \A s \in EventSubs : QueueOK(inbox[s], Message)
  /\ buffered \in [TickSubs -> Nat]
  /\ injected \in Nat /\ generated \in Nat /\ discarded \in Nat /\ replaced \in Nat

\* The engine keeps the local clocks together ("1) ... 2) Advance all subgraphs
\* to the next time step", engine.rs:284-289): a subgraph has reached the current
\* time, or after its turn the next, an event-driven one exactly and a
\* tick-driven one to within its period; in the round it is in between.  One
\* added during the simulation starts at 0 and catches up in its first turn.
Lockstep ==
  \A s \in Members :
    LET reached == IF phase = "stepping" /\ s \notin waiting \cup running
                   THEN next_time ELSE current_time
        slack   == IF s \in EventSubs THEN 0 ELSE Period[s] - 1
        late    == s \in fresh /\ reached = current_time
    IN  /\ IF late THEN 0 <= clock[s] ELSE reached - slack <= clock[s]
        /\ clock[s] <= IF s \in running THEN next_time ELSE reached

\* Whatever order the subgraphs are advanced in, between two rounds no
\* event-driven subgraph still holds an event that was due in a past one.
NothingOverdue ==
  phase # "stepping" =>
    \A s \in EventSubs : \A e \in inbox[s].entries : e.event.time > current_time

\* Lookahead: if event-driven subgraphs are reached from the others over channels
\* that are not faster than a round, and the owner injects nothing already due, no
\* message reaches one of them after its clock has passed the message's time.
\* So the "chronological order" of event.rs:114 holds across rounds too.
NothingLate ==
  /\ \A s \in EventSubs : \A e \in inbox[s].entries : e.event.time >= clock[s]
  /\ phase # "stepping" =>
       \A i \in DOMAIN pending_events :
         LET msg == pending_events[i]
         IN  msg.dst # Custom /\ FindSubgraph(msg.dst) \in EventSubs =>
               msg.time >= current_time

\* No event is lost or duplicated between the engine and its executors: each one
\* injected or generated is pending, collected, stored by a tick executor, pushed
\* to an event queue, replaced with its executor, dropped for want of a subgraph or,
\* without a destination, discarded at dispatch; and the statistics tell the same
\* story.
Conserved ==
  /\ injected + generated =
       Len(pending_events) + Len(Collected) + discarded + replaced + stats.dropped
         + SumFunction([s \in Subs |-> Stored(s)])
  /\ injected + stats.processed =
       stats.dispatched + stats.dropped + discarded + Len(pending_events)

\* run stops at the first round boundary at or past max_time ("until current_time
\* >= max_time", engine.rs:292): not before it, and no round starts after it.
RunReachesGoal ==
  [][/\ phase = "looping" /\ phase' = "idle" => current_time >= goal
     /\ current_time' > current_time => current_time' < goal + TimeStep]_vars

\* run returns, when no node answers within the same instant and no tick period
\* is zero.
RunReturns == phase = "looping" ~> phase = "idle"

\* What the engine's rounds look like from outside (Rounds): a subgraph is its
\* clock and what it stores, and takes its turn between run_until's first and last
\* step; the mail is pending_events, the outboxes what run_until returns.
InitialState(s) == [clock |-> 0, store |-> IF s \in EventSubs THEN EmptyQueue ELSE 0]
WithMessages(s, state, messages) ==
  [state EXCEPT !.store = IF s \in EventSubs THEN PushAll(@, messages) ELSE @ + Len(messages)]
UpTo(s, state, t) ==
  IF s \in EventSubs THEN state.clock >= t /\ DueBy(state.store, t) = {}
  ELSE state.clock + Period[s] > t

Round == INSTANCE Rounds WITH
  Step <- TimeStep, Nobody <- Custom,
  New <- InitialState, Give <- WithMessages, Settled <- UpTo, Carry <- Carried,
  now <- current_time, open <- phase = "stepping", members <- Members,
  todo <- waiting, busy <- running, sent <- outgoing, mail <- pending_events,
  local <- [s \in Subs |->
    [clock |-> clock[s], store |-> IF s \in EventSubs THEN inbox[s] ELSE buffered[s]]],
  route <- [n \in Nodes |-> FindSubgraph(n)]

\* The module's contract (engine.rs:284-289, parallel.rs:92-95), whatever the order
\* or the schedule: each subgraph gets exactly its mail, once, in order; advances on
\* its own; and its events travel over the channel added last (engine.rs:127), in
\* the order it sent them, merged with the others' in some order (engine.rs:313).
ImplementsRounds == Round!Spec

\* "Finds which subgraph contains a given node" (engine.rs:216): with ids that follow
\* the convention of engine.rs:221-222, every subgraph is handed the events for the
\* nodes that were added to it at dispatch, and no others.
EachToItsSubgraph ==
  [][phase = "looping" /\ phase' = "stepping" =>
       \A s \in Subs :
         Stored(s)' - Stored(s) =
           Cardinality({i \in DOMAIN pending_events :
             pending_events[i].dst # Custom /\ Home[pending_events[i].dst] = s})]_vars

\* "requires `t_e` to exactly fall on a tick boundary", "else error", "Event
\* rejected" (channel.rs:53, 91, 261): what arrives over a strict
\* channel at a tick-driven subgraph is on one of its tick boundaries.
StrictIsStrict ==
  [][phase = "stepping" /\ phase' = "looping" =>
       \A i \in DOMAIN pending_events' :
         LET msg == pending_events'[i]
             dst == FindSubgraph(msg.dst)
         IN  msg.dst # Custom /\ dst \in TickSubs => IsOnBoundary(msg.time, Period[dst])]_vars
===============================================================================

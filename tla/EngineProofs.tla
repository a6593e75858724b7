----------------------------- MODULE EngineProofs -----------------------------
(***************************************************************************)
(* Theorems about the engines of Engine and ParallelEngine.                *)
(*                                                                         *)
(* Entering a subgraph in iteration order is one of the ways in which a    *)
(* worker may start it, so every step of Spec is one of ParallelSpec's,    *)
(* but for init; the lemmas are about Step, which has both.                *)
(***************************************************************************)
EXTENDS ParallelEngine, CollectionProofs

Step == InitEngine \/ ParallelNext

-------------------------------------------------------------------------------
\* compute_arrival_time, or the time as sent when it fails, is a time.
LEMMA CarriedType ==
  ASSUME EngineAssumption, WidthAssumption, NEW ch \in Link, NEW sent \in Nat, NEW s
  PROVE  Carried(ch, sent, s) \in Nat
<1> DEFINE p == PeriodOf(s)
           x == Wrap(sent + ch.latency)
<1>1. p \in Nat
  BY DEF PeriodOf, EngineAssumption
<1>2. \A i \in Int : Wrap(i) \in Nat
  BY DEF Wrap, WidthAssumption
<1>3. x \in Nat
  <2>1. ch.latency \in Nat
    BY DEF Link, SimTime, WidthAssumption
  <2>2. sent + ch.latency \in Int
    BY <2>1
  <2>3. QED
    BY <1>2, <2>2
<1> HIDE DEF p, x
<1>4. CeilToTick(x, p) \in Nat
  <2>1. CASE p = 0 \/ x = 0
    BY <1>3, <2>1 DEF CeilToTick
  <2>2. CASE p # 0 /\ x # 0
    <3> DEFINE y == Wrap(Wrap(x + p) - 1)
    <3>1. y \in Nat
      BY <1>1, <1>2, <1>3
    <3> HIDE DEF y
    <3>2. (y \div p) * p \in Int
      BY <1>1, <3>1, <2>2
    <3>3. QED
      BY <1>2, <2>2, <3>2 DEF CeilToTick, y
  <2>3. QED
    BY <2>1, <2>2
<1>5. FloorToTick(x, p) \in Nat
  BY <1>1, <1>3 DEF FloorToTick
<1>6. Align(ch.alignment, x, p) \in Nat \cup {None}
  BY <1>3, <1>4, <1>5 DEF Align, Link, Alignments
<1>7. QED
  BY <1>6 DEF Carried, ComputeArrivalTime, p, x

-------------------------------------------------------------------------------
\* The steps of both engines, with the types of what the environment chooses.
LEMMA StepCases ==
  ASSUME EngineAssumption, TypeOK, Step
  PROVE  \/ InitEngine
         \/ InitParallel
         \/ \E s \in LateSubs : AddSubgraph(s)
         \/ \E channel \in LateChannels : AddChannel(channel)
         \/ \E msg \in Message : InjectEvent(msg)
         \/ \E max \in 0..MaxTime : StartRun(max)
         \/ BeginStep
         \/ \E s \in Subs : StartWorker(s)
         \/ \E s \in EventSubs, e \in EntrySet(Message), answer \in Seq(Event) :
              ProcessEvent(s, e, answer)
         \/ \E s \in TickSubs, output \in Seq(Event) : Tick(s, output)
         \/ \E s \in Subs : LeaveSubgraph(s)
         \/ EndStep
         \/ ReturnFromRun
<1>1. ASSUME Owner
      PROVE  \/ \E s \in LateSubs : AddSubgraph(s)
             \/ \E channel \in LateChannels : AddChannel(channel)
             \/ \E msg \in Message : InjectEvent(msg)
             \/ \E max \in 0..MaxTime : StartRun(max)
  <2>1. \A st \in Stamps, n \in Nodes \cup {Custom} : [time |-> st, dst |-> n] \in Message
    BY DEF EngineAssumption, Message
  <2>2. QED
    BY <1>1, <2>1 DEF Owner
<1>2. ASSUME ProcessSomeEvent
      PROVE  \E s \in EventSubs, e \in EntrySet(Message), answer \in Seq(Event) :
               ProcessEvent(s, e, answer)
  <2> DEFINE Some(s, e) ==
        \/ ProcessEvent(s, e, <<>>)
        \/ \E d \in Delays, dst \in Nodes \cup {Custom} :
             ProcessEvent(s, e, <<[time |-> e.event.time + d, src |-> e.event.dst, dst |-> dst]>>)
  <2>6. PICK s \in running \cap EventSubs : \E e \in inbox[s].entries : Some(s, e)
    BY <1>2 DEF ProcessSomeEvent
  <2>1. PICK e \in inbox[s].entries : Some(s, e)
    BY <2>6
  <2>2. e \in EntrySet(Message)
    BY DEF TypeOK, QueueOK
  <2>3. CASE ProcessEvent(s, e, <<>>)
    <3>1. <<>> \in Seq(Event)
      OBVIOUS
    <3>2. QED
      BY <2>2, <2>3, <3>1
  <2>4. CASE \E d \in Delays, dst \in Nodes \cup {Custom} :
               ProcessEvent(s, e, <<[time |-> e.event.time + d, src |-> e.event.dst, dst |-> dst]>>)
    <3>1. PICK d \in Delays, dst \in Nodes \cup {Custom} :
            ProcessEvent(s, e, <<[time |-> e.event.time + d, src |-> e.event.dst, dst |-> dst]>>)
      BY <2>4
    <3> DEFINE ev == [time |-> e.event.time + d, src |-> e.event.dst, dst |-> dst]
    <3>2. e.event.dst \in Nodes
      <4>1. <<ev>> # <<>>
        OBVIOUS
      <4>2. QED
        BY <3>1, <4>1 DEF ProcessEvent
    <3>3. e.event.time + d \in Nat
      BY <2>2 DEF EngineAssumption, EntrySet, Message
    <3>4. ev \in Event
      BY <3>2, <3>3 DEF Event
    <3>5. <<ev>> \in Seq(Event)
      BY <3>4
    <3>6. QED
      BY <2>2, <3>1, <3>5
  <2>5. QED
    BY <2>1, <2>3, <2>4
<1>3. ASSUME SomeTick
      PROVE  \E s \in TickSubs, output \in Seq(Event) : Tick(s, output)
  <2>1. PICK s \in running \cap TickSubs :
          \/ Tick(s, <<>>)
          \/ \E src \in Nodes, dst \in Nodes \cup {Custom} :
               Tick(s, <<[time |-> clock[s] + Period[s], src |-> src, dst |-> dst]>>)
    BY <1>3 DEF SomeTick
  <2>2. CASE Tick(s, <<>>)
    <3>1. <<>> \in Seq(Event)
      OBVIOUS
    <3>2. QED
      BY <2>2, <3>1
  <2>3. CASE \E src \in Nodes, dst \in Nodes \cup {Custom} :
               Tick(s, <<[time |-> clock[s] + Period[s], src |-> src, dst |-> dst]>>)
    <3>1. PICK src \in Nodes, dst \in Nodes \cup {Custom} :
            Tick(s, <<[time |-> clock[s] + Period[s], src |-> src, dst |-> dst]>>)
      BY <2>3
    <3>2. clock[s] + Period[s] \in Nat
      <4>1. clock[s] \in Nat
        BY DEF TypeOK, Subs
      <4>2. Period[s] \in Nat
        BY DEF EngineAssumption
      <4>3. QED
        BY <4>1, <4>2
    <3>3. [time |-> clock[s] + Period[s], src |-> src, dst |-> dst] \in Event
      BY <3>2 DEF Event
    <3>4. <<[time |-> clock[s] + Period[s], src |-> src, dst |-> dst]>> \in Seq(Event)
      BY <3>3
    <3>5. QED
      BY <3>1, <3>4
  <2>4. QED
    BY <2>1, <2>2, <2>3
<1>4. QED
  BY <1>1, <1>2, <1>3 DEF Step, ParallelNext, ParallelStep

\* Advancing in iteration order is advancing in some order.
LEMMA EnterIsStart == ASSUME NEW s, EnterSubgraph(s)  PROVE StartWorker(s)
  BY DEF EnterSubgraph, StartWorker

\* So the sequential engine takes only steps of the parallel one, and its own init.
LEMMA SequentialStep == Next => Step
  BY EnterIsStart DEF Next, EngineStep, Step, ParallelNext, ParallelStep

\* Where subgraphs are: each has a place in the iteration order, takes its turn once in
\* a round and at no other time, and is as init leaves it until it is added.
Placed ==
  /\ Members \subseteq Subs /\ order \in SetToSeqs(Members)
  /\ waiting \subseteq Members /\ running \subseteq Members /\ waiting \cap running = {}
  /\ phase # "stepping" =>
       waiting = {} /\ running = {} /\ outgoing = [s \in Subs |-> <<>>]
  /\ \A s \in Subs \ Members :
       /\ clock[s] = 0
       /\ IF s \in EventSubs THEN inbox[s] = EmptyQueue ELSE buffered[s] = 0
  /\ fresh \subseteq Subs

\* What Placed says of the iteration order.
LEMMA OrderType ==
  ASSUME EngineAssumption, Placed
  PROVE  /\ order \in Seq(Subs) /\ order \in Seq(Members) /\ IsFiniteSet(Members)
         /\ \A i, j \in 1..Len(order) : order[i] = order[j] => i = j
         /\ Members = {} <=> order = <<>>
<1>1. IsFiniteSet(Members)
  BY FS_Subset DEF Placed, EngineAssumption
<1>2. /\ order \in Seq(Members)
      /\ \A i, j \in 1..Len(order) : order[i] = order[j] => i = j
  BY <1>1, OrderOfSet DEF Placed
<1>3. order \in Seq(Subs)
  BY <1>2 DEF Placed
<1>4. Members = {} <=> order = <<>>
  BY <1>2 DEF Members, ToSet
<1>5. QED
  BY <1>1, <1>2, <1>3, <1>4

\* find_subgraph_for_node finds a subgraph that is there, unless there is none.
LEMMA RoutedToMember ==
  ASSUME EngineAssumption, Placed, NEW n \in Nat
  PROVE  /\ FindSubgraph(n) \in Members \cup {None}
         /\ Members # {} => FindSubgraph(n) \in Members
         /\ None \notin Subs
<1>1. order # <<>> => order[1] \in Members
  BY OrderType
<1>2. None \notin Subs
  BY DEF EngineAssumption, None, Subs
<1>3. QED
  BY <1>1, <1>2, OrderType DEF FindSubgraph

\* The group of a subgraph is pending events for it; one that is not there has none.
LEMMA ForType ==
  ASSUME EngineAssumption, TypeOK, Placed, NEW s \in Subs
  PROVE  /\ For(s) \in Seq(Message)
         /\ s \notin Members => For(s) = <<>>
<1> DEFINE I == {i \in DOMAIN pending_events :
                   pending_events[i].dst # Custom /\ FindSubgraph(pending_events[i].dst) = s}
<1>1. pending_events \in Seq(Message) /\ Len(pending_events) \in Nat
  BY DEF TypeOK
<1>2. For(s) = Kept(pending_events, I)
  BY DEF For
<1>3. \A i \in 1..Len(pending_events) : pending_events[i] \in Message
  BY <1>1
<1> HIDE DEF I
<1>4. For(s) \in Seq(Message)
  BY <1>1, <1>2, <1>3, KeptType
<1>5. ASSUME s \notin Members  PROVE For(s) = <<>>
  <2>1. \A i \in 1..Len(pending_events) : i \notin I
    <3>1. SUFFICES ASSUME NEW i \in 1..Len(pending_events), i \in I  PROVE FALSE
      OBVIOUS
    <3>2. pending_events[i].dst \in Nat
      BY <1>3, <3>1 DEF Message, EngineAssumption, I
    <3>3. FindSubgraph(pending_events[i].dst) = s
      BY <3>1 DEF I
    <3>4. QED
      BY <1>5, <3>2, <3>3, RoutedToMember
  <2>2. For(s) \in Seq({})
    BY <1>1, <1>2, <2>1, KeptType
  <2>3. QED
    BY <2>2
<1>6. QED
  BY <1>4, <1>5

\* An event leaves process_outgoing with a time and its destination.
LEMMA DeliverType ==
  ASSUME EngineAssumption, WidthAssumption, TypeOK, NEW ev \in Event
  PROVE  Deliver(ev) \in Message /\ Deliver(ev).dst = ev.dst
<1> DEFINE link == <<FindSubgraph(ev.src), FindSubgraph(ev.dst)>>
           ch == channels[channel_map[link]]
<1>1. link \in DOMAIN channel_map => ch \in Link
  <2>1. channels \in Seq(Link) /\ (link \in DOMAIN channel_map => channel_map[link] \in DOMAIN channels)
    BY DEF TypeOK
  <2>2. QED
    BY <2>1
<1>2. ev.time \in Nat /\ ev.dst \in Nodes \cup {Custom}
  BY DEF Event
<1>3. link \in DOMAIN channel_map => Carried(ch, ev.time, FindSubgraph(ev.dst)) \in Nat
  BY <1>1, <1>2, CarriedType
<1>4. QED
  BY <1>2, <1>3 DEF Deliver, Message

\* What a round collects are events.
LEMMA CollectedType ==
  ASSUME EngineAssumption, TypeOK, Placed
  PROVE  Collected \in Seq(Event)
<1> DEFINE parts == [i \in DOMAIN order |-> outgoing[order[i]]]
<1>1. order \in Seq(Subs) /\ outgoing \in [Subs -> Seq(Event)]
  BY OrderType DEF TypeOK
<1>2. parts \in Seq(Seq(Event))
  <2>1. DOMAIN order = 1..Len(order) /\ Len(order) \in Nat
    BY <1>1
  <2>2. \A i \in 1..Len(order) : outgoing[order[i]] \in Seq(Event)
    BY <1>1
  <2> DEFINE n == Len(order)
  <2>3. n \in Nat /\ parts = [i \in 1..n |-> outgoing[order[i]]]
    BY <2>1
  <2> HIDE DEF n
  <2>4. parts \in [1..n -> Seq(Event)]
    BY <2>2, <2>3 DEF n
  <2>5. QED
    BY <2>3, <2>4
<1>3. QED
  BY <1>2, FlattenType DEF Collected

\* The initial state of an executor is a state of it.
LEMMA EmptyQueueOK == \A S : QueueOK(EmptyQueue, S)
<1>1. IsFiniteSet({})
  BY FS_EmptySet
<1>2. QED
  BY <1>1 DEF QueueOK, EmptyQueue, EntrySet

\* The part of an executor's answer that stays goes to its queue.
LEMMA AnswerType ==
  ASSUME EngineAssumption, TypeOK, NEW s \in EventSubs, NEW e \in inbox[s].entries,
         NEW evs \in Seq(Event)
  PROVE  /\ Messages(evs) \in Seq(Message)
         /\ QueueOK(PushAll(Without(inbox[s], {e}), Messages(evs)), Message)
<1> DEFINE msgs == Messages(evs)
<1>1. \A i \in DOMAIN evs : [time |-> evs[i].time, dst |-> evs[i].dst] \in Message
  <2> SUFFICES ASSUME NEW i \in DOMAIN evs
               PROVE  [time |-> evs[i].time, dst |-> evs[i].dst] \in Message
    OBVIOUS
  <2>1. evs[i] \in Event
    OBVIOUS
  <2>2. evs[i].time \in Nat /\ evs[i].dst \in Nodes \cup {Custom}
    BY <2>1 DEF Event
  <2>3. QED
    BY <2>2 DEF Message
<1>2. msgs \in Seq(Message)
  <2> DEFINE n == Len(evs)
  <2>1. n \in Nat /\ DOMAIN evs = 1..n
    OBVIOUS
  <2> HIDE DEF n
  <2>2. msgs \in [1..n -> Message]
    BY <1>1, <2>1 DEF Messages
  <2> HIDE DEF msgs
  <2>3. QED
    BY <2>1, <2>2, SMTT(30)
<1> HIDE DEF msgs
<1>3. QueueOK(Without(inbox[s], {e}), Message)
  BY WithoutOK DEF TypeOK
<1>4. QueueOK(PushAll(Without(inbox[s], {e}), msgs), Message)
  BY <1>2, <1>3, PushAllOK
<1>5. QED
  BY <1>2, <1>4 DEF msgs

\* Every step keeps the types and the places.
LEMMA TypeStep ==
  ASSUME EngineAssumption, WidthAssumption, TypeOK, Placed, [Step]_vars
  PROVE  TypeOK' /\ Placed'
<1> USE DEF network, history, globals, locals
<1>1. CASE InitEngine
  <2>1. inbox' = [s \in EventSubs |-> EmptyQueue]
    BY <1>1 DEF InitEngine, InitExecutors
  <2>2. TypeOK'
    BY <1>1, <2>1, EmptyQueueOK
       DEF InitEngine, InitExecutors, TypeOK, NoStats
  <2>3. Placed'
    BY <1>1, <2>1 DEF InitEngine, InitExecutors, TypeOK, Placed, Members, Subs
  <2>4. QED
    BY <2>2, <2>3
<1>2. CASE InitParallel
  <2>1. inbox' = [s \in EventSubs |-> EmptyQueue]
    BY <1>2 DEF InitParallel, InitExecutors
  <2>2. TypeOK'
    BY <1>2, <2>1, EmptyQueueOK
       DEF InitParallel, InitExecutors, TypeOK, NoStats
  <2>3. Placed'
    BY <1>2, <2>1 DEF InitParallel, InitExecutors, TypeOK, Placed, Members, Subs
  <2>4. QED
    BY <2>2, <2>3
<1>3. ASSUME NEW s \in LateSubs, AddSubgraph(s)
      PROVE  TypeOK' /\ Placed'
  <2>1. s \in Subs
    BY DEF EngineAssumption
  <2>2. Stored(s) \in Nat
    BY <2>1 DEF Stored, TypeOK, QueueOK, Subs
  <2>3. TypeOK'
    <3>1. \A q \in EventSubs : QueueOK(inbox'[q], Message)
      BY <1>3, EmptyQueueOK DEF AddSubgraph, TypeOK
    <3>2. buffered' \in [TickSubs -> Nat] /\ clock' \in [Subs -> Nat] /\ replaced' \in Nat
      <4>1. /\ clock' = [clock EXCEPT ![s] = 0] /\ replaced' = replaced + Stored(s)
            /\ buffered' = [q \in TickSubs |-> IF q = s THEN 0 ELSE buffered[q]]
        BY <1>3 DEF AddSubgraph
      <4>2. clock \in [Subs -> Nat] /\ replaced \in Nat /\ buffered \in [TickSubs -> Nat]
        BY DEF TypeOK
      <4>3. QED
        BY <2>1, <2>2, <4>1, <4>2
    <3>3. DOMAIN inbox' = EventSubs
      BY <1>3 DEF AddSubgraph
    <3>4. QED
      BY <1>3, <3>1, <3>2, <3>3 DEF AddSubgraph, TypeOK
  <2>4. Members' = Members \cup {s} /\ order' \in SetToSeqs(Members')
    <3>1. CASE s \in Members
      <4>1. order' = order
        BY <1>3, <3>1 DEF AddSubgraph
      <4>2. QED
        BY <3>1, <4>1 DEF Placed, Members
    <3>2. CASE s \notin Members
      <4>1. order' \in SetToSeqs(Members \cup {s})
        BY <1>3, <3>2 DEF AddSubgraph
      <4>2. IsFiniteSet(Members \cup {s})
        BY <2>1, FS_Subset DEF Placed, EngineAssumption
      <4>3. ToSet(order') = Members \cup {s}
        BY <4>1, <4>2, OrderOfSet
      <4>4. QED
        BY <4>1, <4>3 DEF Members
    <3>3. QED
      BY <3>1, <3>2
  <2>5. Placed'
    BY <1>3, <2>1, <2>4 DEF AddSubgraph, TypeOK, Placed, Subs
  <2>6. QED
    BY <2>3, <2>5
<1>4. ASSUME NEW channel \in LateChannels, AddChannel(channel)
      PROVE  TypeOK' /\ Placed'
  <2>1. channel \in Link
    BY DEF EngineAssumption
  <2> DEFINE n == Len(channels) + 1
             pair == <<channel.src, channel.dst>>
  <2>2. /\ channels \in Seq(Link) /\ Len(channels) \in Nat
        /\ channels' = Append(channels, channel) /\ channels' \in Seq(Link)
        /\ Len(channels') = n /\ DOMAIN channels' = 1..n /\ DOMAIN channels = 1..Len(channels)
        /\ channels'[n] = channel /\ \A i \in DOMAIN channels : channels'[i] = channels[i]
    <3>1. channels \in Seq(Link) /\ channels' = Append(channels, channel)
      BY <1>4 DEF AddChannel, TypeOK
    <3>2. QED
      BY <2>1, <3>1
  <2>3. /\ DOMAIN channel_map' = {pair} \cup DOMAIN channel_map
        /\ \A link \in DOMAIN channel_map' :
             channel_map'[link] = IF link = pair THEN n ELSE channel_map[link]
    <3>1. channel_map' = [link \in DOMAIN channel_map \cup {pair} |->
                            IF link = pair THEN n ELSE channel_map[link]]
      BY <1>4, <2>2 DEF AddChannel
    <3> HIDE DEF pair, n
    <3>2. QED
      BY <3>1
  <2>4. \A link \in DOMAIN channel_map' :
          /\ channel_map'[link] \in DOMAIN channels'
          /\ link = <<channels'[channel_map'[link]].src, channels'[channel_map'[link]].dst>>
    <3> SUFFICES ASSUME NEW link \in DOMAIN channel_map'
                 PROVE  /\ channel_map'[link] \in DOMAIN channels'
                        /\ link = <<channels'[channel_map'[link]].src, channels'[channel_map'[link]].dst>>
      OBVIOUS
    <3>1. CASE link = pair
      BY <2>2, <2>3, <3>1
    <3>2. CASE link # pair
      <4>1. channel_map'[link] = channel_map[link] /\ link \in DOMAIN channel_map
        BY <2>3, <3>2
      <4>2. /\ channel_map[link] \in DOMAIN channels
            /\ link = <<channels[channel_map[link]].src, channels[channel_map[link]].dst>>
        BY <4>1 DEF TypeOK
      <4>3. QED
        BY <2>2, <4>1, <4>2
    <3>3. QED
      BY <3>1, <3>2
  <2> HIDE DEF n, pair
  <2>5. TypeOK'
    BY <1>4, <2>2, <2>4 DEF AddChannel, TypeOK
  <2>6. Placed'
    BY <1>4 DEF AddChannel, Placed, Members
  <2>7. QED
    BY <2>5, <2>6
<1>5. ASSUME NEW msg \in Message, InjectEvent(msg)
      PROVE  TypeOK' /\ Placed'
  <2>1. Append(pending_events, msg) \in Seq(Message) /\ injected + 1 \in Nat
    BY DEF TypeOK
  <2>4. TypeOK'
    BY <1>5, <2>1 DEF InjectEvent, TypeOK
  <2>2. Placed'
    BY <1>5 DEF InjectEvent, Placed, Members
  <2>3. QED
    BY <2>2, <2>4
<1>6. ASSUME NEW max \in 0..MaxTime, StartRun(max)
      PROVE  TypeOK' /\ Placed'
  <2>1. max \in Nat
    BY DEF EngineAssumption
  <2>2. TypeOK'
    BY <1>6, <2>1 DEF StartRun, TypeOK
  <2>3. Placed'
    BY <1>6 DEF StartRun, Placed, Members
  <2>4. QED
    BY <2>2, <2>3
<1>7. CASE BeginStep
  <2> DEFINE addressed == {i \in DOMAIN pending_events : pending_events[i].dst # Custom}
             routed == {i \in addressed : FindSubgraph(pending_events[i].dst) # None}
  <2>1. /\ Cardinality(routed) \in Nat /\ Cardinality(addressed) \in Nat
        /\ Cardinality(routed) <= Cardinality(addressed)
        /\ Cardinality(addressed) <= Len(pending_events)
    <3>1. DOMAIN pending_events = 1..Len(pending_events) /\ Len(pending_events) \in Nat
      BY DEF TypeOK
    <3>2. /\ IsFiniteSet(1..Len(pending_events))
          /\ Cardinality(1..Len(pending_events)) = Len(pending_events)
      <4>1. 1 \in Int /\ Len(pending_events) \in Int
        BY <3>1
      <4>2. /\ IsFiniteSet(1..Len(pending_events))
            /\ Cardinality(1..Len(pending_events))
                 = IF 1 > Len(pending_events) THEN 0 ELSE Len(pending_events) - 1 + 1
        BY <4>1, FS_Interval, Zenon
      <4>3. QED
        BY <3>1, <4>2
    <3>3. addressed \in SUBSET (1..Len(pending_events)) /\ routed \in SUBSET addressed
      BY <3>1
    <3> HIDE DEF addressed, routed
    <3> DEFINE n == Len(pending_events)
               all == 1..n
    <3>7. IsFiniteSet(all) /\ Cardinality(all) = n /\ addressed \in SUBSET all
      BY <3>2, <3>3
    <3> HIDE DEF n, all
    <3>4. IsFiniteSet(addressed) /\ Cardinality(addressed) <= Len(pending_events)
      BY <3>7, FS_Subset DEF n
    <3>5. IsFiniteSet(routed) /\ Cardinality(routed) <= Cardinality(addressed)
      BY <3>3, <3>4, FS_Subset
    <3>6. QED
      BY <3>4, <3>5, FS_CardinalityType
  <2>2. /\ phase = "looping" /\ phase' = "stepping" /\ waiting' = Members
        /\ inbox' = [s \in EventSubs |-> PushAll(inbox[s], For(s))]
        /\ buffered' = [s \in TickSubs |-> buffered[s] + Len(For(s))]
        /\ stats' = [stats EXCEPT !.dispatched = @ + Cardinality(routed),
                               !.dropped = @ + Cardinality(addressed) - Cardinality(routed)]
        /\ discarded' = discarded + Len(pending_events) - Cardinality(addressed)
        /\ pending_events' = <<>>
        /\ UNCHANGED <<network, history, current_time, goal, injected, running, outgoing, clock,
                     generated>>
    BY <1>7 DEF BeginStep
  <2> HIDE DEF addressed, routed
  <2>3. \A s \in EventSubs : QueueOK(inbox'[s], Message)
    <3> SUFFICES ASSUME NEW s \in EventSubs  PROVE QueueOK(inbox'[s], Message)
      OBVIOUS
    <3>1. For(s) \in Seq(Message) /\ QueueOK(inbox[s], Message)
      BY ForType DEF TypeOK, Subs
    <3>2. QueueOK(PushAll(inbox[s], For(s)), Message)
      BY <3>1, PushAllOK
    <3>3. QED
      BY <2>2, <3>2
  <2>4. buffered' \in [TickSubs -> Nat]
    <3>1. \A s \in TickSubs : buffered[s] + Len(For(s)) \in Nat
      <4> SUFFICES ASSUME NEW s \in TickSubs  PROVE buffered[s] + Len(For(s)) \in Nat
        OBVIOUS
      <4>1. For(s) \in Seq(Message)
        BY ForType DEF Subs
      <4>2. Len(For(s)) \in Nat /\ buffered[s] \in Nat
        <5>1. buffered \in [TickSubs -> Nat]
          BY DEF TypeOK
        <5>2. QED
          BY <4>1, <5>1
      <4>3. QED
        BY <4>2
    <3>2. QED
      BY <2>2, <3>1
  <2>5. stats' \in [steps : Nat, processed : Nat, dispatched : Nat, dropped : Nat]
    <3> DEFINE a == Cardinality(routed)
               b == Cardinality(addressed)
    <3>1. a \in Nat /\ b \in Nat /\ a <= b
      BY <2>1
    <3>2. stats' = [stats EXCEPT !.dispatched = stats.dispatched + a, !.dropped = stats.dropped + b - a]
      BY <2>2
    <3> HIDE DEF a, b
    <3>3. stats \in [steps : Nat, processed : Nat, dispatched : Nat, dropped : Nat]
      BY DEF TypeOK
    <3>4. stats.dispatched + a \in Nat /\ stats.dropped + b - a \in Nat
      BY <3>1, <3>3
    <3>5. QED
      BY <3>2, <3>3, <3>4
  <2>6. discarded' \in Nat
    <3> DEFINE a == Len(pending_events)
               b == Cardinality(addressed)
    <3>1. a \in Nat /\ b \in Nat /\ b <= a /\ discarded' = discarded + a - b
      BY <2>1, <2>2 DEF TypeOK
    <3> HIDE DEF a, b
    <3>2. QED
      BY <3>1 DEF TypeOK
  <2>7. TypeOK'
    <3>1. DOMAIN inbox' = EventSubs /\ pending_events' \in Seq(Message) /\ waiting' \in SUBSET Subs
      BY <2>2 DEF Placed
    <3>2. QED
      BY <2>2, <2>3, <2>4, <2>5, <2>6, <3>1 DEF TypeOK
  <2>8. \A s \in Subs \ Members :
          IF s \in EventSubs THEN inbox'[s] = EmptyQueue ELSE buffered'[s] = 0
    <3> SUFFICES ASSUME NEW s \in Subs \ Members
                 PROVE  IF s \in EventSubs THEN inbox'[s] = EmptyQueue ELSE buffered'[s] = 0
      OBVIOUS
    <3>1. For(s) = <<>>
      BY ForType
    <3>2. CASE s \in EventSubs
      <4>1. inbox'[s] = PushAll(EmptyQueue, <<>>)
        BY <2>2, <3>1, <3>2 DEF Placed
      <4>2. PushAll(EmptyQueue, <<>>) = EmptyQueue
        <5>1. Len(<<>>) = 0 /\ 1..0 = {} /\ 0 + 0 = 0
          OBVIOUS
        <5>2. QED
          BY <5>1 DEF PushAll, EmptyQueue
      <4>3. QED
        BY <3>2, <4>1, <4>2
    <3>3. CASE s \notin EventSubs
      <4>1. s \in TickSubs /\ buffered[s] = 0
        BY <3>3 DEF Placed, Subs
      <4>2. QED
        BY <2>2, <3>1, <3>3, <4>1
    <3>4. QED
      BY <3>2, <3>3
  <2>9. Members' = Members
    BY <2>2 DEF Members
  <2>10. Placed'
    BY <2>2, <2>8, <2>9 DEF Placed
  <2>11. QED
    BY <2>7, <2>10
<1>8. ASSUME NEW s \in Subs, StartWorker(s)
      PROVE  TypeOK' /\ Placed'
  <2>1. TypeOK'
    BY <1>8 DEF StartWorker, TypeOK
  <2>2. Placed'
    BY <1>8 DEF StartWorker, Placed, Members
  <2>3. QED
    BY <2>1, <2>2
<1>9. ASSUME NEW s \in EventSubs, NEW e \in EntrySet(Message), NEW answer \in Seq(Event),
             ProcessEvent(s, e, answer)
      PROVE  TypeOK' /\ Placed'
  <2> DEFINE mine == {i \in DOMAIN answer : answer[i].dst \in Nodes /\ Home[answer[i].dst] = s}
             here == Kept(answer, mine)
             there == Kept(answer, DOMAIN answer \ mine)
             msgs == Messages(here)
  <2>1. /\ s \in running /\ e \in inbox[s].entries
        /\ inbox' = [inbox EXCEPT ![s] = PushAll(Without(inbox[s], {e}), msgs)]
        /\ clock' = [clock EXCEPT ![s] = Later(e.event.time, clock[s])]
        /\ outgoing' = [outgoing EXCEPT ![s] = outgoing[s] \o there]
        /\ generated' = generated + Len(answer)
        /\ UNCHANGED <<network, history, globals, phase, waiting, running, buffered,
                       discarded>>
    BY <1>9 DEF ProcessEvent, IsFirst
  <2>2. here \in Seq(Event) /\ there \in Seq(Event)
    <3>1. Len(answer) \in Nat /\ \A i \in 1..Len(answer) : answer[i] \in Event
      OBVIOUS
    <3> HIDE DEF mine
    <3>2. QED
      BY <3>1, KeptType
  <2> HIDE DEF mine, here, there
  <2>3. QueueOK(PushAll(Without(inbox[s], {e}), msgs), Message)
    BY <2>1, <2>2, AnswerType
  <2> HIDE DEF msgs
  <2>4. Later(e.event.time, clock[s]) \in Nat
    BY DEF Later, TypeOK, EntrySet, Message, Subs
  <2>5. \A q \in EventSubs : QueueOK(inbox'[q], Message)
    BY <2>1, <2>3 DEF TypeOK
  <2>6. s \in Subs /\ outgoing[s] \o there \in Seq(Event)
    BY <2>2 DEF TypeOK, Subs
  <2>7. TypeOK'
    <3>1. DOMAIN inbox' = EventSubs /\ clock' \in [Subs -> Nat] /\ generated' \in Nat
      BY <2>1, <2>4, <2>6, SMTT(30) DEF TypeOK
    <3>2. outgoing' \in [Subs -> Seq(Event)]
      BY <2>1, <2>6 DEF TypeOK
    <3>3. QED
      BY <2>1, <2>5, <3>1, <3>2 DEF TypeOK
  <2>8. s \in Members /\ Members' = Members
    BY <2>1 DEF Placed, Members
  <2>9. phase = "stepping"
    BY <2>1 DEF Placed
  <2>10. Placed'
    BY <2>1, <2>8, <2>9 DEF Placed, TypeOK
  <2>11. QED
    BY <2>7, <2>10
<1>10. ASSUME NEW s \in TickSubs, NEW output \in Seq(Event), Tick(s, output)
       PROVE  TypeOK' /\ Placed'
  <2>1. s \in Subs /\ Period[s] \in Nat /\ clock[s] \in Nat
    BY DEF Subs, EngineAssumption, TypeOK
  <2>2. outgoing[s] \o output \in Seq(Event) /\ Len(output) \in Nat
    BY <2>1 DEF TypeOK
  <2>3. TypeOK'
    <3>1. clock' \in [Subs -> Nat] /\ generated' \in Nat
      <4>1. /\ clock' = [clock EXCEPT ![s] = clock[s] + Period[s]]
            /\ generated' = generated + Len(output)
        BY <1>10 DEF Tick
      <4>2. clock \in [Subs -> Nat] /\ generated \in Nat
        BY DEF TypeOK
      <4>3. QED
        BY <2>1, <2>2, <4>1, <4>2
    <3>2. outgoing' \in [Subs -> Seq(Event)]
      BY <1>10, <2>1, <2>2 DEF Tick, TypeOK
    <3>3. QED
      BY <1>10, <3>1, <3>2 DEF Tick, TypeOK
  <2>4. s \in running /\ s \in Members /\ Members' = Members /\ phase = "stepping"
    BY <1>10 DEF Tick, Placed, Members
  <2>5. Placed'
    BY <1>10, <2>1, <2>4 DEF Tick, Placed, TypeOK
  <2>6. QED
    BY <2>3, <2>5
<1>11. ASSUME NEW s \in Subs, LeaveSubgraph(s)
       PROVE  TypeOK' /\ Placed'
  <2>1. Later(next_time, clock[s]) \in Nat
    <3>1. current_time \in Nat /\ TimeStep \in Nat /\ clock[s] \in Nat
      BY DEF TypeOK, EngineAssumption
    <3>2. QED
      BY <3>1 DEF Later, next_time
  <2>2. clock' \in [Subs -> Nat] /\ \A q \in Subs \ {s} : clock'[q] = clock[q]
    <3>1. \/ clock' = [clock EXCEPT ![s] = Later(next_time, clock[s])]
          \/ clock' = clock
      BY <1>11 DEF LeaveSubgraph
    <3>2. clock \in [Subs -> Nat]
      BY DEF TypeOK
    <3>3. QED
      BY <2>1, <3>1, <3>2
  <2>3. TypeOK'
    BY <1>11, <2>2 DEF LeaveSubgraph, TypeOK
  <2>4. s \in Members /\ Members' = Members
    BY <1>11 DEF LeaveSubgraph, Placed, Members
  <2>5. Placed'
    BY <1>11, <2>2, <2>4 DEF LeaveSubgraph, Placed
  <2>6. QED
    BY <2>3, <2>5
<1>12. CASE EndStep
  <2>1. Collected \in Seq(Event)
    BY CollectedType
  <2>2. pending_events' \in Seq(Message)
    <3>1. \A i \in DOMAIN Collected : Deliver(Collected[i]) \in Message
      BY <2>1, DeliverType
    <3> DEFINE n == Len(Collected)
    <3>2. n \in Nat /\ DOMAIN Collected = 1..n
      BY <2>1
    <3> HIDE DEF n
    <3>3. pending_events' \in [1..n -> Message]
      BY <1>12, <3>1, <3>2 DEF EndStep
    <3>4. QED
      BY <3>2, <3>3
  <2>3. next_time \in Nat
    <3>1. current_time \in Nat /\ TimeStep \in Nat
      BY DEF TypeOK, EngineAssumption
    <3>2. QED
      BY <3>1 DEF next_time
  <2>4. [s \in Subs |-> <<>>] \in [Subs -> Seq(Event)]
    OBVIOUS
  <2>5. stats' \in [steps : Nat, processed : Nat, dispatched : Nat, dropped : Nat]
    <3>1. Len(Collected) \in Nat
      BY <2>1
    <3>2. QED
      <4> DEFINE n == Len(Collected)
      <4>1. n \in Nat /\ stats' = [stats EXCEPT !.steps = @ + 1, !.processed = @ + n]
        BY <1>12, <3>1 DEF EndStep
      <4> HIDE DEF n
      <4>2. stats \in [steps : Nat, processed : Nat, dispatched : Nat, dropped : Nat]
        BY DEF TypeOK
      <4>3. /\ stats' = [stats EXCEPT !.steps = stats.steps + 1, !.processed = stats.processed + n]
            /\ stats.steps + 1 \in Nat /\ stats.processed + n \in Nat
        <5>1. stats.steps \in Nat /\ stats.processed \in Nat
          BY <4>2
        <5>2. stats.steps + 1 \in Nat /\ stats.processed + n \in Nat
          <6>1. \A x, y \in Nat : x + 1 \in Nat /\ x + y \in Nat
            OBVIOUS
          <6>2. QED
            BY <4>1, <5>1, <6>1, Zenon
        <5>3. stats' = [stats EXCEPT !.steps = stats.steps + 1, !.processed = stats.processed + n]
          BY <4>1, Zenon
        <5>4. QED
          BY <5>2, <5>3
      <4> DEFINE a == stats.steps + 1
                 b == stats.processed + n
      <4>4. stats' = [stats EXCEPT !.steps = a, !.processed = b] /\ a \in Nat /\ b \in Nat
        BY <4>3
      <4> HIDE DEF a, b
      <4>5. QED
        BY <4>2, <4>4
  <2>6. TypeOK'
    BY <1>12, <2>2, <2>3, <2>4, <2>5 DEF EndStep, TypeOK
  <2>7. Placed'
    BY <1>12 DEF EndStep, AllReturned, Placed, Members
  <2>8. QED
    BY <2>6, <2>7
<1>13. CASE ReturnFromRun
  <2>1. TypeOK'
    BY <1>13 DEF ReturnFromRun, TypeOK
  <2>2. Placed'
    BY <1>13 DEF ReturnFromRun, Placed, Members
  <2>3. QED
    BY <2>1, <2>2
<1>14. CASE UNCHANGED vars
  BY <1>14 DEF vars, TypeOK, Placed, Members
<1>15. QED
  BY <1>1, <1>2, <1>3, <1>4, <1>5, <1>6, <1>7, <1>8, <1>9, <1>10, <1>11, <1>12, <1>13, <1>14,
     StepCases

\* Both hold before anything has happened.
LEMMA TypeInit ==
  ASSUME EngineAssumption, Init
  PROVE  TypeOK /\ Placed
<1> DEFINE pairs == {<<Channels[i].src, Channels[i].dst>> : i \in DOMAIN Channels}
           index == [link \in pairs |->
                      CHOOSE i \in DOMAIN Channels : link = <<Channels[i].src, Channels[i].dst>>]
<1>1. channels = Channels /\ channel_map = index
  BY DEF Init
<1>2. \A link \in pairs : /\ index[link] \in DOMAIN Channels
                          /\ link = <<Channels[index[link]].src, Channels[index[link]].dst>>
  OBVIOUS
<1>3. DOMAIN channel_map = pairs
  BY <1>1
<1>4. \A link \in DOMAIN channel_map :
        /\ channel_map[link] \in DOMAIN channels
        /\ link = <<channels[channel_map[link]].src, channels[channel_map[link]].dst>>
  BY <1>1, <1>2, <1>3
<1>5. channels \in Seq(Link)
  BY <1>1 DEF EngineAssumption
<1> HIDE DEF pairs, index
<1>6. \A s \in EventSubs : QueueOK(inbox[s], Message)
  BY EmptyQueueOK DEF Init
<1>7. TypeOK
  BY <1>4, <1>5, <1>6 DEF Init, TypeOK, NoStats
<1>8. Members = Subs \ LateSubs /\ order \in SetToSeqs(Members)
  <2>1. IsFiniteSet(Subs \ LateSubs)
    BY FS_Subset DEF EngineAssumption
  <2>2. order \in SetToSeqs(Subs \ LateSubs)
    BY DEF Init
  <2>3. ToSet(order) = Subs \ LateSubs
    BY <2>1, <2>2, OrderOfSet
  <2>4. QED
    BY <2>2, <2>3 DEF Members
<1>9. Placed
  BY <1>8 DEF Init, Placed, Subs
<1>10. QED
  BY <1>7, <1>9

-------------------------------------------------------------------------------
\* What is needed of the goal: a round starts before it only.
Bounded ==
  /\ goal \in 0..MaxTime
  /\ phase = "stepping" => current_time < goal

\* Every step keeps the goal ahead of the rounds.
LEMMA BoundedStep ==
  ASSUME EngineAssumption, TypeOK, Bounded, [Step]_vars
  PROVE  Bounded'
<1> USE DEF network, history, globals, locals
<1>1. ASSUME \/ InitEngine
             \/ InitParallel
             \/ \E s \in LateSubs : AddSubgraph(s)
             \/ \E channel \in LateChannels : AddChannel(channel)
             \/ \E msg \in Message : InjectEvent(msg)
             \/ \E max \in 0..MaxTime : StartRun(max)
             \/ EndStep
             \/ ReturnFromRun
      PROVE  Bounded'
  <2>1. 0 \in 0..MaxTime
    BY DEF EngineAssumption
  <2>2. phase' # "stepping" /\ (goal' = goal \/ goal' = 0 \/ goal' \in 0..MaxTime)
    BY <1>1 DEF InitEngine, InitParallel, AddSubgraph, AddChannel, InjectEvent, StartRun, EndStep,
                ReturnFromRun
  <2>3. QED
    BY <2>1, <2>2 DEF Bounded
<1>3. CASE BeginStep
  BY <1>3 DEF BeginStep, Bounded
<1>4. ASSUME \/ \E s \in Subs : StartWorker(s)
             \/ \E s \in EventSubs, e \in EntrySet(Message), answer \in Seq(Event) :
                  ProcessEvent(s, e, answer)
             \/ \E s \in TickSubs, output \in Seq(Event) : Tick(s, output)
             \/ \E s \in Subs : LeaveSubgraph(s)
      PROVE  Bounded'
  <2>1. UNCHANGED <<phase, goal, current_time>>
    BY <1>4, ZenonT(40) DEF StartWorker, ProcessEvent, Tick, LeaveSubgraph
  <2>2. QED
    BY <2>1 DEF Bounded
<1>2. CASE UNCHANGED vars
  BY <1>2 DEF vars, Bounded
<1>5. QED
  BY <1>1, <1>2, <1>3, <1>4, StepCases

\* run stops at the first boundary at or past its goal.
LEMMA GoalStep ==
  ASSUME EngineAssumption, TypeOK, Bounded, [Step]_vars
  PROVE  /\ phase = "looping" /\ phase' = "idle" => current_time >= goal
         /\ current_time' > current_time => current_time' < goal + TimeStep
<1> USE DEF network, history, globals, locals
<1>1. CASE Step
  <2>1. current_time \in Nat /\ goal \in Nat /\ TimeStep \in Nat
    BY DEF TypeOK, EngineAssumption
  <2>2. ASSUME \/ InitEngine
               \/ InitParallel
               \/ \E s \in LateSubs : AddSubgraph(s)
               \/ \E channel \in LateChannels : AddChannel(channel)
               \/ \E msg \in Message : InjectEvent(msg)
               \/ \E max \in 0..MaxTime : StartRun(max)
               \/ BeginStep
               \/ \E s \in Subs : StartWorker(s)
               \/ \E s \in EventSubs, e \in EntrySet(Message), answer \in Seq(Event) :
                    ProcessEvent(s, e, answer)
               \/ \E s \in TickSubs, output \in Seq(Event) : Tick(s, output)
               \/ \E s \in Subs : LeaveSubgraph(s)
        PROVE  (phase' = phase \/ phase' # "idle") /\ (current_time' = current_time \/ current_time' = 0)
    BY <2>2
       DEF InitEngine, InitParallel, AddSubgraph, AddChannel, InjectEvent, StartRun, BeginStep,
           StartWorker, ProcessEvent, Tick, LeaveSubgraph
  <2>3. CASE EndStep
    BY <2>1, <2>3 DEF EndStep, Bounded, next_time
  <2>4. CASE ReturnFromRun
    BY <2>1, <2>4 DEF ReturnFromRun
  <2>5. QED
    BY <1>1, <2>1, <2>2, <2>3, <2>4, StepCases
<1>2. CASE UNCHANGED vars
  BY <1>2 DEF vars, TypeOK
<1>3. QED
  BY <1>1, <1>2

\* Nothing that is due is left behind: neither between rounds, nor in a round by a
\* subgraph that has had its turn.
Handled ==
  /\ NothingOverdue
  /\ phase = "stepping" =>
       \A s \in EventSubs \ (waiting \cup running) :
         \A e \in inbox[s].entries : e.event.time > next_time

\* Every step leaves nothing behind.
LEMMA HandledStep ==
  ASSUME EngineAssumption, TypeOK, Placed, Handled, [Step]_vars
  PROVE  Handled'
<1> USE DEF network, history, globals, locals
<1>1. ASSUME \/ InitEngine \/ InitParallel
      PROVE  Handled'
  <2>1. phase' # "stepping" /\ \A s \in EventSubs : inbox'[s] = EmptyQueue
    BY <1>1 DEF InitEngine, InitParallel, InitExecutors
  <2>2. EmptyQueue.entries = {}
    BY DEF EmptyQueue
  <2>3. QED
    BY <2>1, <2>2 DEF Handled, NothingOverdue
<1>2. ASSUME NEW s \in LateSubs, AddSubgraph(s)
      PROVE  Handled'
  <2>1. /\ phase # "stepping" /\ UNCHANGED <<phase, current_time>>
        /\ \A q \in EventSubs : inbox'[q] = EmptyQueue \/ inbox'[q] = inbox[q]
    BY <1>2 DEF AddSubgraph
  <2>2. EmptyQueue.entries = {}
    BY DEF EmptyQueue
  <2>3. QED
    BY <2>1, <2>2 DEF Handled, NothingOverdue
<1>3. ASSUME \/ \E channel \in LateChannels : AddChannel(channel)
             \/ \E msg \in Message : InjectEvent(msg)
             \/ \E max \in 0..MaxTime : StartRun(max)
             \/ ReturnFromRun
      PROVE  Handled'
  <2>1. phase # "stepping" /\ phase' # "stepping" /\ UNCHANGED <<inbox, current_time>>
    BY <1>3 DEF AddChannel, InjectEvent, StartRun, ReturnFromRun
  <2>2. QED
    BY <2>1 DEF Handled, NothingOverdue
<1>4. CASE BeginStep
  <2>1. phase' = "stepping" /\ waiting' = Members
    BY <1>4 DEF BeginStep
  <2>2. ASSUME NEW s \in EventSubs \ Members
        PROVE  inbox'[s].entries = {}
    <3>1. For(s) = <<>> /\ inbox[s] = EmptyQueue
      BY ForType DEF Placed, Subs
    <3>2. inbox'[s] = PushAll(EmptyQueue, <<>>)
      BY <1>4, <3>1 DEF BeginStep
    <3>3. Len(<<>>) = 0 /\ 1..0 = {}
      OBVIOUS
    <3>4. QED
      BY <3>2, <3>3 DEF PushAll, EmptyQueue
  <2>3. QED
    BY <2>1, <2>2 DEF Handled, NothingOverdue
<1>5. ASSUME NEW s \in Subs, StartWorker(s)
      PROVE  Handled'
  <2>1. /\ phase = "stepping" /\ phase' = phase /\ waiting' \cup running' = waiting \cup running
        /\ inbox' = inbox /\ current_time' = current_time
    BY <1>5 DEF StartWorker
  <2>2. QED
    BY <2>1 DEF Handled, NothingOverdue, next_time
<1>6. ASSUME NEW s \in EventSubs, NEW e \in EntrySet(Message), NEW answer \in Seq(Event),
             ProcessEvent(s, e, answer)
      PROVE  Handled'
  <2>1. /\ s \in running /\ phase' = phase /\ waiting' = waiting /\ running' = running
        /\ current_time' = current_time /\ \A q \in EventSubs \ {s} : inbox'[q] = inbox[q]
    BY <1>6 DEF ProcessEvent, TypeOK
  <2>2. phase = "stepping"
    BY <2>1 DEF Placed
  <2>3. QED
    BY <2>1, <2>2 DEF Handled, NothingOverdue, next_time
<1>7. ASSUME NEW s \in TickSubs, NEW output \in Seq(Event), Tick(s, output)
      PROVE  Handled'
  <2>1. UNCHANGED <<phase, waiting, running, current_time, inbox>>
    BY <1>7 DEF Tick
  <2>2. QED
    BY <2>1 DEF Handled, NothingOverdue, next_time
<1>8. ASSUME NEW s \in Subs, LeaveSubgraph(s)
      PROVE  Handled'
  <2>1. /\ s \in running /\ running' = running \ {s}
        /\ UNCHANGED <<phase, waiting, current_time, inbox>>
        /\ s \in EventSubs => DueBy(inbox[s], next_time) = {}
    BY <1>8 DEF LeaveSubgraph, EngineAssumption
  <2>2. phase = "stepping"
    BY <2>1 DEF Placed
  <2>3. s \in EventSubs => \A e \in inbox[s].entries : e.event.time > next_time
    <3> SUFFICES ASSUME s \in EventSubs, NEW e \in inbox[s].entries  PROVE e.event.time > next_time
      OBVIOUS
    <3>1. e.event.time \in Nat /\ next_time \in Nat
      BY DEF TypeOK, QueueOK, EntrySet, Message, next_time, EngineAssumption
    <3>2. ~(e.event.time <= next_time)
      BY <2>1 DEF DueBy
    <3>3. QED
      BY <3>1, <3>2
  <2>4. QED
    BY <2>1, <2>2, <2>3 DEF Handled, NothingOverdue, next_time
<1>9. CASE EndStep
  <2>1. /\ phase = "stepping" /\ waiting = {} /\ running = {} /\ phase' = "looping"
        /\ current_time' = next_time /\ inbox' = inbox
    BY <1>9 DEF EndStep, AllReturned
  <2>2. QED
    BY <2>1 DEF Handled, NothingOverdue
<1>10. CASE UNCHANGED vars
  BY <1>10 DEF vars, Handled, NothingOverdue, next_time
<1>11. QED
  BY <1>1, <1>2, <1>3, <1>4, <1>5, <1>6, <1>7, <1>8, <1>9, <1>10, StepCases

\* A tick executor with a period of 0 would never return from run_until.
PeriodsPositive == \A s \in TickSubs : Period[s] > 0

\* What Lockstep says of one subgraph.
InLockstep(s) ==
  LET reached == IF phase = "stepping" /\ s \notin waiting \cup running
                 THEN next_time ELSE current_time
      slack   == IF s \in EventSubs THEN 0 ELSE Period[s] - 1
      late    == s \in fresh /\ reached = current_time
  IN  /\ IF late THEN 0 <= clock[s] ELSE reached - slack <= clock[s]
      /\ clock[s] <= IF s \in running THEN next_time ELSE reached

\* What arithmetic needs to know of a subgraph.
LEMMA ClockType ==
  ASSUME EngineAssumption, PeriodsPositive, TypeOK, NEW s \in Subs
  PROVE  /\ clock[s] \in Nat /\ current_time \in Nat /\ TimeStep \in Nat /\ TimeStep > 0
         /\ next_time = current_time + TimeStep
         /\ s \in EventSubs \/ (s \in TickSubs /\ s \notin EventSubs)
         /\ s \in TickSubs => Period[s] \in Nat /\ Period[s] > 0
<1>1. clock[s] \in Nat /\ current_time \in Nat
  BY DEF TypeOK
<1>2. TimeStep \in Nat /\ TimeStep > 0 /\ (s \in TickSubs => Period[s] \in Nat)
  BY DEF EngineAssumption
<1>3. s \in EventSubs \/ (s \in TickSubs /\ s \notin EventSubs)
  BY DEF EngineAssumption, Subs
<1>4. s \in TickSubs => Period[s] > 0
  BY DEF PeriodsPositive
<1>5. QED
  BY <1>1, <1>2, <1>3, <1>4 DEF next_time

\* A subgraph whose clock advances in its turn, within the round, stays in lockstep.
LEMMA LockstepInTurn ==
  ASSUME EngineAssumption, PeriodsPositive, TypeOK, NEW s \in Subs, s \in running, InLockstep(s),
         clock'[s] \in Nat, clock'[s] >= clock[s], clock'[s] <= next_time,
         UNCHANGED <<current_time, phase, fresh, waiting, running>>
  PROVE  InLockstep(s)'
<1> DEFINE slack == IF s \in EventSubs THEN 0 ELSE Period[s] - 1
           x == clock[s]
           y == clock'[s]
<1>1. IF s \in fresh THEN 0 <= x ELSE current_time - slack <= x
  BY DEF InLockstep
<1>2. x \in Nat /\ y \in Nat /\ x <= y /\ current_time \in Nat /\ slack \in Int
  <2>1. slack \in Int
    BY ClockType
  <2>2. QED
    BY <2>1, ClockType
<1> HIDE DEF slack, x, y
<1>3. IF s \in fresh THEN 0 <= y ELSE current_time - slack <= y
  BY <1>1, <1>2
<1>4. y <= next_time /\ next_time' = next_time
  BY DEF y, next_time
<1>5. QED
  BY <1>3, <1>4 DEF InLockstep, slack, y

\* Every step keeps the clocks together.
LEMMA LockstepStep ==
  ASSUME EngineAssumption, PeriodsPositive, TypeOK, Placed, Lockstep, [Step]_vars
  PROVE  Lockstep'
<1> USE DEF network, history, globals, locals
<1>0. Lockstep <=> \A s \in Members : InLockstep(s)
  BY DEF Lockstep, InLockstep
<1>1. SUFFICES ASSUME NEW s \in Members'
               PROVE  InLockstep(s)'
  BY DEF Lockstep, InLockstep
<1>2. ASSUME InitEngine \/ InitParallel
      PROVE  InLockstep(s)'
  <2>1. /\ phase' # "stepping" /\ current_time' = 0 /\ clock' = [q \in Subs |-> 0]
        /\ running' = running /\ phase' = phase /\ fresh' = {} /\ order' = order
    BY <1>2 DEF InitEngine, InitParallel, InitExecutors
  <2>2. running' = {} /\ s \in Subs
    BY <2>1 DEF Placed, Members
  <2>3. QED
    BY <2>1, <2>2, ClockType DEF InLockstep
<1>3. ASSUME NEW q \in LateSubs, AddSubgraph(q)
      PROVE  InLockstep(s)'
  <2>1. /\ UNCHANGED <<phase, current_time, waiting, running>> /\ phase = "idle" /\ q \in Subs
        /\ clock' = [clock EXCEPT ![q] = 0] /\ fresh' = fresh \cup {q}
    BY <1>3 DEF AddSubgraph, EngineAssumption
  <2>2. running = {}
    BY <2>1 DEF Placed
  <2>3. clock \in [Subs -> Nat]
    BY DEF TypeOK
  <2>4. CASE s = q
    <3>1. clock'[s] = 0 /\ s \in fresh'
      BY <2>1, <2>3, <2>4
    <3>2. QED
      BY <2>1, <2>2, <3>1, <2>4, ClockType DEF InLockstep
  <2>5. CASE s # q
    <3>1. s \in Members
      <4>1. Members' = Members \/ Members' = Members \cup {q}
        <5>1. CASE q \in Members
          BY <1>3, <5>1 DEF AddSubgraph, Members
        <5>2. CASE q \notin Members
          <6>1. order' \in SetToSeqs(Members \cup {q})
            BY <1>3, <5>2 DEF AddSubgraph
          <6>2. IsFiniteSet(Members \cup {q})
            BY <2>1, FS_Subset DEF Placed, EngineAssumption
          <6>3. QED
            BY <6>1, <6>2, OrderOfSet DEF Members
        <5>3. QED
          BY <5>1, <5>2
      <4>2. QED
        BY <2>5, <4>1
    <3>2. clock'[s] = clock[s] /\ (s \in fresh' <=> s \in fresh)
      BY <2>1, <2>3, <2>5, <3>1 DEF Placed
    <3>3. QED
      BY <1>0, <2>1, <3>1, <3>2 DEF InLockstep, next_time
  <2>6. QED
    BY <2>4, <2>5
<1>4. ASSUME \/ \E channel \in LateChannels : AddChannel(channel)
             \/ \E msg \in Message : InjectEvent(msg)
             \/ \E max \in 0..MaxTime : StartRun(max)
             \/ ReturnFromRun
      PROVE  InLockstep(s)'
  <2>1. /\ phase # "stepping" /\ phase' # "stepping"
        /\ UNCHANGED <<order, clock, current_time, waiting, running, fresh>>
    BY <1>4 DEF AddChannel, InjectEvent, StartRun, ReturnFromRun
  <2>2. s \in Members
    BY <2>1 DEF Members
  <2>3. QED
    BY <1>0, <2>1, <2>2 DEF InLockstep, next_time
<1>5. CASE BeginStep
  <2>1. /\ phase # "stepping" /\ phase' = "stepping" /\ waiting' = Members
        /\ UNCHANGED <<order, clock, current_time, running, fresh>>
    BY <1>5 DEF BeginStep
  <2>2. s \in Members
    BY <2>1 DEF Members
  <2>3. QED
    BY <1>0, <2>1, <2>2 DEF InLockstep, next_time
<1>6. ASSUME NEW q \in Subs, StartWorker(q)
      PROVE  InLockstep(s)'
  <2>1. /\ phase = "stepping" /\ q \in waiting /\ running' = running \cup {q}
        /\ waiting' = waiting \ {q}
        /\ UNCHANGED <<order, clock, current_time, phase, fresh>>
    BY <1>6 DEF StartWorker
  <2>2. s \in Members /\ s \in Subs
    BY <2>1 DEF Members, Placed
  <2>3. q \notin running
    BY <2>1 DEF Placed
  <2>4. QED
    BY <1>0, <2>1, <2>2, <2>3, ClockType DEF InLockstep, next_time
<1>7. ASSUME NEW q \in EventSubs, NEW e \in EntrySet(Message), NEW answer \in Seq(Event),
             ProcessEvent(q, e, answer)
      PROVE  InLockstep(s)'
  <2>1. /\ q \in running /\ e.event.time <= next_time
        /\ clock' = [clock EXCEPT ![q] = Later(e.event.time, clock[q])]
        /\ UNCHANGED <<order, current_time, phase, fresh, waiting, running>>
    BY <1>7 DEF ProcessEvent
  <2>2. s \in Members /\ s \in Subs
    BY <2>1 DEF Members, Placed
  <2>3. CASE s = q
    <3>1. e.event.time \in Nat
      BY DEF EntrySet, Message
    <3>2. clock'[s] = Later(e.event.time, clock[s])
      BY <2>1, <2>2, <2>3 DEF TypeOK
    <3>3. InLockstep(s)
      BY <1>0, <2>2
    <3>6. clock[s] \in Nat /\ clock[s] <= next_time /\ next_time \in Nat
      <4>1. clock[s] <= next_time
        BY <2>1, <2>3, <3>3 DEF InLockstep
      <4>2. QED
        BY <2>2, <4>1, ClockType, SMTT(30)
    <3>4. clock'[s] >= clock[s] /\ clock'[s] <= next_time /\ clock'[s] \in Nat
      BY <2>1, <3>1, <3>2, <3>6 DEF Later
    <3>5. QED
      BY <2>1, <2>2, <2>3, <3>3, <3>4, LockstepInTurn
  <2>4. CASE s # q
    <3>1. clock'[s] = clock[s]
      BY <2>1, <2>2, <2>4 DEF TypeOK
    <3>2. QED
      BY <1>0, <2>1, <2>2, <3>1 DEF InLockstep, next_time
  <2>5. QED
    BY <2>3, <2>4
<1>8. ASSUME NEW q \in TickSubs, NEW output \in Seq(Event), Tick(q, output)
      PROVE  InLockstep(s)'
  <2>1. /\ q \in running /\ clock[q] + Period[q] <= next_time
        /\ clock' = [clock EXCEPT ![q] = clock[q] + Period[q]]
        /\ UNCHANGED <<order, current_time, phase, fresh, waiting, running>>
    BY <1>8 DEF Tick
  <2>2. s \in Members /\ s \in Subs
    BY <2>1 DEF Members, Placed
  <2>3. CASE s = q
    <3>1. clock'[s] = clock[s] + Period[s]
      BY <2>1, <2>2, <2>3 DEF TypeOK
    <3>2. InLockstep(s)
      BY <1>0, <2>2
    <3>3. clock'[s] \in Nat /\ clock'[s] >= clock[s] /\ clock'[s] <= next_time
      <4>1. clock[s] \in Nat /\ Period[s] \in Nat
        BY <2>2, <2>3, ClockType
      <4>2. QED
        BY <2>1, <2>3, <3>1, <4>1
    <3>4. QED
      BY <2>1, <2>2, <2>3, <3>2, <3>3, LockstepInTurn
  <2>4. CASE s # q
    <3>1. clock'[s] = clock[s]
      BY <2>1, <2>2, <2>4 DEF TypeOK
    <3>2. QED
      BY <1>0, <2>1, <2>2, <3>1 DEF InLockstep, next_time
  <2>5. QED
    BY <2>3, <2>4
<1>9. ASSUME NEW q \in Subs, LeaveSubgraph(q)
      PROVE  InLockstep(s)'
  <2>1. /\ q \in running /\ running' = running \ {q}
        /\ UNCHANGED <<order, current_time, phase, fresh, waiting>>
        /\ \/ q \in EventSubs /\ clock' = [clock EXCEPT ![q] = Later(next_time, clock[q])]
           \/ q \in TickSubs /\ clock[q] + Period[q] > next_time /\ clock' = clock
    BY <1>9 DEF LeaveSubgraph
  <2>2. s \in Members /\ s \in Subs /\ phase = "stepping" /\ q \notin waiting
    BY <2>1 DEF Members, Placed
  <2>3. CASE s = q
    <3>1. InLockstep(s)
      BY <1>0, <2>2
    <3>2. CASE q \in EventSubs
      <4>1. clock'[s] = Later(next_time, clock[s])
        BY <2>1, <2>2, <2>3, <3>2, ClockType DEF TypeOK
      <4>2. clock'[s] = next_time
        BY <2>1, <2>2, <2>3, <3>1, <4>1, ClockType DEF InLockstep, Later
      <4>3. QED
        BY <2>1, <2>2, <2>3, <3>2, <4>2, ClockType, SMTT(30) DEF InLockstep, next_time
    <3>3. CASE q \notin EventSubs
      <4>1. clock[s] + Period[s] > next_time /\ clock' = clock /\ s \in TickSubs
        BY <2>1, <2>3, <3>3
      <4>2. clock[s] <= next_time
        BY <2>1, <2>3, <3>1 DEF InLockstep
      <4>3. /\ clock[s] \in Nat /\ Period[s] \in Nat /\ current_time \in Nat
            /\ TimeStep \in Nat /\ TimeStep > 0 /\ next_time = current_time + TimeStep
        BY <2>2, <4>1, ClockType
      <4>4. next_time - (Period[s] - 1) <= clock[s] /\ next_time # current_time
        BY <4>1, <4>3
      <4>5. next_time' = next_time
        BY <2>1 DEF next_time
      <4>6. QED
        BY <2>1, <2>2, <2>3, <3>3, <4>1, <4>2, <4>4, <4>5 DEF InLockstep
    <3>4. QED
      BY <3>2, <3>3
  <2>4. CASE s # q
    <3>1. clock'[s] = clock[s]
      BY <2>1, <2>2, <2>4 DEF TypeOK
    <3>2. QED
      BY <1>0, <2>1, <2>2, <2>4, <3>1 DEF InLockstep, next_time
  <2>5. QED
    BY <2>3, <2>4
<1>10. CASE EndStep
  <2>1. /\ phase = "stepping" /\ waiting = {} /\ running = {} /\ phase' # "stepping"
        /\ current_time' = next_time /\ fresh' = {} /\ UNCHANGED <<order, clock, waiting, running>>
    BY <1>10 DEF EndStep, AllReturned
  <2>2. s \in Members /\ s \in Subs
    BY <2>1 DEF Members, Placed
  <2>3. QED
    BY <1>0, <2>1, <2>2, ClockType DEF InLockstep
<1>11. CASE UNCHANGED vars
  <2>1. s \in Members
    BY <1>11 DEF Members, vars
  <2>2. QED
    BY <1>0, <1>11, <2>1 DEF vars, InLockstep, next_time
<1>12. QED
  BY <1>2, <1>3, <1>4, <1>5, <1>6, <1>7, <1>8, <1>9, <1>10, <1>11, StepCases

-------------------------------------------------------------------------------
\* Both engines take only the steps of Step.
LEMMA StepOfBoth ==
  /\ [Next]_vars => [Step]_vars
  /\ [ParallelNext]_vars => [Step]_vars
  BY SequentialStep DEF Step

\* The first invariant of both engines: types and places.
LEMMA Foundation == Spec \/ ParallelSpec => [](TypeOK /\ Placed)
<1>1. Init => TypeOK /\ Placed
  BY EngineAssumption, TypeInit
<1>2. TypeOK /\ Placed /\ [Step]_vars => (TypeOK /\ Placed)'
  BY EngineAssumption, WidthAssumption, TypeStep
<1>3. QED
  BY <1>1, <1>2, StepOfBoth, PTL DEF Spec, ParallelSpec

\* Whatever the owner builds, injects and replaces and however the workers are
\* scheduled, the engines' state and that of their executors stay well typed, no two
\* pending events of an executor with the same key among it.
THEOREM TypeCorrect == Spec \/ ParallelSpec => []TypeOK
<1>1. Spec \/ ParallelSpec => [](TypeOK /\ Placed)
  BY Foundation
<1>2. QED
  BY <1>1, PTL

\* In both engines the local clocks stay together, whatever the iteration order or the
\* schedule (engine.rs:284-289), for every time step and all positive tick periods.
THEOREM ClocksStayTogether ==
  ASSUME PeriodsPositive
  PROVE  Spec \/ ParallelSpec => []Lockstep
<1>1. Init => Lockstep
  <2> SUFFICES ASSUME Init, NEW s \in Members  PROVE InLockstep(s)
    BY DEF Lockstep, InLockstep
  <2>1. TypeOK /\ Placed
    BY EngineAssumption, TypeInit
  <2>2. s \in Subs
    BY <2>1 DEF Placed
  <2>3. clock[s] = 0 /\ current_time = 0 /\ phase = "idle" /\ running = {} /\ fresh = {}
    BY <2>2 DEF Init
  <2>4. QED
    BY EngineAssumption, PeriodsPositive, <2>1, <2>2, <2>3, ClockType DEF InLockstep
<1>2. TypeOK /\ Placed /\ Lockstep /\ [Step]_vars => Lockstep'
  BY EngineAssumption, PeriodsPositive, LockstepStep
<1>3. QED
  BY <1>1, <1>2, Foundation, StepOfBoth, PTL DEF Spec, ParallelSpec

\* The invariant behind the next theorem.
LEMMA HandledAlways == Spec \/ ParallelSpec => []Handled
<1>1. Init => Handled
  BY DEF Init, Handled, NothingOverdue, EmptyQueue
<1>2. TypeOK /\ Placed /\ Handled /\ [Step]_vars => Handled'
  BY EngineAssumption, HandledStep
<1>3. QED
  BY <1>1, <1>2, Foundation, StepOfBoth, PTL DEF Spec, ParallelSpec

\* Between two rounds of either engine no event-driven subgraph holds an event that was
\* due in a past one, late injections and late subgraphs included.
THEOREM NothingLeftBehind == Spec \/ ParallelSpec => []NothingOverdue
<1>1. Handled => NothingOverdue
  BY DEF Handled
<1>2. QED
  BY <1>1, HandledAlways, PTL

\* The invariant behind the next theorem.
LEMMA BoundedAlways == Spec \/ ParallelSpec => []Bounded
<1>1. Init => Bounded
  BY EngineAssumption DEF Init, Bounded, EngineAssumption
<1>2. TypeOK /\ Bounded /\ [Step]_vars => Bounded'
  BY EngineAssumption, BoundedStep
<1>3. QED
  BY <1>1, <1>2, Foundation, StepOfBoth, PTL DEF Spec, ParallelSpec

\* run of either engine stops at the first round boundary at or past its target
\* (engine.rs:292).
THEOREM RunStopsAtGoal == Spec \/ ParallelSpec => RunReachesGoal
<1>1. TypeOK /\ Bounded /\ [Step]_vars =>
        [/\ phase = "looping" /\ phase' = "idle" => current_time >= goal
         /\ current_time' > current_time => current_time' < goal + TimeStep]_vars
  BY EngineAssumption, GoalStep
<1>2. QED
  BY <1>1, Foundation, BoundedAlways, StepOfBoth, PTL DEF Spec, ParallelSpec, RunReachesGoal

-------------------------------------------------------------------------------
\* channel_map has an entry for every pair with a channel, the last one added.
Indexed ==
  /\ DOMAIN channel_map = {<<channels[i].src, channels[i].dst>> : i \in DOMAIN channels}
  /\ \A i \in DOMAIN channels : i <= channel_map[<<channels[i].src, channels[i].dst>>]

\* It has one at first.
LEMMA IndexedInit ==
  ASSUME EngineAssumption, Init
  PROVE  Indexed
<1> DEFINE pairs == {<<Channels[i].src, Channels[i].dst>> : i \in DOMAIN Channels}
           index == [link \in pairs |->
                      CHOOSE i \in DOMAIN Channels : link = <<Channels[i].src, Channels[i].dst>>]
<1>1. channels = Channels /\ channel_map = index
  BY DEF Init
<1>2. \A link \in pairs : /\ index[link] \in DOMAIN Channels
                          /\ link = <<Channels[index[link]].src, Channels[index[link]].dst>>
  OBVIOUS
<1>3. DOMAIN channel_map = pairs
  BY <1>1
<1> HIDE DEF index
<1>4. ASSUME NEW i \in DOMAIN channels
      PROVE  i <= channel_map[<<channels[i].src, channels[i].dst>>]
  <2> DEFINE link == <<channels[i].src, channels[i].dst>>
  <2>1. link \in pairs
    BY <1>1
  <2>2. /\ index[link] \in DOMAIN Channels
        /\ link = <<Channels[index[link]].src, Channels[index[link]].dst>>
    BY <1>2, <2>1
  <2>3. index[link] = i
    BY <1>1, <2>2 DEF EngineAssumption
  <2>4. i \in Nat
    <3>1. Channels \in Seq(Link)
      BY DEF EngineAssumption
    <3>2. QED
      BY <1>1, <3>1
  <2>5. QED
    BY <1>1, <2>3, <2>4
<1>5. QED
  BY <1>1, <1>3, <1>4 DEF Indexed

\* Every step keeps the index.
LEMMA IndexedStep ==
  ASSUME EngineAssumption, TypeOK, Indexed, [Step]_vars
  PROVE  Indexed'
<1> USE DEF network
<1>1. ASSUME NEW channel \in LateChannels, AddChannel(channel)
      PROVE  Indexed'
  <2> DEFINE n == Len(channels) + 1
             pair == <<channel.src, channel.dst>>
  <2>1. channels \in Seq(Link) /\ channels' = Append(channels, channel) /\ channel \in Link
    BY <1>1 DEF AddChannel, TypeOK, EngineAssumption
  <2>2. /\ Len(channels) \in Nat /\ Len(channels') = n
        /\ DOMAIN channels' = 1..n /\ DOMAIN channels = 1..Len(channels)
        /\ channels'[n] = channel /\ \A i \in DOMAIN channels : channels'[i] = channels[i]
    BY <2>1
  <2>3. channel_map' = [link \in DOMAIN channel_map \cup {pair} |->
                          IF link = pair THEN n ELSE channel_map[link]]
    BY <1>1, <2>2 DEF AddChannel
  <2>4. DOMAIN channel_map' = {<<channels'[i].src, channels'[i].dst>> : i \in DOMAIN channels'}
    <3>1. DOMAIN channel_map' = DOMAIN channel_map \cup {pair}
      BY <2>3
    <3>2. n \in DOMAIN channels' /\ DOMAIN channels' = DOMAIN channels \cup {n}
      BY <2>2
    <3>3. pair = <<channels'[n].src, channels'[n].dst>>
      BY <2>2
    <3> DEFINE ends(c, i) == <<c[i].src, c[i].dst>>
    <3>4. \A i \in DOMAIN channels : ends(channels', i) = ends(channels, i)
      BY <2>2
    <3>5. DOMAIN channel_map = {ends(channels, i) : i \in DOMAIN channels}
      BY DEF Indexed
    <3>6. pair = ends(channels', n)
      BY <3>3
    <3> HIDE DEF n, pair, ends
    <3>7. DOMAIN channel_map' = {ends(channels', i) : i \in DOMAIN channels'}
      BY <3>1, <3>2, <3>4, <3>5, <3>6
    <3>8. QED
      BY <3>7 DEF ends
  <2>5. ASSUME NEW i \in DOMAIN channels'
        PROVE  i <= channel_map'[<<channels'[i].src, channels'[i].dst>>]
    <3> DEFINE link == <<channels'[i].src, channels'[i].dst>>
    <3>1. link \in DOMAIN channel_map'
      BY <2>4
    <3>2. CASE link = pair
      <4>1. channel_map'[link] = n
        BY <2>3, <3>1, <3>2
      <4>2. QED
        BY <2>2, <4>1
    <3>3. CASE link # pair
      <4>1. i # n
        BY <2>2, <3>3
      <4>2. i \in DOMAIN channels
        BY <2>2, <4>1
      <4>3. channels'[i] = channels[i]
        BY <2>2, <4>2
      <4>4. i <= channel_map[link]
        BY <4>2, <4>3 DEF Indexed
      <4>5. channel_map'[link] = channel_map[link]
        BY <2>3, <3>1, <3>3
      <4>6. QED
        BY <4>4, <4>5
    <3>4. QED
      BY <3>2, <3>3
  <2>6. QED
    BY <2>4, <2>5 DEF Indexed
<1>2. ASSUME \/ InitEngine
             \/ InitParallel
             \/ \E s \in LateSubs : AddSubgraph(s)
             \/ \E msg \in Message : InjectEvent(msg)
             \/ \E max \in 0..MaxTime : StartRun(max)
             \/ BeginStep
             \/ \E s \in Subs : StartWorker(s)
             \/ \E s \in EventSubs, e \in EntrySet(Message), answer \in Seq(Event) :
                  ProcessEvent(s, e, answer)
             \/ \E s \in TickSubs, output \in Seq(Event) : Tick(s, output)
             \/ \E s \in Subs : LeaveSubgraph(s)
             \/ EndStep
             \/ ReturnFromRun
             \/ UNCHANGED vars
      PROVE  Indexed'
  <2>1. UNCHANGED <<channels, channel_map>>
    BY <1>2 DEF vars, InitEngine, InitParallel, AddSubgraph, InjectEvent, StartRun, BeginStep,
                StartWorker, ProcessEvent, Tick, LeaveSubgraph, EndStep, ReturnFromRun
  <2>2. QED
    BY <2>1 DEF Indexed
<1>3. QED
  BY <1>1, <1>2, StepCases

\* Where the mail of a node goes.
Route == [n \in Nodes |-> FindSubgraph(n)]

\* What a round sees of the executors.
Local == [s \in Subs |->
  [clock |-> clock[s], store |-> IF s \in EventSubs THEN inbox[s] ELSE buffered[s]]]

\* What leaves a subgraph arrives when the last channel added says.
LEMMA ArrivesAsDelivered ==
  ASSUME EngineAssumption, TypeOK, Indexed, NEW ev \in Event
  PROVE  Deliver(ev) = [time |-> Round!Arrival(ev), dst |-> ev.dst]
<1> DEFINE src == FindSubgraph(ev.src)
           dst == FindSubgraph(ev.dst)
           found == {i \in DOMAIN channels : channels[i].src = src /\ channels[i].dst = dst}
           last == channel_map[<<src, dst>>]
<1>1. CASE ev.dst = Custom
  BY <1>1 DEF Deliver, Round!Arrival
<1>2. CASE ev.dst # Custom
  <2>1. ev.src \in Nodes /\ ev.dst \in Nodes
    BY <1>2 DEF Event
  <2>2. Route[ev.src] = src /\ Route[ev.dst] = dst
    BY <2>1 DEF Route
  <2>3. Round!Arrival(ev) = IF found = {} THEN ev.time
                            ELSE Carried(channels[Max(found)], ev.time, dst)
    <3> DEFINE routed == {i \in DOMAIN channels :
                            channels[i].src = Route[ev.src] /\ channels[i].dst = Route[ev.dst]}
    <3>1. routed = found
      BY <2>2
    <3>2. Round!Max(routed) = Max(routed)
      BY DEF Round!Max, Max
    <3>3. Round!Arrival(ev) = IF ev.dst = Custom \/ routed = {} THEN ev.time
                              ELSE Carried(channels[Round!Max(routed)], ev.time, Route[ev.dst])
      BY DEF Round!Arrival, Route
    <3> HIDE DEF routed, found, dst
    <3>4. QED
      BY <1>2, <2>2, <3>1, <3>2, <3>3
  <2>4. <<src, dst>> \in DOMAIN channel_map <=> found # {}
    BY DEF Indexed
  <2>5. ASSUME found # {}
        PROVE  Max(found) = last
    <3>1. last \in found
      BY <2>4, <2>5 DEF TypeOK
    <3>2. found \subseteq Nat
      <4>1. channels \in Seq(Link)
        BY DEF TypeOK
      <4>2. QED
        BY <4>1
    <3>3. \A i \in found : last >= i
      BY <3>1, <3>2 DEF Indexed
    <3> HIDE DEF found, last
    <3>4. \A x \in found : (\A y \in found : x >= y) => x = last
      BY <3>1, <3>2, <3>3
    <3>5. QED
      BY <3>1, <3>3, <3>4 DEF Max
  <2>6. Deliver(ev) = [time |-> IF <<src, dst>> \in DOMAIN channel_map
                                THEN Carried(channels[last], ev.time, dst) ELSE ev.time,
                       dst  |-> ev.dst]
    BY <1>2 DEF Deliver
  <2> HIDE DEF src, dst, found, last
  <2>7. QED
    BY <2>3, <2>4, <2>5, <2>6
<1>3. QED
  BY <1>1, <1>2

\* The engines start where rounds start.
LEMMA RoundsInit == ASSUME EngineAssumption, Init  PROVE Round!Init
<1>1. Members \subseteq Subs
  BY TypeInit DEF Placed
<1>2. Local = [s \in Subs |-> InitialState(s)]
  <2>1. \A s \in Subs : clock[s] = 0 /\ (s \in EventSubs => inbox[s] = EmptyQueue)
                        /\ (s \notin EventSubs => buffered[s] = 0)
    BY DEF Init, Subs
  <2>2. QED
    BY <2>1 DEF Local, InitialState
<1>3. QED
  BY <1>1, <1>2 DEF Init, Round!Init, Local

\* A step of a turn changes the state of that subgraph only.
LEMMA LocalExcept ==
  ASSUME EngineAssumption, TypeOK, NEW s \in Subs,
         \A q \in Subs \ {s} : clock'[q] = clock[q],
         \A q \in EventSubs \ {s} : inbox'[q] = inbox[q],
         \A q \in TickSubs \ {s} : buffered'[q] = buffered[q]
  PROVE  Local' = [Local EXCEPT ![s] = Local'[s]]
<1>1. /\ Local' = [q \in Subs |-> Local'[q]] /\ DOMAIN Local = Subs
      /\ \A q \in Subs \ {s} : Local'[q] = Local[q]
  BY DEF Local, Subs
<1>2. [Local EXCEPT ![s] = Local'[s]] = [q \in Subs |-> IF q = s THEN Local'[s] ELSE Local[q]]
  BY <1>1
<1>3. QED
  BY <1>1, <1>2

\* Appending to an outbox keeps what is in it.
LEMMA PrefixOfConcat ==
  ASSUME NEW S, NEW a \in Seq(S), NEW b \in Seq(S)
  PROVE  IsPrefix(a, a \o b)
<1>1. Len(a) \in Nat /\ Len(a) <= Len(a \o b)
  OBVIOUS
<1>2. SubSeq(a, 1, Len(a)) = SubSeq(a \o b, 1, Len(a))
  OBVIOUS
<1>3. QED
  BY <1>1, <1>2 DEF IsPrefix

\* Adding or replacing a subgraph is a member joining.
LEMMA AddIsJoin ==
  ASSUME EngineAssumption, TypeOK, Placed, NEW s \in LateSubs, AddSubgraph(s)
  PROVE  Round!Join(s)
<1>1. s \in Subs
  BY DEF EngineAssumption
<1>2. Members' = Members \cup {s} /\ (s \in Members => order' = order)
  <2>1. CASE s \in Members
    BY <2>1 DEF AddSubgraph, Members
  <2>2. CASE s \notin Members
    <3>1. order' \in SetToSeqs(Members \cup {s})
      BY <2>2 DEF AddSubgraph
    <3>2. IsFiniteSet(Members \cup {s})
      BY <1>1, FS_Subset DEF Placed, EngineAssumption
    <3>3. QED
      BY <2>2, <3>1, <3>2, OrderOfSet DEF Members
  <2>3. QED
    BY <2>1, <2>2
<1>3. s \in Members => Route' = Route
  BY <1>2 DEF Route, FindSubgraph, Members
<1>4. Local' = [Local EXCEPT ![s] = InitialState(s)]
  <2>1. Local' = [Local EXCEPT ![s] = Local'[s]]
    BY <1>1, LocalExcept DEF AddSubgraph, TypeOK
  <2>2. Local'[s] = InitialState(s)
    BY <1>1 DEF AddSubgraph, Local, InitialState, TypeOK, Subs
  <2>3. QED
    BY <2>1, <2>2
<1>5. /\ phase = "idle"
      /\ UNCHANGED <<current_time, phase, waiting, running, outgoing, pending_events, channels>>
  BY DEF AddSubgraph, globals
<1>6. QED
  BY <1>2, <1>3, <1>4, <1>5 DEF Round!Join, Route, Local

\* One more at the end leaves the rest in front of it.
LEMMA PrefixOfAppend ==
  ASSUME NEW S, NEW a \in Seq(S), NEW x \in S
  PROVE  Len(Append(a, x)) = Len(a) + 1 /\ Round!IsPrefix(a, Append(a, x))
<1>1. Len(a) \in Nat /\ Len(Append(a, x)) = Len(a) + 1
  OBVIOUS
<1>2. SubSeq(a, 1, Len(a)) = SubSeq(Append(a, x), 1, Len(a))
  OBVIOUS
<1>3. QED
  BY <1>1, <1>2 DEF Round!IsPrefix

\* Adding a channel connects.
LEMMA AddIsConnect ==
  ASSUME EngineAssumption, TypeOK, NEW channel \in LateChannels, AddChannel(channel)
  PROVE  Round!Connect
<1>1. channels \in Seq(Link) /\ channel \in Link /\ channels' = Append(channels, channel)
  BY DEF TypeOK, EngineAssumption, AddChannel
<1>2. Len(channels') = Len(channels) + 1 /\ Round!IsPrefix(channels, channels')
  BY <1>1, PrefixOfAppend
<1>3. /\ phase = "idle"
      /\ UNCHANGED <<current_time, phase, waiting, running, outgoing, pending_events, order,
                     clock, inbox, buffered>>
  BY DEF AddChannel, globals, locals
<1>4. Members' = Members /\ Local' = Local /\ Route' = Route
  BY <1>3 DEF Members, Local, Route, FindSubgraph
<1>5. QED
  BY <1>2, <1>3, <1>4 DEF Round!Connect, Local, Route

\* Injecting an event posts mail.
LEMMA InjectIsPost ==
  ASSUME TypeOK, NEW msg \in Message, InjectEvent(msg)
  PROVE  Round!Post
<1>1. pending_events \in Seq(Message) /\ pending_events' = Append(pending_events, msg)
  BY DEF TypeOK, InjectEvent
<1>2. /\ Len(pending_events') = Len(pending_events) + 1
      /\ Round!IsPrefix(pending_events, pending_events')
  BY <1>1, PrefixOfAppend
<1>3. /\ phase = "idle"
      /\ UNCHANGED <<current_time, phase, waiting, running, outgoing, channels, order,
                     clock, inbox, buffered>>
  BY DEF InjectEvent, network, locals
<1>4. Members' = Members /\ Local' = Local /\ Route' = Route
  BY <1>3 DEF Members, Local, Route, FindSubgraph
<1>5. QED
  BY <1>2, <1>3, <1>4 DEF Round!Post, Round!network, Local, Route

\* Both inits reset the rounds.
LEMMA InitIsReset ==
  ASSUME EngineAssumption, TypeOK, Placed, InitEngine \/ InitParallel
  PROVE  Round!Reset
<1>1. /\ phase = "idle" /\ current_time' = 0
      /\ pending_events' = <<>> \/ pending_events' = pending_events
      /\ clock' = [s \in Subs |-> 0]
      /\ inbox' = [s \in EventSubs |-> EmptyQueue]
      /\ buffered' = [s \in TickSubs |-> 0]
      /\ UNCHANGED <<phase, waiting, running, outgoing, channels, order>>
  BY DEF InitEngine, InitParallel, InitExecutors, network
<1>2. Members' = Members /\ Route' = Route
  BY <1>1 DEF Members, Route, FindSubgraph
<1>3. \A s \in Subs : Local'[s] = InitialState(s)
  BY <1>1 DEF Local, InitialState, Subs
<1>4. \A s \in Subs \ Members : Local[s] = InitialState(s)
  BY DEF Placed, Local, InitialState
<1>5. Local' = [s \in Subs |-> IF s \in Members THEN InitialState(s) ELSE Local[s]]
  <2>1. Local' = [s \in Subs |-> Local'[s]]
    BY DEF Local
  <2>2. QED
    BY <1>3, <1>4, <2>1
<1>6. QED
  BY <1>1, <1>2, <1>5 DEF Round!Reset, Round!network, Local, Route

\* dispatch_to_subgraphs opens a round.
LEMMA BeginIsOpen ==
  ASSUME EngineAssumption, TypeOK, Placed, BeginStep
  PROVE  Round!Open
<1>1. /\ phase = "looping" /\ phase' = "stepping" /\ waiting' = Members
      /\ inbox' = [s \in EventSubs |-> PushAll(inbox[s], For(s))]
      /\ buffered' = [s \in TickSubs |-> buffered[s] + Len(For(s))]
      /\ pending_events' = <<>>
      /\ UNCHANGED <<current_time, running, outgoing, clock, channels, order>>
  BY DEF BeginStep, network
<1>2. Members' = Members /\ Route' = Route
  BY <1>1 DEF Members, Route, FindSubgraph
<1>3. ASSUME NEW s \in Subs
      PROVE  Round!For(s) = For(s)
  <2> DEFINE I == {i \in DOMAIN pending_events :
                     pending_events[i].dst # Custom /\ FindSubgraph(pending_events[i].dst) = s}
             J == {i \in DOMAIN pending_events :
                     pending_events[i].dst # Custom /\ Route[pending_events[i].dst] = s}
  <2>1. I = J
    <3>1. \A i \in DOMAIN pending_events : pending_events[i] \in Message
      <4>1. pending_events \in Seq(Message)
        BY DEF TypeOK
      <4>2. QED
        BY <4>1
    <3>2. \A m \in Message : m.dst # Custom => m.dst \in Nodes
      BY DEF Message
    <3>3. QED
      BY <3>1, <3>2 DEF Route
  <2>2. Round!For(s) = Round!Kept(pending_events, J)
    BY DEF Round!For, Route
  <2>3. For(s) = Kept(pending_events, I)
    BY DEF For
  <2> HIDE DEF I, J
  <2>4. Round!Kept(pending_events, J) = Kept(pending_events, J)
    BY DEF Round!Kept, Kept
  <2>5. QED
    BY <2>1, <2>2, <2>3, <2>4
<1>4. ASSUME NEW s \in Subs
      PROVE  Local'[s] = WithMessages(s, Local[s], Round!For(s))
  <2> DEFINE f == For(s)
  <2>1. Round!For(s) = f
    BY <1>3
  <2>2. /\ s \in EventSubs => inbox'[s] = PushAll(inbox[s], f)
        /\ s \notin EventSubs => buffered'[s] = buffered[s] + Len(f)
    BY <1>1 DEF Subs
  <2> HIDE DEF f
  <2>3. QED
    BY <1>1, <2>1, <2>2 DEF Local, WithMessages
<1>5. Local' = [s \in Subs |-> WithMessages(s, Local[s], Round!For(s))]
  <2>1. Local' = [s \in Subs |-> Local'[s]]
    BY DEF Local
  <2>2. QED
    BY <1>4, <2>1
<1>6. QED
  BY <1>1, <1>2, <1>5 DEF Round!Open, Round!network, Local, Route

\* A worker that starts begins a turn.
LEMMA StartIsBegin ==
  ASSUME NEW s \in Subs, StartWorker(s)
  PROVE  Round!Begin(s)
<1>1. /\ s \in waiting /\ running' = running \cup {s} /\ waiting' = waiting \ {s}
      /\ UNCHANGED <<current_time, phase, outgoing, pending_events, channels, order,
                     clock, inbox, buffered>>
  BY DEF StartWorker, network, locals, globals
<1>2. Members' = Members /\ Local' = Local /\ Route' = Route
  BY <1>1 DEF Members, Local, Route, FindSubgraph
<1>3. QED
  BY <1>1, <1>2 DEF Round!Begin, Round!network, Local, Route

\* An iteration of a run_until, or its return, is a part of that subgraph's turn.
LEMMA ProcessIsAdvance ==
  ASSUME EngineAssumption, TypeOK, NEW s \in EventSubs, NEW e \in EntrySet(Message),
         NEW answer \in Seq(Event), ProcessEvent(s, e, answer)
  PROVE  Round!Advance(s)
<1> DEFINE mine == {i \in DOMAIN answer : answer[i].dst \in Nodes /\ Home[answer[i].dst] = s}
           there == Kept(answer, DOMAIN answer \ mine)
<1>1. /\ s \in running
      /\ clock' = [clock EXCEPT ![s] = Later(e.event.time, clock[s])]
      /\ inbox' = [inbox EXCEPT ![s] = PushAll(Without(inbox[s], {e}), Messages(Kept(answer, mine)))]
      /\ outgoing' = [outgoing EXCEPT ![s] = outgoing[s] \o there]
      /\ UNCHANGED <<current_time, phase, waiting, running, pending_events, channels, order,
                     buffered>>
  BY DEF ProcessEvent, network, globals
<1>2. there \in Seq(Event)
  <2>1. Len(answer) \in Nat /\ \A i \in 1..Len(answer) : answer[i] \in Event
    OBVIOUS
  <2> HIDE DEF mine
  <2>2. QED
    BY <2>1, KeptType
<1> HIDE DEF there, mine
<1>3. s \in Subs
  BY DEF Subs
<1>4. Local' = [Local EXCEPT ![s] = Local'[s]]
  BY <1>1, <1>3, LocalExcept DEF TypeOK
<1>5. outgoing' = [outgoing EXCEPT ![s] = outgoing'[s]] /\ Round!IsPrefix(outgoing[s], outgoing'[s])
  <2>1. outgoing'[s] = outgoing[s] \o there /\ outgoing[s] \in Seq(Event)
    BY <1>1, <1>3 DEF TypeOK
  <2>2. IsPrefix(outgoing[s], outgoing[s] \o there)
    BY <1>2, <2>1, PrefixOfConcat
  <2>3. QED
    BY <1>1, <2>1, <2>2 DEF IsPrefix, Round!IsPrefix
<1>6. Members' = Members /\ Route' = Route
  BY <1>1 DEF Members, Route, FindSubgraph
<1>7. QED
  BY <1>1, <1>4, <1>5, <1>6 DEF Round!Advance, Round!network, Local, Route

\* So is a tick.
LEMMA TickIsAdvance ==
  ASSUME EngineAssumption, TypeOK, NEW s \in TickSubs, NEW output \in Seq(Event), Tick(s, output)
  PROVE  Round!Advance(s)
<1>1. /\ s \in running
      /\ clock' = [clock EXCEPT ![s] = clock[s] + Period[s]]
      /\ outgoing' = [outgoing EXCEPT ![s] = outgoing[s] \o output]
      /\ UNCHANGED <<current_time, phase, waiting, running, pending_events, channels, order,
                     inbox, buffered>>
  BY DEF Tick, network, globals
<1>3. s \in Subs
  BY DEF Subs
<1>4. Local' = [Local EXCEPT ![s] = Local'[s]]
  BY <1>1, <1>3, LocalExcept DEF TypeOK
<1>5. outgoing' = [outgoing EXCEPT ![s] = outgoing'[s]] /\ Round!IsPrefix(outgoing[s], outgoing'[s])
  <2>1. outgoing'[s] = outgoing[s] \o output /\ outgoing[s] \in Seq(Event)
    BY <1>1, <1>3 DEF TypeOK
  <2>2. IsPrefix(outgoing[s], outgoing[s] \o output)
    BY <2>1, PrefixOfConcat
  <2>3. QED
    BY <1>1, <2>1, <2>2 DEF IsPrefix, Round!IsPrefix
<1>6. Members' = Members /\ Route' = Route
  BY <1>1 DEF Members, Route, FindSubgraph
<1>7. QED
  BY <1>1, <1>4, <1>5, <1>6 DEF Round!Advance, Round!network, Local, Route

\* run_until returns when the subgraph has nothing more to do in the round.
LEMMA LeaveIsFinish ==
  ASSUME EngineAssumption, TypeOK, NEW s \in Subs, LeaveSubgraph(s)
  PROVE  Round!Finish(s)
<1>1. /\ s \in running /\ running' = running \ {s}
      /\ \/ /\ s \in EventSubs /\ DueBy(inbox[s], next_time) = {}
            /\ clock' = [clock EXCEPT ![s] = Later(next_time, clock[s])]
         \/ s \in TickSubs /\ clock[s] + Period[s] > next_time /\ clock' = clock
      /\ UNCHANGED <<current_time, phase, waiting, outgoing, pending_events, channels, order,
                     inbox, buffered>>
  BY DEF LeaveSubgraph, network, globals
<1>2. clock \in [Subs -> Nat]
  BY DEF TypeOK
<1>3. Local' = [Local EXCEPT ![s] = Local'[s]]
  <2>1. \A q \in Subs \ {s} : clock'[q] = clock[q]
    BY <1>1, <1>2
  <2>2. QED
    BY <1>1, <2>1, LocalExcept
<1>4. UpTo(s, Local'[s], current_time + TimeStep)
  <2>1. Local'[s] = [clock |-> clock'[s], store |-> IF s \in EventSubs THEN inbox[s] ELSE buffered[s]]
    BY <1>1 DEF Local
  <2>2. current_time \in Nat /\ TimeStep \in Nat /\ next_time = current_time + TimeStep
    BY DEF TypeOK, EngineAssumption, next_time
  <2>3. CASE s \in EventSubs
    <3>1. DueBy(inbox[s], next_time) = {} /\ clock'[s] = Later(next_time, clock[s])
      BY <1>1, <1>2, <2>3 DEF EngineAssumption
    <3>2. clock'[s] >= next_time
      BY <1>2, <2>2, <3>1 DEF Later
    <3>3. QED
      BY <2>1, <2>2, <2>3, <3>1, <3>2 DEF UpTo
  <2>4. CASE s \notin EventSubs
    BY <1>1, <2>1, <2>2, <2>4 DEF UpTo
  <2>5. QED
    BY <2>3, <2>4
<1>5. Members' = Members /\ Route' = Route
  BY <1>1 DEF Members, Route, FindSubgraph
<1>6. QED
  BY <1>1, <1>3, <1>4, <1>5 DEF Round!Finish, Round!network, Local, Route

\* process_outgoing closes the round.
LEMMA EndIsClose ==
  ASSUME EngineAssumption, TypeOK, Placed, Indexed, EndStep
  PROVE  Round!Close
<1>1. /\ phase = "stepping" /\ phase' = "looping" /\ waiting = {} /\ running = {}
      /\ pending_events' = [i \in DOMAIN Collected |-> Deliver(Collected[i])]
      /\ outgoing' = [s \in Subs |-> <<>>]
      /\ current_time' = current_time + TimeStep
      /\ UNCHANGED <<waiting, running, channels, order, clock, inbox, buffered>>
  BY DEF EndStep, AllReturned, next_time, network, locals
<1>2. Members' = Members /\ Local' = Local /\ Route' = Route
  BY <1>1 DEF Members, Local, Route, FindSubgraph
<1>3. Round!Merged(order) = Collected
  BY DEF Round!Merged, Collected, Round!FlattenSeq, FlattenSeq
<1>4. order \in Round!SetToSeqs(Members)
  <2>1. order \in SetToSeqs(Members)
    BY DEF Placed
  <2>2. Round!SetToSeqs(Members) = SetToSeqs(Members)
    <3>1. Round!Cardinality(Members) = Cardinality(Members)
      BY Zenon DEF Cardinality, Round!Cardinality
    <3>2. QED
      BY ONLY <3>1 DEF SetToSeqs, Round!SetToSeqs
  <2>3. QED
    BY <2>1, <2>2
<1>5. pending_events' = [i \in DOMAIN Collected |->
                          [time |-> Round!Arrival(Collected[i]), dst |-> Collected[i].dst]]
  <2>1. Collected \in Seq(Event)
    BY CollectedType
  <2>2. \A i \in DOMAIN Collected :
          Deliver(Collected[i]) = [time |-> Round!Arrival(Collected[i]), dst |-> Collected[i].dst]
    BY <2>1, ArrivesAsDelivered
  <2>3. QED
    BY <1>1, <2>2
<1>6. \E turns \in Round!SetToSeqs(Members) :
        pending_events' = [i \in DOMAIN Round!Merged(turns) |->
          [time |-> Round!Arrival(Round!Merged(turns)[i]), dst |-> Round!Merged(turns)[i].dst]]
  BY <1>3, <1>4, <1>5
<1>7. QED
  BY <1>1, <1>2, <1>6 DEF Round!Close, Round!network, Local, Route

\* Each step of an engine is one of a round, or not seen from outside.
LEMMA RoundsStep ==
  ASSUME EngineAssumption, TypeOK, Placed, Indexed, [Step]_vars
  PROVE  [Round!Next]_(Round!vars)
<1>1. ASSUME \/ \E max \in 0..MaxTime : StartRun(max)
             \/ ReturnFromRun
             \/ UNCHANGED vars
      PROVE  UNCHANGED Round!vars
  <2>1. /\ phase' = "stepping" <=> phase = "stepping"
        /\ UNCHANGED <<current_time, waiting, running, outgoing, pending_events, channels, order,
                       clock, inbox, buffered>>
    BY <1>1 DEF StartRun, ReturnFromRun, vars, network, globals, locals
  <2>2. Members' = Members /\ Local' = Local /\ Route' = Route
    BY <2>1 DEF Members, Local, Route, FindSubgraph
  <2>3. QED
    BY <2>1, <2>2 DEF Round!vars, Round!network, Local, Route
<1>2. ASSUME InitEngine \/ InitParallel
      PROVE  Round!Next
  BY <1>2, InitIsReset DEF Round!Next
<1>3. ASSUME NEW s \in LateSubs, AddSubgraph(s)
      PROVE  Round!Next
  <2>1. s \in Subs
    BY DEF EngineAssumption
  <2>2. Round!Join(s)
    BY <1>3, AddIsJoin
  <2>3. QED
    BY <2>1, <2>2 DEF Round!Next
<1>4. ASSUME NEW channel \in LateChannels, AddChannel(channel)
      PROVE  Round!Next
  BY <1>4, AddIsConnect DEF Round!Next
<1>5. ASSUME NEW msg \in Message, InjectEvent(msg)
      PROVE  Round!Next
  BY <1>5, InjectIsPost DEF Round!Next
<1>6. CASE BeginStep
  BY <1>6, BeginIsOpen DEF Round!Next
<1>7. ASSUME NEW s \in Subs, StartWorker(s)
      PROVE  Round!Next
  BY <1>7, StartIsBegin DEF Round!Next
<1>8. ASSUME NEW s \in EventSubs, NEW e \in EntrySet(Message), NEW answer \in Seq(Event),
             ProcessEvent(s, e, answer)
      PROVE  Round!Next
  <2>1. s \in Subs
    BY DEF Subs
  <2>2. Round!Advance(s)
    BY <1>8, ProcessIsAdvance
  <2>3. QED
    BY <2>1, <2>2 DEF Round!Next
<1>9. ASSUME NEW s \in TickSubs, NEW output \in Seq(Event), Tick(s, output)
      PROVE  Round!Next
  <2>1. s \in Subs
    BY DEF Subs
  <2>2. Round!Advance(s)
    BY <1>9, TickIsAdvance
  <2>3. QED
    BY <2>1, <2>2 DEF Round!Next
<1>10. ASSUME NEW s \in Subs, LeaveSubgraph(s)
       PROVE  Round!Next
  BY <1>10, LeaveIsFinish DEF Round!Next
<1>11. CASE EndStep
  BY <1>11, EndIsClose DEF Round!Next
<1>12. QED
  BY <1>1, <1>2, <1>3, <1>4, <1>5, <1>6, <1>7, <1>8, <1>9, <1>10, <1>11, StepCases

\* Both engines play rounds: whatever the iteration order or the schedule of the
\* workers, each subgraph gets exactly its mail, once and in order, advances on its
\* own, and its events travel over the channel added last, in the order in which it
\* sent them (engine.rs:284-320, parallel.rs:92-95, 341-366).
THEOREM EnginesPlayRounds == Spec \/ ParallelSpec => ImplementsRounds
<1>1. Init => Round!Init
  BY EngineAssumption, RoundsInit
<1>2. Init => Indexed
  BY EngineAssumption, IndexedInit
<1>3. TypeOK /\ Indexed /\ [Step]_vars => Indexed'
  BY EngineAssumption, IndexedStep
<1>4. TypeOK /\ Placed /\ Indexed /\ [Step]_vars => [Round!Next]_(Round!vars)
  BY EngineAssumption, RoundsStep
<1>5. QED
  BY <1>1, <1>2, <1>3, <1>4, Foundation, StepOfBoth, PTL
     DEF Spec, ParallelSpec, ImplementsRounds, Round!Spec

-------------------------------------------------------------------------------
\* A channel to an event-driven subgraph is not faster than a round, and no sum of
\* times on it wraps while runs end by MaxTime.  Its alignment does not matter.
Slow(channel) ==
  channel.dst \in EventSubs =>
    /\ channel.latency >= TimeStep
    /\ \A d \in Delays \cup {0} : MaxTime + TimeStep + d + channel.latency <= Width

\* The convention of the routing heuristic (engine.rs:221-222).
IdsByPrefix == \A n \in Nodes : Home[n] = n \div IdSpan

\* When nothing comes late: the owner injects nothing already due and adds no
\* subgraph later, nodes are where their ids say, and every event-driven subgraph is
\* reached from the others over slow channels.
Lookahead ==
  /\ OnTimeOnly /\ LateSubs = {} /\ PeriodsPositive
  /\ IdsByPrefix
  /\ \A i \in DOMAIN Channels : Slow(Channels[i])
  /\ \A channel \in LateChannels : Slow(channel)
  /\ \A s \in Subs : \A d \in EventSubs \ {s} :
       \E i \in DOMAIN Channels : Channels[i].src = s /\ Channels[i].dst = d

\* What a subgraph may have sent in this round: not into the past, not beyond the round
\* by more than a node's delay, and nothing to itself if it is event-driven.
Sent(s) ==
  {ev \in Event :
     /\ Home[ev.src] = s
     /\ s \in EventSubs /\ ev.dst \in Nodes => Home[ev.dst] # s
     /\ ev.time >= current_time
     /\ \E d \in Delays \cup {0} : ev.time <= next_time + d}

\* Messages that are not due yet, or go to a tick-driven subgraph.
Timely == {msg \in Message : msg.dst \in Nodes /\ Home[msg.dst] \in EventSubs => msg.time >= current_time}

\* What makes NothingLate inductive.
Ahead ==
  /\ Members = Subs /\ fresh = {}
  /\ \A i \in DOMAIN channels : Slow(channels[i])
  /\ \A s \in Subs : \A d \in EventSubs \ {s} : <<s, d>> \in DOMAIN channel_map
  /\ \A s \in Subs : outgoing[s] \in Seq(Sent(s))
  /\ pending_events \in Seq(Timely)
  /\ phase = "stepping" => pending_events = <<>>
  /\ \A s \in EventSubs : \A e \in inbox[s].entries : e.event.time >= clock[s]

\* With every subgraph there and ids that follow its convention, the routing
\* heuristic is right.
LEMMA HomeIsFound ==
  ASSUME EngineAssumption, IdsByPrefix, Members = Subs, NEW n \in Nodes
  PROVE  FindSubgraph(n) = Home[n] /\ Home[n] \in Subs
<1>1. Home[n] = n \div IdSpan
  BY DEF IdsByPrefix
<1>2. Home[n] \in Subs
  BY DEF EngineAssumption
<1>3. QED
  BY <1>1, <1>2 DEF FindSubgraph

\* It is right under the conditions of Lookahead.
LEMMA RoutedHome ==
  ASSUME EngineAssumption, Lookahead, Members = Subs, NEW n \in Nodes
  PROVE  FindSubgraph(n) = Home[n] /\ Home[n] \in Subs
  BY HomeIsFound DEF Lookahead

\* An event-driven subgraph that is there has reached the current time, and not passed
\* it before its turn; a tick-driven one is less than a tick behind.
LEMMA Reached ==
  ASSUME EngineAssumption, PeriodsPositive, TypeOK, Lockstep, Ahead, NEW s \in Subs
  PROVE  /\ s \in EventSubs => clock[s] >= current_time
         /\ s \in EventSubs /\ phase # "stepping" /\ s \notin running => clock[s] <= current_time
         /\ s \in TickSubs => clock[s] + Period[s] > current_time
<1> DEFINE reached == IF phase = "stepping" /\ s \notin waiting \cup running
                      THEN next_time ELSE current_time
           slack == IF s \in EventSubs THEN 0 ELSE Period[s] - 1
<1>1. /\ s \in Members /\ s \notin fresh
      /\ reached - slack <= clock[s]
      /\ s \notin running => clock[s] <= reached
  <2>1. s \in Members /\ s \notin fresh
    BY DEF Ahead
  <2>2. QED
    BY <2>1 DEF Lockstep
<1>2. /\ clock[s] \in Nat /\ current_time \in Nat /\ TimeStep \in Nat
      /\ next_time = current_time + TimeStep
      /\ s \in EventSubs \/ (s \in TickSubs /\ s \notin EventSubs)
      /\ s \in TickSubs => Period[s] \in Nat /\ Period[s] > 0
  BY ClockType
<1>3. reached \in Nat /\ reached >= current_time /\ (phase # "stepping" => reached = current_time)
  BY <1>2
<1>4. s \in EventSubs => slack = 0
  OBVIOUS
<1>5. s \notin EventSubs => slack = Period[s] - 1
  OBVIOUS
<1>6. s \in TickSubs => s \notin EventSubs
  BY DEF EngineAssumption
<1> HIDE DEF reached, slack
<1>7. QED
  BY <1>1, <1>2, <1>3, <1>4, <1>5, <1>6

\* The group of an event-driven subgraph holds only messages that are not due yet.
LEMMA GroupNotDue ==
  ASSUME EngineAssumption, Lookahead, TypeOK, Ahead, NEW s \in EventSubs
  PROVE  For(s) \in Seq({msg \in Message : msg.time >= current_time})
<1> DEFINE I == {i \in DOMAIN pending_events :
                   pending_events[i].dst # Custom /\ FindSubgraph(pending_events[i].dst) = s}
           S == {msg \in Message : msg.time >= current_time}
<1>1. Len(pending_events) \in Nat /\ \A i \in 1..Len(pending_events) : pending_events[i] \in Timely
  BY DEF Ahead
<1>2. ASSUME NEW i \in 1..Len(pending_events), i \in I
      PROVE  pending_events[i] \in S
  <2>1. /\ pending_events[i] \in Timely
        /\ pending_events[i].dst # Custom /\ FindSubgraph(pending_events[i].dst) = s
    BY <1>1, <1>2
  <2>2. pending_events[i].dst \in Nodes
    BY <2>1 DEF Timely, Message
  <2>3. Home[pending_events[i].dst] = s
    BY <2>1, <2>2, RoutedHome DEF Ahead
  <2>4. QED
    BY <2>1, <2>2, <2>3 DEF Timely
<1> HIDE DEF I, S
<1>3. Kept(pending_events, I) \in Seq(S)
  BY <1>1, <1>2, KeptType
<1>4. QED
  BY <1>3 DEF For, I, S

\* What is sent in time arrives in time.
LEMMA DeliveredInTime ==
  ASSUME EngineAssumption, WidthAssumption, Lookahead, TypeOK, Bounded, Ahead, phase = "stepping",
         NEW s \in Subs, NEW ev \in Sent(s)
  PROVE  /\ Deliver(ev) \in Message
         /\ ev.dst \in Nodes /\ Home[ev.dst] \in EventSubs => Deliver(ev).time >= next_time
<1>1. ev \in Event /\ Deliver(ev) \in Message
  BY DeliverType DEF Sent
<1>2. ASSUME ev.dst \in Nodes, Home[ev.dst] \in EventSubs
      PROVE  Deliver(ev).time >= next_time
  <2> DEFINE d == Home[ev.dst]
             ch == channels[channel_map[<<s, d>>]]
  <2>1. ev.src \in Nodes /\ Home[ev.src] = s /\ d # s
    BY <1>2 DEF Sent, Event, EngineAssumption
  <2>2. FindSubgraph(ev.src) = s /\ FindSubgraph(ev.dst) = d /\ ev.dst # Custom
    BY <1>2, <2>1, RoutedHome DEF Ahead, EngineAssumption
  <2>3. <<s, d>> \in DOMAIN channel_map
    BY <1>2, <2>1 DEF Ahead
  <2>4. ch \in Link /\ ch.dst = d /\ Slow(ch)
    <3>1. channel_map[<<s, d>>] \in DOMAIN channels /\ ch.dst = d
      BY <2>3 DEF TypeOK
    <3>2. channels \in Seq(Link)
      BY DEF TypeOK
    <3>3. QED
      BY <3>1, <3>2 DEF Ahead
  <2>5. Deliver(ev).time = Carried(ch, ev.time, d)
    BY <2>2, <2>3 DEF Deliver
  <2>6. PeriodOf(d) = 0
    BY <1>2 DEF PeriodOf, EngineAssumption
  <2> DEFINE x == ev.time + ch.latency
  <2>7. x >= next_time /\ x \in 0..(Width - 1)
    <3>1. PICK y \in Delays \cup {0} : ev.time <= next_time + y
      BY DEF Sent
    <3>2. /\ ch.latency >= TimeStep /\ MaxTime + TimeStep + y + ch.latency <= Width
      BY <1>2, <2>4, <3>1 DEF Slow
    <3>3. /\ ev.time \in Nat /\ ch.latency \in Nat /\ y \in Nat /\ current_time \in Nat
          /\ TimeStep \in Nat /\ MaxTime \in Nat /\ Width \in Nat
          /\ next_time = current_time + TimeStep
      <4>1. ev.time \in Nat
        BY <1>1 DEF Event
      <4>2. Width \in Nat
        BY DEF WidthAssumption
      <4>3. ch.latency \in Nat
        BY <2>4, <4>2 DEF Link, SimTime
      <4>4. y \in Nat /\ TimeStep \in Nat /\ MaxTime \in Nat
        BY <3>1 DEF EngineAssumption
      <4>5. QED
        BY <4>1, <4>2, <4>3, <4>4 DEF TypeOK, next_time
    <3>4. ev.time >= current_time /\ current_time < MaxTime
      <4>1. goal \in 0..MaxTime /\ current_time < goal
        BY DEF Bounded
      <4>2. QED
        BY <3>3, <4>1 DEF Sent
    <3> HIDE DEF ch
    <3>5. QED
      BY <3>1, <3>2, <3>3, <3>4, SMTT(30)
  <2>8. Wrap(x) = x
    <3>1. Width \in Nat
      BY DEF WidthAssumption
    <3> HIDE DEF x
    <3>2. QED
      BY <2>7, <3>1 DEF Wrap
  <2>9. Align(ch.alignment, x, 0) = x /\ x # None
    <3>1. Width \in Nat
      BY DEF WidthAssumption
    <3> HIDE DEF x
    <3>2. QED
      BY <2>7, <3>1 DEF Align, None
  <2>10. Carried(ch, ev.time, d) = x
    BY <2>6, <2>8, <2>9 DEF Carried, ComputeArrivalTime
  <2>11. QED
    BY <2>5, <2>7, <2>10
<1>3. QED
  BY <1>1, <1>2

\* In every step Ahead holds on.
LEMMA AheadStep ==
  ASSUME EngineAssumption, WidthAssumption, Lookahead, TypeOK, Placed, Lockstep, Bounded, Ahead, [Step]_vars
  PROVE  Ahead'
<1> USE DEF network, history, globals, locals
<1>0. PeriodsPositive
  BY DEF Lookahead
<1>1. ASSUME InitEngine \/ InitParallel
      PROVE  Ahead'
  <2>1. /\ current_time' = 0 /\ fresh' = {} /\ phase # "stepping" /\ phase' = phase
        /\ pending_events' = <<>> \/ pending_events' = pending_events
        /\ \A s \in EventSubs : inbox'[s] = EmptyQueue
        /\ UNCHANGED <<order, channels, channel_map, outgoing>>
    BY <1>1 DEF InitEngine, InitParallel, InitExecutors
  <2>2. Members' = Members
    BY <2>1 DEF Members
  <2>3. \A s \in Subs : outgoing'[s] \in Seq(Sent(s)')
    <3>1. \A s \in Subs : outgoing'[s] = <<>>
      BY <2>1 DEF Placed
    <3>2. \A S : <<>> \in Seq(S)
      OBVIOUS
    <3>3. SUFFICES ASSUME NEW s \in Subs  PROVE outgoing'[s] \in Seq(Sent(s)')
      OBVIOUS
    <3>4. outgoing'[s] = <<>>
      BY <3>1
    <3>5. <<>> \in Seq(Sent(s)')
      BY <3>2, Zenon
    <3>6. QED
      BY <3>4, <3>5, Zenon
  <2>4. pending_events' \in Seq(Timely')
    <3>1. Timely' = {msg \in Message : msg.dst \in Nodes /\ Home[msg.dst] \in EventSubs =>
                       msg.time >= 0}
      BY <2>1 DEF Timely
    <3>2. \A msg \in Message : msg.time >= 0
      BY DEF Message
    <3>3. Message = Timely'
      BY <3>1, <3>2
    <3>4. pending_events \in Seq(Message) /\ <<>> \in Seq(Message)
      BY DEF TypeOK
    <3>5. pending_events' \in Seq(Message)
      BY <2>1, <3>4
    <3>6. QED
      BY <3>3, <3>5
  <2>5. EmptyQueue.entries = {}
    BY DEF EmptyQueue
  <2>6. QED
    BY <2>1, <2>2, <2>3, <2>4, <2>5 DEF Ahead
<1>2. ASSUME NEW s \in LateSubs, AddSubgraph(s)
      PROVE  Ahead'
  BY DEF Lookahead
<1>3. ASSUME NEW channel \in LateChannels, AddChannel(channel)
      PROVE  Ahead'
  <2>1. /\ channels \in Seq(Link) /\ channel \in Link /\ channels' = Append(channels, channel)
        /\ UNCHANGED <<order, fresh, outgoing, pending_events, inbox, clock, current_time, phase>>
    BY <1>3 DEF AddChannel, TypeOK, EngineAssumption
  <2>2. \A i \in DOMAIN channels' : Slow(channels'[i])
    <3>1. \A i \in DOMAIN channels' : channels'[i] = channel \/ (i \in DOMAIN channels /\ channels'[i] = channels[i])
      BY <2>1
    <3>2. Slow(channel) /\ \A i \in DOMAIN channels : Slow(channels[i])
      BY DEF Ahead, Lookahead
    <3>3. QED
      BY <3>1, <3>2
  <2>3. DOMAIN channel_map \subseteq DOMAIN channel_map'
    BY <1>3 DEF AddChannel
  <2>4. Members' = Members /\ Timely' = Timely /\ \A s : Sent(s)' = Sent(s)
    BY <2>1 DEF Members, Timely, Sent, next_time
  <2>5. QED
    BY <2>1, <2>2, <2>3, <2>4 DEF Ahead
<1>4. ASSUME NEW msg \in Message, InjectEvent(msg)
      PROVE  Ahead'
  <2>1. /\ msg.time >= current_time /\ phase # "stepping"
        /\ pending_events' = Append(pending_events, msg)
        /\ UNCHANGED <<order, channels, channel_map, fresh, outgoing, inbox, clock, current_time, phase>>
    BY <1>4 DEF InjectEvent, Lookahead
  <2>2. msg \in Timely
    BY <2>1 DEF Timely
  <2>3. pending_events' \in Seq(Timely)
    BY <2>1, <2>2 DEF Ahead
  <2>4. Members' = Members /\ Timely' = Timely /\ \A s : Sent(s)' = Sent(s)
    BY <2>1 DEF Members, Timely, Sent, next_time
  <2>5. QED
    BY <2>1, <2>3, <2>4 DEF Ahead
<1>5. ASSUME \/ \E max \in 0..MaxTime : StartRun(max)
             \/ ReturnFromRun
             \/ UNCHANGED vars
      PROVE  Ahead'
  <2>1. /\ phase' = "stepping" => phase = "stepping"
        /\ UNCHANGED <<order, channels, channel_map, fresh, outgoing, pending_events, inbox, clock,
                        current_time>>
    BY <1>5 DEF StartRun, ReturnFromRun, vars
  <2>2. Members' = Members /\ Timely' = Timely /\ \A s : Sent(s)' = Sent(s)
    BY <2>1 DEF Members, Timely, Sent, next_time
  <2>3. QED
    BY <2>1, <2>2 DEF Ahead
<1>6. CASE BeginStep
  <2>1. /\ phase # "stepping" /\ inbox' = [s \in EventSubs |-> PushAll(inbox[s], For(s))]
        /\ pending_events' = <<>>
        /\ UNCHANGED <<order, channels, channel_map, fresh, outgoing, clock, current_time>>
    BY <1>6 DEF BeginStep
  <2>2. ASSUME NEW s \in EventSubs, NEW e \in inbox'[s].entries
        PROVE  e.event.time >= clock[s]
    <3>1. For(s) \in Seq({msg \in Message : msg.time >= current_time})
      BY GroupNotDue
    <3>2. For(s) \in Seq(Message)
      BY ForType DEF Subs
    <3>3. e \in inbox[s].entries \/ \E i \in 1..Len(For(s)) : e.event = For(s)[i]
      <4>1. QueueOK(inbox[s], Message) /\ e \in PushAll(inbox[s], For(s)).entries
        BY <2>1 DEF TypeOK
      <4>2. QED
        BY <3>2, <4>1, PushAllOK
    <3>4. clock[s] <= current_time /\ clock[s] \in Nat /\ current_time \in Nat
      <4>1. s \in Subs /\ s \notin running
        BY <2>1 DEF Placed, Subs
      <4>2. QED
        BY <1>0, <2>1, <4>1, Reached, ClockType
    <3>5. ASSUME NEW i \in 1..Len(For(s)), e.event = For(s)[i]
          PROVE  e.event.time >= clock[s]
      <4>1. e.event \in {msg \in Message : msg.time >= current_time}
        BY <3>1, <3>5
      <4>2. e.event.time \in Nat /\ e.event.time >= current_time
        BY <4>1 DEF Message
      <4>3. QED
        BY <3>4, <4>2
    <3>6. QED
      BY <3>3, <3>5 DEF Ahead
  <2>3. Members' = Members /\ Timely' = Timely /\ \A s : Sent(s)' = Sent(s)
    BY <2>1 DEF Members, Timely, Sent, next_time
  <2>4. <<>> \in Seq(Timely)
    OBVIOUS
  <2>5. QED
    BY <2>1, <2>2, <2>3, <2>4 DEF Ahead
<1>7. ASSUME NEW s \in Subs, StartWorker(s)
      PROVE  Ahead'
  <2>1. UNCHANGED <<order, channels, channel_map, fresh, outgoing, pending_events, inbox, clock,
                    current_time, phase>>
    BY <1>7 DEF StartWorker
  <2>2. Members' = Members /\ Timely' = Timely /\ \A q : Sent(q)' = Sent(q)
    BY <2>1 DEF Members, Timely, Sent, next_time
  <2>3. QED
    BY <2>1, <2>2 DEF Ahead
<1>8. ASSUME NEW s \in EventSubs, NEW e \in EntrySet(Message), NEW answer \in Seq(Event),
             ProcessEvent(s, e, answer)
      PROVE  Ahead'
  <2> DEFINE mine == {i \in DOMAIN answer : answer[i].dst \in Nodes /\ Home[answer[i].dst] = s}
             here == Kept(answer, mine)
             there == Kept(answer, DOMAIN answer \ mine)
             msgs == Messages(here)
  <2>1. /\ s \in running /\ IsFirst(e, inbox[s]) /\ e.event.time <= next_time
        /\ answer # <<>> => e.event.dst \in Nodes /\ Home[e.event.dst] = s
        /\ \A i \in DOMAIN answer :
             answer[i].src = e.event.dst /\ answer[i].time - e.event.time \in Delays
        /\ inbox' = [inbox EXCEPT ![s] = PushAll(Without(inbox[s], {e}), msgs)]
        /\ clock' = [clock EXCEPT ![s] = Later(e.event.time, clock[s])]
        /\ outgoing' = [outgoing EXCEPT ![s] = outgoing[s] \o there]
        /\ UNCHANGED <<order, channels, channel_map, fresh, pending_events, current_time, phase>>
    BY <1>8 DEF ProcessEvent
  <2>2. /\ s \in Subs /\ clock[s] \in Nat /\ current_time \in Nat /\ e.event.time \in Nat
        /\ e \in inbox[s].entries
    BY <2>1 DEF Subs, TypeOK, EntrySet, Message, IsFirst
  <2>3. e.event.time >= clock[s] /\ clock[s] >= current_time
    BY <1>0, <2>2, Reached DEF Ahead
  <2>4. ASSUME NEW i \in 1..Len(answer)
        PROVE  /\ answer[i] \in Event /\ answer[i].time \in Nat
               /\ answer[i].time >= e.event.time
               /\ i \notin mine => answer[i] \in Sent(s)
    <3>1. answer[i] \in Event /\ answer[i].time \in Nat
      <4>1. answer[i] \in Event
        OBVIOUS
      <4>2. QED
        BY <4>1 DEF Event
    <3>2. PICK d \in Delays : answer[i].time - e.event.time = d
      <4>1. i \in DOMAIN answer
        OBVIOUS
      <4>2. answer[i].time - e.event.time \in Delays
        BY <2>1, <4>1
      <4>3. QED
        BY <4>2
    <3>3. d \in Nat /\ answer[i].time = e.event.time + d
      BY <2>2, <3>1, <3>2 DEF EngineAssumption
    <3>4. answer[i].src = e.event.dst /\ Home[answer[i].src] = s
      BY <2>1
    <3>5. answer[i].time >= current_time /\ answer[i].time >= e.event.time
      BY <2>2, <2>3, <3>3
    <3>6. answer[i].time <= next_time + d
      <4>1. next_time \in Nat
        BY <2>2 DEF next_time, EngineAssumption
      <4>2. QED
        BY <2>1, <2>2, <3>3, <4>1
    <3>7. i \notin mine => ~(answer[i].dst \in Nodes /\ Home[answer[i].dst] = s)
      OBVIOUS
    <3> HIDE DEF mine
    <3>8. QED
      BY <3>1, <3>4, <3>5, <3>6, <3>7 DEF Sent
  <2>5. here \in Seq({ev \in Event : ev.time >= e.event.time}) /\ here \in Seq(Event)
    <3> DEFINE S == {ev \in Event : ev.time >= e.event.time}
    <3>1. Len(answer) \in Nat /\ \A i \in 1..Len(answer) : answer[i] \in S /\ answer[i] \in Event
      BY <2>4
    <3> HIDE DEF mine, S
    <3>2. here \in Seq(S) /\ here \in Seq(Event)
      BY <3>1, KeptType
    <3>3. QED
      BY <3>2 DEF S
  <2>6. there \in Seq(Sent(s))
    <3> DEFINE J == DOMAIN answer \ mine
    <3>1. Len(answer) \in Nat /\ \A i \in 1..Len(answer) : i \in J => answer[i] \in Sent(s)
      BY <2>4
    <3> HIDE DEF J
    <3>2. Kept(answer, J) \in Seq(Sent(s))
      BY <3>1, KeptType
    <3>3. QED
      BY <3>2 DEF J
  <2> HIDE DEF mine, here, there
  <2>7. \A i \in 1..Len(msgs) : msgs[i].time >= e.event.time
    <3>1. Len(here) \in Nat /\ DOMAIN here = 1..Len(here) /\ \A i \in 1..Len(here) : here[i].time >= e.event.time
      BY <2>5
    <3>2. msgs \in Seq(Message)
      BY <2>2, <2>5, AnswerType
    <3>3. DOMAIN msgs = DOMAIN here /\ \A i \in DOMAIN msgs : msgs[i].time = here[i].time
      BY DEF Messages
    <3>4. 1..Len(msgs) = DOMAIN msgs
      <4> HIDE DEF msgs
      <4>1. QED
        BY <3>2
    <3> HIDE DEF msgs
    <3>5. QED
      BY <3>1, <3>3, <3>4
  <2>8. msgs \in Seq(Message) /\ QueueOK(Without(inbox[s], {e}), Message)
    BY <2>2, <2>5, AnswerType, WithoutOK DEF TypeOK
  <2> HIDE DEF msgs
  <2>9. clock' \in [Subs -> Nat] /\ clock'[s] = Later(e.event.time, clock[s])
    <3>1. clock \in [Subs -> Nat] /\ Later(e.event.time, clock[s]) \in Nat
      BY <2>2 DEF TypeOK, Later
    <3>2. QED
      BY <2>1, <2>2, <3>1
  <2>10. clock'[s] = e.event.time
    BY <2>2, <2>3, <2>9 DEF Later
  <2>11. ASSUME NEW f \in inbox'[s].entries
         PROVE  f.event.time >= clock'[s]
    <3>1. inbox'[s] = PushAll(Without(inbox[s], {e}), msgs)
      BY <2>1 DEF TypeOK
    <3>2. \/ f \in inbox[s].entries \ {e}
          \/ \E i \in 1..Len(msgs) : f.event = msgs[i]
      <4> DEFINE rest == Without(inbox[s], {e})
      <4>1. rest.entries = inbox[s].entries \ {e}
        BY DEF Without
      <4>2. f \in PushAll(rest, msgs).entries /\ QueueOK(rest, Message)
        BY <2>8, <3>1
      <4> HIDE DEF rest
      <4>3. \A g \in PushAll(rest, msgs).entries :
              g \in rest.entries \/ \E i \in 1..Len(msgs) : g.event = msgs[i]
        BY <2>8, <4>2, PushAllOK
      <4>4. QED
        BY <4>1, <4>2, <4>3
    <3>3. ASSUME f \in inbox[s].entries \ {e}  PROVE f.event.time >= e.event.time
      <4>1. Earlier(e, f)
        BY <2>1, <3>3 DEF IsFirst
      <4>2. f.event.time \in Nat
        BY <3>3, SMTT(30) DEF TypeOK, QueueOK, EntrySet, Message
      <4>3. QED
        BY <2>2, <4>1, <4>2 DEF Earlier
    <3>4. QED
      BY <2>7, <2>10, <3>2, <3>3
  <2>12. ASSUME NEW q \in EventSubs, NEW f \in inbox'[q].entries
         PROVE  f.event.time >= clock'[q]
    <3>1. CASE q = s
      BY <2>11, <3>1
    <3>2. CASE q # s
      <4>1. inbox'[q] = inbox[q] /\ clock'[q] = clock[q]
        BY <2>1, <3>2 DEF TypeOK, Subs
      <4>2. QED
        BY <4>1 DEF Ahead
    <3>3. QED
      BY <3>1, <3>2
  <2>13. ASSUME NEW q \in Subs
         PROVE  outgoing'[q] \in Seq(Sent(q))
    <3>1. CASE q = s
      <4>1. outgoing'[s] = outgoing[s] \o there
        BY <2>1, <2>2 DEF TypeOK
      <4>2. outgoing[s] \in Seq(Sent(s))
        BY <2>2 DEF Ahead
      <4> DEFINE S == Sent(s)
      <4>3. outgoing[s] \in Seq(S) /\ there \in Seq(S)
        BY <2>6, <4>2
      <4> HIDE DEF S
      <4>4. outgoing[s] \o there \in Seq(S)
        BY <4>3
      <4>5. QED
        BY <3>1, <4>1, <4>4 DEF S
    <3>2. CASE q # s
      <4>1. outgoing'[q] = outgoing[q]
        BY <2>1, <3>2 DEF TypeOK
      <4>2. QED
        BY <4>1 DEF Ahead
    <3>3. QED
      BY <3>1, <3>2
  <2>14. Members' = Members /\ Timely' = Timely /\ \A q : Sent(q)' = Sent(q)
    BY <2>1 DEF Members, Timely, Sent, next_time
  <2>15. QED
    BY <2>1, <2>12, <2>13, <2>14 DEF Ahead
<1>9. ASSUME NEW s \in TickSubs, NEW output \in Seq(Event), Tick(s, output)
      PROVE  Ahead'
  <2>1. /\ s \in Subs /\ s \notin EventSubs /\ clock[s] + Period[s] <= next_time
        /\ clock' = [clock EXCEPT ![s] = clock[s] + Period[s]]
        /\ \A i \in DOMAIN output :
             Home[output[i].src] = s /\ output[i].time = clock[s] + Period[s]
        /\ outgoing' = [outgoing EXCEPT ![s] = outgoing[s] \o output]
        /\ UNCHANGED <<order, channels, channel_map, fresh, pending_events, inbox, current_time, phase>>
    BY <1>9 DEF Tick, Subs, EngineAssumption
  <2>2. clock[s] \in Nat /\ Period[s] \in Nat /\ current_time \in Nat /\ next_time \in Nat
    <3>1. clock[s] \in Nat /\ Period[s] \in Nat /\ current_time \in Nat /\ TimeStep \in Nat
      BY <1>0, <2>1, ClockType
    <3>2. QED
      BY <3>1 DEF next_time
  <2>3. clock[s] + Period[s] > current_time
    BY <1>0, <2>1, Reached
  <2>4. output \in Seq(Sent(s))
    <3>1. \A i \in 1..Len(output) : output[i] \in Sent(s)
      <4> SUFFICES ASSUME NEW i \in 1..Len(output)  PROVE output[i] \in Sent(s)
        OBVIOUS
      <4>1. output[i] \in Event /\ Home[output[i].src] = s /\ output[i].time = clock[s] + Period[s]
        BY <2>1
      <4>2. output[i].time >= current_time /\ output[i].time <= next_time + 0
        BY <2>1, <2>2, <2>3, <4>1
      <4>3. QED
        BY <2>1, <4>1, <4>2 DEF Sent
    <3> DEFINE S == Sent(s)
    <3> HIDE DEF S
    <3>2. output \in Seq(S)
      BY <3>1 DEF S
    <3>3. QED
      BY <3>2 DEF S
  <2>5. ASSUME NEW q \in Subs
        PROVE  outgoing'[q] \in Seq(Sent(q))
    <3>1. CASE q = s
      <4>1. outgoing'[s] = outgoing[s] \o output
        BY <2>1 DEF TypeOK
      <4> DEFINE S == Sent(s)
      <4>2. outgoing[s] \in Seq(S) /\ output \in Seq(S)
        BY <2>1, <2>4 DEF Ahead
      <4> HIDE DEF S
      <4>3. outgoing[s] \o output \in Seq(S)
        BY <4>2
      <4>4. QED
        BY <3>1, <4>1, <4>3 DEF S
    <3>2. CASE q # s
      <4>1. outgoing'[q] = outgoing[q]
        BY <2>1, <3>2 DEF TypeOK
      <4>2. QED
        BY <4>1 DEF Ahead
    <3>3. QED
      BY <3>1, <3>2
  <2>6. \A q \in EventSubs : clock'[q] = clock[q]
    BY <2>1 DEF TypeOK, Subs
  <2>7. Members' = Members /\ Timely' = Timely /\ \A q : Sent(q)' = Sent(q)
    BY <2>1 DEF Members, Timely, Sent, next_time
  <2>8. QED
    BY <2>1, <2>5, <2>6, <2>7 DEF Ahead
<1>10. ASSUME NEW s \in Subs, LeaveSubgraph(s)
       PROVE  Ahead'
  <2>1. /\ \/ s \in EventSubs /\ clock' = [clock EXCEPT ![s] = Later(next_time, clock[s])]
              /\ DueBy(inbox[s], next_time) = {}
           \/ s \notin EventSubs /\ clock' = clock
        /\ UNCHANGED <<order, channels, channel_map, fresh, outgoing, pending_events, inbox,
                        current_time, phase>>
    BY <1>10 DEF LeaveSubgraph, EngineAssumption
  <2>2. ASSUME NEW q \in EventSubs, NEW e \in inbox[q].entries
        PROVE  e.event.time >= clock'[q]
    <3>1. e.event.time >= clock[q]
      BY DEF Ahead
    <3>2. clock \in [Subs -> Nat] /\ q \in Subs
      BY DEF TypeOK, Subs
    <3>3. CASE clock'[q] = clock[q]
      BY <3>1, <3>3
    <3>4. CASE clock'[q] # clock[q]
      <4>1. s = q
        BY <2>1, <3>2, <3>4
      <4>2. DueBy(inbox[q], next_time) = {} /\ clock'[q] = Later(next_time, clock[q])
        BY <2>1, <3>2, <4>1
      <4>3. e.event.time \in Nat /\ next_time \in Nat
        BY DEF TypeOK, QueueOK, EntrySet, Message, next_time, EngineAssumption
      <4>4. ~(e.event.time <= next_time)
        BY <4>2 DEF DueBy
      <4>5. QED
        BY <3>1, <4>2, <4>3, <4>4 DEF Later
    <3>5. QED
      BY <3>3, <3>4
  <2>3. Members' = Members /\ Timely' = Timely /\ \A q : Sent(q)' = Sent(q)
    BY <2>1 DEF Members, Timely, Sent, next_time
  <2>4. QED
    BY <2>1, <2>2, <2>3 DEF Ahead
<1>11. CASE EndStep
  <2>1. /\ phase = "stepping" /\ phase' = "looping"
        /\ pending_events' = [i \in DOMAIN Collected |-> Deliver(Collected[i])]
        /\ outgoing' = [s \in Subs |-> <<>>] /\ current_time' = next_time /\ fresh' = {}
        /\ UNCHANGED <<order, channels, channel_map, inbox, clock>>
    BY <1>11 DEF EndStep
  <2> DEFINE Good == UNION {Sent(s) : s \in Subs}
  <2>2. Collected \in Seq(Good)
    <3> DEFINE parts == [i \in DOMAIN order |-> outgoing[order[i]]]
               n == Len(order)
    <3>1. order \in Seq(Subs)
      BY OrderType
    <3>2. n \in Nat /\ DOMAIN order = 1..n
      BY <3>1
    <3>3. \A i \in 1..n : outgoing[order[i]] \in Seq(Good)
      <4> SUFFICES ASSUME NEW i \in 1..n  PROVE outgoing[order[i]] \in Seq(Good)
        OBVIOUS
      <4> DEFINE s == order[i]
      <4>1. s \in Subs
        BY <3>1
      <4> HIDE DEF s
      <4> DEFINE S == Sent(s)
      <4>2. outgoing[s] \in Seq(S) /\ S \subseteq Good
        BY <4>1 DEF Ahead
      <4> HIDE DEF S, Good
      <4>3. outgoing[s] \in Seq(Good)
        BY <4>2
      <4>4. QED
        BY <4>3 DEF s
    <3> HIDE DEF n, Good
    <3>4. parts \in [1..n -> Seq(Good)]
      BY <3>2, <3>3
    <3> HIDE DEF parts
    <3>5. parts \in Seq(Seq(Good))
      BY <3>2, <3>4
    <3>6. QED
      BY <3>5, FlattenType DEF Collected, parts
  <2>3. \A i \in DOMAIN Collected : Deliver(Collected[i]) \in Timely'
    <3> SUFFICES ASSUME NEW i \in DOMAIN Collected  PROVE Deliver(Collected[i]) \in Timely'
      OBVIOUS
    <3> DEFINE ev == Collected[i]
    <3>1. ev \in Good
      <4> HIDE DEF Good
      <4>1. QED
        BY <2>2
    <3>2. PICK s \in Subs : ev \in Sent(s)
      BY <3>1
    <3> HIDE DEF ev
    <3>3. /\ Deliver(ev) \in Message
          /\ ev.dst \in Nodes /\ Home[ev.dst] \in EventSubs => Deliver(ev).time >= next_time
      BY <2>1, <3>2, DeliveredInTime
    <3>4. Deliver(ev).dst = ev.dst
      BY DEF Deliver
    <3>5. Deliver(ev) \in Timely'
      BY <2>1, <3>3, <3>4 DEF Timely
    <3>6. QED
      BY <3>5 DEF ev
  <2>4. pending_events' \in Seq(Timely')
    <3> DEFINE n == Len(Collected)
    <3>1. n \in Nat /\ DOMAIN Collected = 1..n
      <4> HIDE DEF Good
      <4>1. QED
        BY <2>2
    <3> HIDE DEF n
    <3> DEFINE S == Timely'
    <3>2. \A i \in 1..n : Deliver(Collected[i]) \in S
      BY <2>3, <3>1
    <3> HIDE DEF S
    <3>3. pending_events' \in [1..n -> S]
      BY <2>1, <3>1, <3>2
    <3>4. pending_events' \in Seq(S)
      BY <3>1, <3>3
    <3>5. QED
      BY <3>4 DEF S
  <2>5. \A s \in Subs : outgoing'[s] \in Seq(Sent(s)')
    <3>1. \A s \in Subs : outgoing'[s] = <<>>
      BY <2>1
    <3>2. \A S : <<>> \in Seq(S)
      OBVIOUS
    <3>3. SUFFICES ASSUME NEW s \in Subs  PROVE outgoing'[s] \in Seq(Sent(s)')
      OBVIOUS
    <3>4. outgoing'[s] = <<>>
      BY <3>1
    <3>5. <<>> \in Seq(Sent(s)')
      BY <3>2, Zenon
    <3>6. QED
      BY <3>4, <3>5, Zenon
  <2>6. Members' = Members
    BY <2>1 DEF Members
  <2>7. QED
    BY <2>1, <2>4, <2>5, <2>6 DEF Ahead
<1>12. QED
  BY <1>1, <1>2, <1>3, <1>4, <1>5, <1>6, <1>7, <1>8, <1>9, <1>10, <1>11, StepCases

\* Lookahead: in both engines, for every schedule, no message reaches an event-driven
\* subgraph after its clock has passed the message's time, and nothing pending for one
\* is overdue between rounds ("chronological order", event.rs:114).  How the channels
\* round is not a condition.
THEOREM NothingComesLate ==
  ASSUME Lookahead
  PROVE  Spec \/ ParallelSpec => []NothingLate
<1>1. Init => Ahead
  <2> SUFFICES ASSUME Init  PROVE Ahead
    OBVIOUS
  <2>1. TypeOK /\ Placed /\ Indexed
    BY EngineAssumption, TypeInit, IndexedInit
  <2>2. Members = Subs
    <3>1. order \in SetToSeqs(Subs) /\ IsFiniteSet(Subs)
      BY EngineAssumption DEF Init, Lookahead, EngineAssumption
    <3>2. QED
      BY <3>1, OrderOfSet DEF Members
  <2>3. /\ channels = Channels /\ fresh = {} /\ phase = "idle" /\ pending_events = <<>>
        /\ outgoing = [s \in Subs |-> <<>>] /\ inbox = [s \in EventSubs |-> EmptyQueue]
    BY DEF Init
  <2>4. \A s \in Subs : \A d \in EventSubs \ {s} : <<s, d>> \in DOMAIN channel_map
    BY <2>1, <2>3 DEF Lookahead, Indexed
  <2>5. \A S : <<>> \in Seq(S)
    OBVIOUS
  <2>6. \A s \in Subs : outgoing[s] = <<>>
    BY <2>3
  <2>7. \A s \in EventSubs : inbox[s].entries = {}
    BY <2>3 DEF EmptyQueue
  <2>8. QED
    BY <2>2, <2>3, <2>4, <2>5, <2>6, <2>7 DEF Ahead, Lookahead
<1>2. TypeOK /\ Placed /\ Lockstep /\ Bounded /\ Ahead /\ [Step]_vars => Ahead'
  BY EngineAssumption, WidthAssumption, Lookahead, AheadStep
<1>3. TypeOK /\ Ahead => NothingLate
  <2> SUFFICES ASSUME TypeOK, Ahead, NEW i \in DOMAIN pending_events,
                      pending_events[i].dst # Custom, FindSubgraph(pending_events[i].dst) \in EventSubs
               PROVE  pending_events[i].time >= current_time
    BY DEF NothingLate, Ahead
  <2>1. pending_events[i] \in Timely
    BY DEF Ahead
  <2>2. pending_events[i].dst \in Nodes
    BY <2>1 DEF Timely, Message
  <2>3. FindSubgraph(pending_events[i].dst) = Home[pending_events[i].dst]
    BY <2>2, EngineAssumption, Lookahead, RoutedHome DEF Ahead
  <2>4. QED
    BY <2>1, <2>2, <2>3 DEF Timely
<1>4. PeriodsPositive
  BY DEF Lookahead
<1>5. Spec \/ ParallelSpec => []Lockstep
  BY <1>4, ClocksStayTogether
<1>6. QED
  BY <1>1, <1>2, <1>3, <1>5, Foundation, BoundedAlways, StepOfBoth, PTL DEF Spec, ParallelSpec

-------------------------------------------------------------------------------
\* What the executors have been handed.
Held == [s \in Subs |-> Stored(s)]

\* Conserved counts events when they are pending, between rounds only.
Balanced ==
  /\ Conserved
  /\ phase = "stepping" => pending_events = <<>>

\* An executor has been handed a number of events.
LEMMA StoredType ==
  ASSUME TypeOK, NEW s \in Subs
  PROVE  Stored(s) \in Nat
<1>1. CASE s \in EventSubs
  BY <1>1 DEF TypeOK, QueueOK, Stored
<1>2. CASE s \notin EventSubs
  <2>1. s \in TickSubs /\ buffered \in [TickSubs -> Nat]
    BY <1>2 DEF TypeOK, Subs
  <2>2. QED
    BY <1>2, <2>1 DEF Stored
<1>3. QED
  BY <1>1, <1>2

\* What the subgraphs have sent, in the order of their turns.
Parts(turns, out) == [i \in DOMAIN turns |-> out[turns[i]]]

\* What the subgraphs of an order have sent, put together.
LEMMA SentInOrder ==
  ASSUME NEW turns \in Seq(Subs), NEW out \in [Subs -> Seq(Event)], NEW size,
         \A i \in 1..Len(turns) : size[i] = Len(out[turns[i]])
  PROVE  /\ Len(FlattenSeq(Parts(turns, out)))
              = SumFunctionOnSet(size, 1..Len(turns))
         /\ IsFiniteSet(1..Len(turns)) /\ \A i \in 1..Len(turns) : size[i] \in Nat
<1> DEFINE parts == Parts(turns, out)
           n == Len(turns)
<1> USE DEF Parts
<1>1. n \in Nat /\ DOMAIN turns = 1..n /\ \A i \in 1..n : turns[i] \in Subs
  OBVIOUS
<1>2. \A i \in 1..n : parts[i] = out[turns[i]] /\ out[turns[i]] \in Seq(Event)
  BY <1>1
<1>3. parts \in [1..n -> Seq(Event)]
  <2> HIDE DEF n
  <2>1. QED
    BY <1>1, <1>2
<1> HIDE DEF parts
<1>4. parts \in Seq(Seq(Event)) /\ Len(parts) = n
  <2> HIDE DEF n
  <2>1. QED
    BY <1>1, <1>3
<1>5. \A i \in 1..Len(parts) : size[i] = Len(parts[i])
  BY <1>2, <1>4
<1>6. Len(FlattenSeq(parts)) = SumFunctionOnSet(size, 1..n)
  BY <1>4, <1>5, FlattenLength
<1>7. IsFiniteSet(1..n)
  <2>1. 1 \in Int /\ n \in Int
    BY <1>1
  <2>2. QED
    BY <2>1, FS_Interval, Zenon
<1>8. \A i \in 1..n : size[i] \in Nat
  <2> SUFFICES ASSUME NEW i \in 1..n  PROVE size[i] \in Nat
    OBVIOUS
  <2>1. out[turns[i]] \in Seq(Event) /\ size[i] = Len(out[turns[i]])
    BY <1>2
  <2>2. QED
    BY <2>1
<1>9. QED
  BY <1>6, <1>7, <1>8 DEF parts

\* When nobody has sent anything, nothing is collected.
LEMMA CollectedNone ==
  ASSUME NEW turns \in Seq(Subs), NEW out \in [Subs -> Seq(Event)], \A s \in Subs : out[s] = <<>>
  PROVE  Len(FlattenSeq(Parts(turns, out))) = 0
<1> DEFINE all == 1..Len(turns)
           size == [i \in all |-> 0]
<1>1. \A i \in all : size[i] = 0 /\ size[i] = Len(out[turns[i]])
  OBVIOUS
<1> HIDE DEF size
<1>2. /\ Len(FlattenSeq(Parts(turns, out))) = SumFunctionOnSet(size, all)
      /\ IsFiniteSet(all)
  <2>1. \A i \in 1..Len(turns) : size[i] = Len(out[turns[i]])
    BY <1>1
  <2>2. QED
    BY <2>1, SentInOrder
<1> HIDE DEF all
<1>3. QED
  BY <1>1, <1>2, SumZero

\* A subgraph sends more; no subgraph has two turns.
Sends(out, s, evs, more) == more = [out EXCEPT ![s] = out[s] \o evs]
NoneTwice(turns) == \A i, j \in 1..Len(turns) : turns[i] = turns[j] => i = j

\* When one of them sends more, that much more is collected.
LEMMA CollectedGrows ==
  ASSUME NEW turns \in Seq(Subs), NoneTwice(turns), NEW s \in ToSet(turns), NEW evs \in Seq(Event),
         NEW out \in [Subs -> Seq(Event)], NEW more, Sends(out, s, evs, more)
  PROVE  /\ Len(FlattenSeq(Parts(turns, more)))
              = Len(FlattenSeq(Parts(turns, out))) + Len(evs)
         /\ Len(FlattenSeq(Parts(turns, out))) \in Nat
<1> USE DEF Sends, NoneTwice
<1> DEFINE all == 1..Len(turns)
           old == [i \in all |-> Len(out[turns[i]])]
           new == [i \in all |-> Len(more[turns[i]])]
<1>1. DOMAIN turns = all /\ \A i \in all : turns[i] \in Subs
  OBVIOUS
<1>2. PICK k \in all : turns[k] = s
  BY <1>1 DEF ToSet
<1>3. s \in Subs /\ \A i \in all : i # k => turns[i] # s
  BY <1>1, <1>2
<1>4. more[s] = out[s] \o evs /\ \A q \in Subs : q # s => more[q] = out[q]
  BY <1>3
<1>5. more[s] \in Seq(Event) /\ Len(more[s]) = Len(out[s]) + Len(evs)
  <2> DEFINE first == out[s]
  <2>1. first \in Seq(Event) /\ more[s] = first \o evs
    BY <1>3, <1>4
  <2> HIDE DEF first
  <2>2. first \o evs \in Seq(Event) /\ Len(first \o evs) = Len(first) + Len(evs)
    BY <2>1
  <2>3. QED
    BY <2>1, <2>2 DEF first
<1>6. more \in [Subs -> Seq(Event)]
  <2> DEFINE x == out[s] \o evs
  <2>1. x \in Seq(Event) /\ more = [out EXCEPT ![s] = x]
    BY <1>4, <1>5
  <2> HIDE DEF x
  <2>2. QED
    BY <2>1
<1>7. \A i \in all : old[i] = Len(out[turns[i]]) /\ new[i] = Len(more[turns[i]])
  OBVIOUS
<1>8. \A i \in all \ {k} : new[i] = old[i]
  BY <1>1, <1>3, <1>4
<1>9. new[k] = old[k] + Len(evs)
  BY <1>2, <1>5
<1> HIDE DEF old, new
<1>10. /\ Len(FlattenSeq(Parts(turns, out))) = SumFunctionOnSet(old, all)
       /\ IsFiniteSet(all) /\ \A i \in all : old[i] \in Nat
  BY <1>7, SentInOrder
<1>11. /\ Len(FlattenSeq(Parts(turns, more))) = SumFunctionOnSet(new, all)
       /\ \A i \in all : new[i] \in Nat
  <2>1. \A i \in 1..Len(turns) : new[i] = Len(more[turns[i]])
    BY <1>7
  <2> HIDE DEF all
  <2>2. QED
    BY <1>6, <2>1, SentInOrder, ZenonT(40) DEF all
<1> HIDE DEF all
<1>12. SumFunctionOnSet(new, all) + old[k] = SumFunctionOnSet(old, all) + new[k]
  <2>1. \A i \in all : old[i] \in Nat /\ new[i] \in Nat
    BY <1>10, <1>11
  <2>2. \A i \in all \ {k} : new[i] = old[i]
    BY <1>8 DEF all
  <2>3. k \in all /\ IsFiniteSet(all)
    BY <1>2, <1>10 DEF all
  <2>4. QED
    BY <2>1, <2>2, <2>3, SumUpdate
<1>13. SumFunctionOnSet(old, all) \in Nat /\ SumFunctionOnSet(new, all) \in Nat
  BY <1>10, <1>11, SumType
<1>14. old[k] \in Nat /\ Len(evs) \in Nat
  BY <1>10
<1> DEFINE a == SumFunctionOnSet(new, all)
           b == SumFunctionOnSet(old, all)
<1>15. a = b + Len(evs)
  <2>1. a + old[k] = b + (old[k] + Len(evs)) /\ a \in Nat /\ b \in Nat
    BY <1>9, <1>12, <1>13
  <2> DEFINE c == old[k]
             d == Len(evs)
  <2>2. a + c = b + (c + d) /\ c \in Nat /\ d \in Nat /\ a \in Nat /\ b \in Nat
    BY <1>14, <2>1
  <2> HIDE DEF a, b, c, d
  <2>3. a = b + d
    BY <2>2
  <2>4. QED
    BY <2>3 DEF d
<1>16. QED
  BY <1>10, <1>11, <1>13, <1>15

\* The groups of a dispatch make up the events that have somewhere to go.
LEMMA GroupsMakeRouted ==
  ASSUME EngineAssumption, TypeOK, Placed
  PROVE  LET addressed == {i \in DOMAIN pending_events : pending_events[i].dst # Custom}
             routed == {i \in addressed : FindSubgraph(pending_events[i].dst) # None}
         IN  SumFunctionOnSet([s \in Subs |-> Len(For(s))], Subs) = Cardinality(routed)
<1> DEFINE addressed == {i \in DOMAIN pending_events : pending_events[i].dst # Custom}
           routed == {i \in addressed : FindSubgraph(pending_events[i].dst) # None}
           group(s) == {i \in DOMAIN pending_events :
                          pending_events[i].dst # Custom /\ FindSubgraph(pending_events[i].dst) = s}
           part == [s \in Subs |-> group(s)]
           size == [s \in Subs |-> Len(For(s))]
           n == Len(pending_events)
<1>1. /\ pending_events \in Seq(Message) /\ n \in Nat /\ DOMAIN pending_events = 1..n
      /\ IsFiniteSet(1..n)
  <2>1. pending_events \in Seq(Message)
    BY DEF TypeOK
  <2>2. n \in Nat /\ DOMAIN pending_events = 1..n
    BY <2>1
  <2>3. 1 \in Int /\ n \in Int
    BY <2>2
  <2>4. IsFiniteSet(1..n)
    BY <2>3, FS_Interval, Zenon
  <2>5. QED
    BY <2>1, <2>2, <2>4
<1>2. \A s \in Subs : IsFiniteSet(part[s]) /\ size[s] = Cardinality(part[s])
  <2> SUFFICES ASSUME NEW s \in Subs  PROVE IsFiniteSet(part[s]) /\ size[s] = Cardinality(part[s])
    OBVIOUS
  <2>1. For(s) = Kept(pending_events, group(s))
    BY DEF For
  <2>2. group(s) \subseteq 1..n
    BY <1>1
  <2> DEFINE I == group(s)
  <2>3. part[s] = I /\ size[s] = Len(Kept(pending_events, I)) /\ I \subseteq 1..n
    BY <2>1, <2>2
  <2> HIDE DEF I, part, size, group
  <2>4. Len(Kept(pending_events, I)) = Cardinality(I \cap (1..Len(pending_events)))
    BY <1>1, KeptLength
  <2>5. I \cap (1..n) = I
    BY <2>3
  <2>6. IsFiniteSet(I)
    <3> DEFINE all == 1..n
    <3>1. IsFiniteSet(all) /\ I \in SUBSET all
      BY <1>1, <2>3
    <3> HIDE DEF all
    <3>2. QED
      BY <3>1, FS_Subset
  <2>7. QED
    BY <2>3, <2>4, <2>5, <2>6
<1>3. \A x, y \in Subs : x # y => part[x] \cap part[y] = {}
  OBVIOUS
<1>4. UNION {part[s] : s \in Subs} = routed
  <2>1. ASSUME NEW i \in addressed
        PROVE  FindSubgraph(pending_events[i].dst) \in Subs \cup {None} /\ None \notin Subs
    <3>1. pending_events[i] \in Message /\ pending_events[i].dst # Custom
      BY <1>1
    <3>2. pending_events[i].dst \in Nat
      BY <3>1 DEF Message, EngineAssumption
    <3>3. QED
      BY <3>2, RoutedToMember DEF Placed
  <2>2. ASSUME NEW i \in routed
        PROVE  \E s \in Subs : i \in part[s]
    <3> DEFINE s == FindSubgraph(pending_events[i].dst)
    <3>1. s \in Subs /\ i \in group(s)
      BY <2>1, <2>2
    <3> HIDE DEF s
    <3>2. part[s] = group(s)
      BY <3>1
    <3>3. QED
      BY <3>1, <3>2
  <2>3. ASSUME NEW s \in Subs, NEW i \in part[s]
        PROVE  i \in routed
    <3>1. i \in group(s)
      BY <2>3
    <3>2. None \notin Subs
      BY DEF EngineAssumption, Subs, None
    <3>3. QED
      BY <3>1, <3>2
  <2> HIDE DEF part, routed
  <2>4. QED
    BY <2>2, <2>3
<1>5. IsFiniteSet(Subs)
  BY DEF EngineAssumption
<1>6. SumFunctionOnSet(size, Subs) = Cardinality(UNION {part[x] : x \in Subs})
  <2> HIDE DEF size, part
  <2>1. QED
    BY <1>2, <1>3, <1>5, SumOfSizes
<1>7. QED
  BY <1>4, <1>6

\* What Balanced is about, in numbers.
LEMMA Accounts ==
  ASSUME EngineAssumption, TypeOK, Placed
  PROVE  /\ Balanced <=>
              /\ injected + generated =
                   Len(pending_events) + Len(Collected) + discarded + replaced + stats.dropped
                     + SumFunctionOnSet(Held, Subs)
              /\ injected + stats.processed =
                   stats.dispatched + stats.dropped + discarded + Len(pending_events)
              /\ phase = "stepping" => pending_events = <<>>
         /\ Len(Collected) \in Nat /\ Len(pending_events) \in Nat
         /\ SumFunctionOnSet(Held, Subs) \in Nat /\ \A s \in Subs : Held[s] \in Nat
         /\ injected \in Nat /\ generated \in Nat /\ discarded \in Nat /\ replaced \in Nat
         /\ stats.dropped \in Nat /\ stats.dispatched \in Nat /\ stats.processed \in Nat
<1>1. SumFunction([s \in Subs |-> Stored(s)]) = SumFunctionOnSet(Held, Subs)
  BY DEF SumFunction, Held
<1>2. \A s \in Subs : Held[s] \in Nat
  BY StoredType DEF Held
<1>3. SumFunctionOnSet(Held, Subs) \in Nat
  BY <1>2, SumType DEF EngineAssumption
<1>4. Len(Collected) \in Nat
  BY CollectedType
<1>5. pending_events \in Seq(Message)
  BY DEF TypeOK
<1>6. stats \in [steps : Nat, processed : Nat, dispatched : Nat, dropped : Nat]
  BY DEF TypeOK
<1>7. injected \in Nat /\ generated \in Nat /\ discarded \in Nat /\ replaced \in Nat
  BY DEF TypeOK
<1>8. QED
  BY <1>1, <1>2, <1>3, <1>4, <1>5, <1>6, <1>7 DEF Balanced, Conserved

\* Every step keeps the balance.
LEMMA BalancedStep ==
  ASSUME EngineAssumption, WidthAssumption, TypeOK, Placed, Balanced, [Step]_vars
  PROVE  Balanced'
<1> USE DEF network, history, globals, locals
<1> DEFINE flow == Len(Collected)
           held == SumFunctionOnSet(Held, Subs)
           pending == Len(pending_events)
<1>1. TypeOK' /\ Placed'
  BY TypeStep
<1>2. /\ injected + generated = pending + flow + discarded + replaced + stats.dropped + held
      /\ injected + stats.processed = stats.dispatched + stats.dropped + discarded + pending
      /\ phase = "stepping" => pending_events = <<>>
      /\ flow \in Nat /\ pending \in Nat /\ held \in Nat
      /\ injected \in Nat /\ generated \in Nat /\ discarded \in Nat /\ replaced \in Nat
      /\ stats.dropped \in Nat /\ stats.dispatched \in Nat /\ stats.processed \in Nat
  BY Accounts
<1>3. \A s \in Subs : Held[s] \in Nat
  BY Accounts
<1>4. SUFFICES /\ injected' + generated' = pending' + flow' + discarded' + replaced' + stats'.dropped + held'
               /\ injected' + stats'.processed = stats'.dispatched + stats'.dropped + discarded' + pending'
               /\ phase' = "stepping" => pending_events' = <<>>
  BY DEF Balanced, Conserved, SumFunction, Held
<1>5. order \in Seq(Subs) /\ outgoing \in [Subs -> Seq(Event)] /\ order' \in Seq(Subs)
  <2>1. order' \in Seq(Subs)
    <3>1. IsFiniteSet(Members')
      BY <1>1, FS_Subset DEF Placed, EngineAssumption
    <3>2. order' \in Seq(Members')
      BY <1>1, <3>1, OrderOfSet DEF Placed
    <3>3. Members' \subseteq Subs
      BY <1>1 DEF Placed
    <3>4. QED
      BY <3>2, <3>3
  <2>2. QED
    BY <2>1, OrderType DEF TypeOK
<1>6. Collected = FlattenSeq(Parts(order, outgoing)) /\ Collected' = FlattenSeq(Parts(order', outgoing'))
  BY DEF Collected, Parts
<1>7. ASSUME outgoing' = [s \in Subs |-> <<>>]
      PROVE  flow' = 0
  <2>1. outgoing' \in [Subs -> Seq(Event)] /\ \A s \in Subs : outgoing'[s] = <<>>
    BY <1>1, <1>7 DEF TypeOK
  <2>2. QED
    BY <1>5, <1>6, <2>1, CollectedNone
<1>8. ASSUME phase # "stepping"
      PROVE  flow = 0
  <2>1. \A s \in Subs : outgoing[s] = <<>>
    BY <1>8 DEF Placed
  <2>2. QED
    BY <1>5, <1>6, <2>1, CollectedNone
<1>9. ASSUME inbox' = inbox, buffered' = buffered
      PROVE  held' = held
  BY <1>9 DEF Held, Stored
<1>10. ASSUME inbox' = [s \in EventSubs |-> EmptyQueue], buffered' = [s \in TickSubs |-> 0]
       PROVE  held' = 0
  <2>1. \A s \in Subs : Held'[s] = 0
    BY <1>10 DEF Held, Stored, Subs, EmptyQueue
  <2>2. IsFiniteSet(Subs)
    BY DEF EngineAssumption
  <2>3. QED
    BY <2>1, <2>2, SumZero
<1>11. ASSUME NEW s \in Subs, \A q \in Subs \ {s} : Held'[q] = Held[q], Held'[s] \in Nat
       PROVE  held' + Held[s] = held + Held'[s] /\ held' \in Nat
  <2>1. \A q \in Subs : Held[q] \in Nat /\ Held'[q] \in Nat
    BY <1>3, <1>11
  <2>2. IsFiniteSet(Subs)
    BY DEF EngineAssumption
  <2>3. SumFunctionOnSet(Held', Subs) + Held[s] = SumFunctionOnSet(Held, Subs) + Held'[s]
    BY <1>11, <2>1, <2>2, SumUpdate
  <2>4. SumFunctionOnSet(Held', Subs) \in Nat
    BY <2>1, <2>2, SumType
  <2>5. QED
    BY <2>3, <2>4
<1>12. ASSUME NEW s \in Members, NEW evs \in Seq(Event), order' = order,
              outgoing' = [outgoing EXCEPT ![s] = outgoing[s] \o evs]
       PROVE  flow' = flow + Len(evs)
  <2>1. \A i, j \in 1..Len(order) : order[i] = order[j] => i = j
    BY OrderType
  <2>2. s \in ToSet(order)
    BY DEF Members
  <2>3. Len(FlattenSeq(Parts(order, outgoing'))) = Len(FlattenSeq(Parts(order, outgoing))) + Len(evs)
    <3> DEFINE more == outgoing'
    <3>1. Sends(outgoing, s, evs, more)
      BY <1>12 DEF Sends
    <3>2. order \in Seq(Subs) /\ outgoing \in [Subs -> Seq(Event)]
      BY <1>5
    <3> HIDE DEF more
    <3>3. NoneTwice(order)
      BY <2>1 DEF NoneTwice
    <3>4. Len(FlattenSeq(Parts(order, more))) = Len(FlattenSeq(Parts(order, outgoing))) + Len(evs)
      BY <2>2, <3>1, <3>2, <3>3, CollectedGrows
    <3>5. QED
      BY <3>4 DEF more
  <2>4. QED
    BY <1>6, <1>12, <2>3
<1>13. ASSUME order' = order, outgoing' = outgoing
       PROVE  flow' = flow
  BY <1>6, <1>13
<1> HIDE DEF flow, held
<1> DEFINE p0 == pending            p1 == pending'
           f0 == flow               f1 == flow'
           h0 == held               h1 == held'
           dropped == stats.dropped         dropped1 == stats'.dropped
           sent == stats.dispatched         sent1 == stats'.dispatched
           done == stats.processed          done1 == stats'.processed
           Even == /\ injected' + generated' = p1 + f1 + discarded' + replaced' + dropped1 + h1
                   /\ injected' + done1 = sent1 + dropped1 + discarded' + p1
                   /\ phase' = "stepping" => pending_events' = <<>>
<1>14. SUFFICES Even
  BY <1>4
<1>15. /\ injected + generated = p0 + f0 + discarded + replaced + dropped + h0
       /\ injected + done = sent + dropped + discarded + p0
       /\ f0 \in Nat /\ p0 \in Nat /\ h0 \in Nat
       /\ injected \in Nat /\ generated \in Nat /\ discarded \in Nat /\ replaced \in Nat
       /\ dropped \in Nat /\ sent \in Nat /\ done \in Nat
  BY <1>2
<1>16. ASSUME stats' = stats
       PROVE  dropped1 = dropped /\ sent1 = sent /\ done1 = done
  BY <1>16
<1>17. ASSUME pending_events' = pending_events
       PROVE  p1 = p0
  BY <1>17
<1> HIDE DEF p0, p1, f0, f1, h0, h1, dropped, dropped1, sent, sent1, done, done1
<1>21. ASSUME InitEngine \/ InitParallel
       PROVE  Even
  <2>1. /\ phase # "stepping" /\ phase' = phase /\ stats' = NoStats
        /\ inbox' = [s \in EventSubs |-> EmptyQueue] /\ buffered' = [s \in TickSubs |-> 0]
        /\ generated' = 0 /\ discarded' = 0 /\ replaced' = 0
        /\ injected' = pending'
        /\ UNCHANGED <<order, outgoing>>
    <3>1. Len(<<>>) = 0
      OBVIOUS
    <3>2. QED
      BY <1>21, <3>1 DEF InitEngine, InitParallel, InitExecutors
  <2>2. f1 = 0 /\ h1 = 0
    BY <1>8, <1>10, <1>13, <2>1 DEF f1, h1
  <2>3. p1 \in Nat /\ injected' = p1
    BY <1>1, <2>1 DEF TypeOK, p1
  <2>4. dropped1 = 0 /\ done1 = 0 /\ sent1 = 0
    BY <2>1 DEF NoStats, dropped1, done1, sent1
  <2>5. injected' + generated' = p1 + f1 + discarded' + replaced' + dropped1 + h1
    BY <2>1, <2>2, <2>3, <2>4
  <2>6. injected' + done1 = sent1 + dropped1 + discarded' + p1
    BY <2>1, <2>3, <2>4
  <2>7. QED
    BY <2>1, <2>5, <2>6
<1>22. ASSUME NEW s \in LateSubs, AddSubgraph(s)
       PROVE  Even
  <2>1. /\ phase = "idle" /\ replaced' = replaced + Stored(s)
        /\ inbox' = [q \in EventSubs |-> IF q = s THEN EmptyQueue ELSE inbox[q]]
        /\ buffered' = [q \in TickSubs |-> IF q = s THEN 0 ELSE buffered[q]]
        /\ UNCHANGED <<pending_events, phase, outgoing, stats, injected, generated, discarded>>
    BY <1>22 DEF AddSubgraph
  <2>2. s \in Subs
    BY DEF EngineAssumption
  <2>3. Held'[s] = 0 /\ Held[s] = Stored(s) /\ \A q \in Subs \ {s} : Held'[q] = Held[q]
    BY <2>1, <2>2 DEF Held, Stored, Subs, EmptyQueue
  <2> DEFINE old == Stored(s)
  <2>4. h1 + old = h0 /\ h1 \in Nat
    <3>1. h1 + Held[s] = h0 + Held'[s] /\ h1 \in Nat
      BY <1>11, <2>2, <2>3 DEF h0, h1
    <3>2. h1 + old = h0 + 0
      BY <2>3, <3>1
    <3>3. QED
      BY <1>15, <3>1, <3>2
  <2>5. f1 = 0 /\ f0 = 0
    <3>1. outgoing' = [q \in Subs |-> <<>>]
      BY <2>1 DEF Placed
    <3>2. QED
      BY <1>7, <1>8, <2>1, <3>1 DEF f0, f1
  <2>6. /\ p1 = p0 /\ old \in Nat /\ replaced' = replaced + old
        /\ dropped1 = dropped /\ sent1 = sent /\ done1 = done
        /\ injected' = injected /\ generated' = generated /\ discarded' = discarded
    BY <1>3, <1>16, <1>17, <2>1, <2>2, <2>3
  <2> HIDE DEF old
  <2>7. injected' + generated' = p1 + f1 + discarded' + replaced' + dropped1 + h1
    BY <1>15, <2>4, <2>5, <2>6
  <2>8. injected' + done1 = sent1 + dropped1 + discarded' + p1
    BY <1>15, <2>6
  <2>9. QED
    BY <2>1, <2>7, <2>8
<1>23. ASSUME \/ \E channel \in LateChannels : AddChannel(channel)
              \/ \E max \in 0..MaxTime : StartRun(max)
              \/ \E s \in Subs : StartWorker(s)
              \/ \E s \in Subs : LeaveSubgraph(s)
              \/ ReturnFromRun
              \/ UNCHANGED vars
       PROVE  Even
  <2>1. /\ phase' = "stepping" => phase = "stepping"
        /\ UNCHANGED <<order, pending_events, outgoing, stats, injected, generated, discarded, replaced,
                       inbox, buffered>>
    BY <1>23 DEF AddChannel, StartRun, StartWorker, LeaveSubgraph, ReturnFromRun, vars
  <2>2. f1 = f0 /\ h1 = h0 /\ p1 = p0 /\ dropped1 = dropped /\ sent1 = sent /\ done1 = done
    BY <1>9, <1>13, <1>16, <1>17, <2>1 DEF f0, f1, h0, h1
  <2>3. phase' = "stepping" => pending_events' = <<>>
    BY <1>2, <2>1
  <2>4. QED
    BY <1>15, <2>1, <2>2, <2>3
<1>24. ASSUME NEW msg \in Message, InjectEvent(msg)
       PROVE  Even
  <2>1. /\ phase = "idle" /\ phase' = phase /\ pending_events' = Append(pending_events, msg)
        /\ injected' = injected + 1
        /\ UNCHANGED <<order, outgoing, stats, generated, discarded, replaced, inbox, buffered>>
    BY <1>24 DEF InjectEvent
  <2>2. f1 = f0 /\ h1 = h0 /\ dropped1 = dropped /\ sent1 = sent /\ done1 = done
    BY <1>9, <1>13, <1>16, <2>1 DEF f0, f1, h0, h1
  <2>3. p1 = p0 + 1
    BY <2>1 DEF TypeOK, p0, p1
  <2>4. injected' + generated' = p1 + f1 + discarded' + replaced' + dropped1 + h1
    BY <1>15, <2>1, <2>2, <2>3
  <2>5. injected' + done1 = sent1 + dropped1 + discarded' + p1
    BY <1>15, <2>1, <2>2, <2>3
  <2>6. QED
    BY <2>1, <2>4, <2>5
<1>25. ASSUME BeginStep
       PROVE  Even
  <2> DEFINE addressed == {i \in DOMAIN pending_events : pending_events[i].dst # Custom}
             routed == {i \in addressed : FindSubgraph(pending_events[i].dst) # None}
             a == Cardinality(addressed)
             r == Cardinality(routed)
             group == [s \in Subs |-> Len(For(s))]
  <2>1. /\ inbox' = [s \in EventSubs |-> PushAll(inbox[s], For(s))]
        /\ buffered' = [s \in TickSubs |-> buffered[s] + Len(For(s))]
        /\ stats' = [stats EXCEPT !.dispatched = stats.dispatched + r, !.dropped = stats.dropped + a - r]
        /\ discarded' = discarded + Len(pending_events) - a
        /\ pending_events' = <<>>
        /\ UNCHANGED <<order, outgoing, injected, generated, replaced>>
    BY <1>25 DEF BeginStep
  <2>2. SumFunctionOnSet(group, Subs) = r
    BY GroupsMakeRouted
  <2>3. a \in Nat /\ r \in Nat
    <3>1. \A i \in DOMAIN pending_events : i \in 1..pending
      BY DEF TypeOK
    <3>2. IsFiniteSet(1..pending)
      <4>1. 1 \in Int /\ pending \in Int
        BY <1>2
      <4>2. QED
        BY <4>1, FS_Interval, Zenon
    <3> DEFINE all == 1..pending
    <3>3. IsFiniteSet(all) /\ addressed \in SUBSET all /\ routed \in SUBSET addressed
      BY <3>1, <3>2
    <3> HIDE DEF all, addressed, routed
    <3>4. QED
      BY <3>3, FS_Subset, FS_CardinalityType
  <2> HIDE DEF a, r
  <2>4. h1 = h0 + r
    <3>1. \A s \in Subs : Held[s] \in Nat /\ group[s] \in Nat /\ Held'[s] = Held[s] + group[s]
      <4> SUFFICES ASSUME NEW s \in Subs
                   PROVE  Held[s] \in Nat /\ group[s] \in Nat /\ Held'[s] = Held[s] + group[s]
        OBVIOUS
      <4>1. Len(For(s)) \in Nat
        BY ForType
      <4>2. CASE s \in EventSubs
        BY <1>3, <2>1, <4>1, <4>2 DEF Held, Stored, PushAll
      <4>3. CASE s \notin EventSubs
        <5>1. s \in TickSubs
          BY <4>3 DEF Subs
        <5>2. QED
          BY <1>3, <2>1, <4>1, <4>3, <5>1 DEF Held, Stored
      <4>4. QED
        BY <4>2, <4>3
    <3>2. IsFiniteSet(Subs)
      BY DEF EngineAssumption
    <3> HIDE DEF group
    <3>3. SumFunctionOnSet(Held', Subs) = SumFunctionOnSet(Held, Subs) + SumFunctionOnSet(group, Subs)
      BY <3>1, <3>2, SumPlus
    <3>4. QED
      BY <2>2, <3>3 DEF held, h0, h1
  <2>5. f1 = f0 /\ p1 = 0
    <3>1. Len(<<>>) = 0
      OBVIOUS
    <3>2. QED
      BY <1>13, <2>1, <3>1 DEF f0, f1, p1
  <2>6. sent1 = sent + r /\ dropped1 = dropped + a - r /\ done1 = done
    <3> DEFINE x == stats.dispatched + r
               y == stats.dropped + a - r
    <3>1. stats' = [stats EXCEPT !.dispatched = x, !.dropped = y]
      BY <2>1
    <3>2. stats \in [steps : Nat, processed : Nat, dispatched : Nat, dropped : Nat]
      BY DEF TypeOK
    <3> HIDE DEF x, y
    <3>3. stats'.dispatched = x /\ stats'.dropped = y /\ stats'.processed = stats.processed
      BY <3>1, <3>2
    <3>4. QED
      BY <3>3 DEF x, y, sent, sent1, dropped, dropped1, done, done1
  <2>7. /\ discarded' = discarded + p0 - a /\ injected' = injected /\ generated' = generated
        /\ replaced' = replaced
    BY <2>1 DEF p0
  <2>8. injected' + generated' = p1 + f1 + discarded' + replaced' + dropped1 + h1
    BY <1>15, <2>3, <2>4, <2>5, <2>6, <2>7
  <2>9. injected' + done1 = sent1 + dropped1 + discarded' + p1
    BY <1>15, <2>3, <2>5, <2>6, <2>7
  <2>10. QED
    BY <2>1, <2>8, <2>9
<1>26. ASSUME NEW s \in EventSubs, NEW e \in EntrySet(Message), NEW answer \in Seq(Event),
              ProcessEvent(s, e, answer)
       PROVE  Even
  <2> DEFINE mine == {i \in DOMAIN answer : answer[i].dst \in Nodes /\ Home[answer[i].dst] = s}
             rest == DOMAIN answer \ mine
             here == Kept(answer, mine)
             there == Kept(answer, rest)
             msgs == Messages(here)
             n == Len(answer)
  <2>1. /\ s \in running /\ e \in inbox[s].entries
        /\ inbox' = [inbox EXCEPT ![s] = PushAll(Without(inbox[s], {e}), msgs)]
        /\ outgoing' = [outgoing EXCEPT ![s] = outgoing[s] \o there]
        /\ generated' = generated + n
        /\ UNCHANGED <<order, pending_events, phase, stats, injected, discarded, replaced, buffered>>
    BY <1>26 DEF ProcessEvent, IsFirst
  <2>2. Len(here) + Len(there) = n /\ Len(here) \in Nat /\ Len(there) \in Nat /\ n \in Nat
    <3> DEFINE all == 1..n
    <3>1. DOMAIN answer = all /\ n \in Nat
      OBVIOUS
    <3>2. IsFiniteSet(all) /\ Cardinality(all) = n
      <4>1. 1 \in Int /\ n \in Int
        OBVIOUS
      <4>2. IsFiniteSet(1..n) /\ Cardinality(1..n) = IF 1 > n THEN 0 ELSE n - 1 + 1
        BY <4>1, FS_Interval, Zenon
      <4>3. QED
        BY <3>1, <4>2
    <3>3. mine \in SUBSET all /\ rest = all \ mine
      BY <3>1
    <3> HIDE DEF mine, rest, n
    <3>4. Len(here) = Cardinality(mine \cap all) /\ Len(there) = Cardinality(rest \cap all)
      BY KeptLength DEF n
    <3>5. mine \cap all = mine /\ rest \cap all = all \ mine
      BY <3>3
    <3> HIDE DEF all, here, there
    <3>6. IsFiniteSet(mine) /\ IsFiniteSet(all \ mine)
      BY <3>2, <3>3, FS_Subset, FS_Difference
    <3>7. Cardinality(all \ mine) = Cardinality(all) - Cardinality(all \cap mine)
      BY <3>2, FS_Difference
    <3>8. all \cap mine = mine
      BY <3>3
    <3>9. Cardinality(mine) \in Nat /\ Cardinality(all \ mine) \in Nat
      BY <3>6, FS_CardinalityType
    <3> DEFINE a == Cardinality(mine)
               b == Cardinality(all \ mine)
    <3>10. b = n - a /\ Len(here) = a /\ Len(there) = b /\ a \in Nat /\ b \in Nat
      BY <3>2, <3>4, <3>5, <3>7, <3>8, <3>9
    <3> HIDE DEF a, b
    <3>11. a + b = n
      BY <3>1, <3>10
    <3>12. QED
      BY <3>1, <3>10, <3>11
  <2>3. here \in Seq(Event) /\ there \in Seq(Event)
    <3>1. Len(answer) \in Nat /\ \A i \in 1..Len(answer) : answer[i] \in Event
      OBVIOUS
    <3> HIDE DEF mine, rest
    <3>2. QED
      BY <3>1, KeptType
  <2> DEFINE kept == Len(here)
             left == Len(there)
  <2> HIDE DEF mine, rest, here, there, n
  <2>4. Len(msgs) = Len(here)
    <3>1. DOMAIN msgs = DOMAIN here
      BY DEF Messages
    <3>2. msgs \in Seq(Message)
      BY <2>1, <2>3, AnswerType
    <3> HIDE DEF msgs
    <3>3. QED
      BY <2>3, <3>1, <3>2
  <2> HIDE DEF msgs
  <2>5. s \in Subs /\ s \in Members
    BY <2>1 DEF Subs, Placed
  <2>6. f1 = f0 + left
    BY <1>12, <2>1, <2>3, <2>5 DEF f0, f1
  <2>7. Held'[s] = Held[s] + Len(here) /\ \A q \in Subs \ {s} : Held'[q] = Held[q]
    <3>1. inbox'[s].counter = inbox[s].counter + Len(here)
      <4>1. inbox'[s] = PushAll(Without(inbox[s], {e}), msgs)
        BY <2>1 DEF TypeOK
      <4>2. QED
        BY <2>4, <4>1 DEF PushAll, Without
    <3>2. \A q \in EventSubs \ {s} : inbox'[q] = inbox[q]
      BY <2>1 DEF TypeOK
    <3>3. QED
      BY <2>1, <2>5, <3>1, <3>2 DEF Held, Stored
  <2> DEFINE before == Held[s]
             after == Held'[s]
  <2>8. h1 = h0 + kept
    <3>1. before \in Nat /\ after = before + kept /\ kept \in Nat
      BY <1>3, <2>2, <2>5, <2>7
    <3>2. after \in Nat
      <4> HIDE DEF before, after, kept
      <4>1. QED
        BY <3>1
    <3>3. h1 + before = h0 + after /\ h1 \in Nat
      BY <1>11, <2>5, <2>7, <3>2 DEF h0, h1
    <3> HIDE DEF before, after, kept
    <3>4. QED
      BY <1>15, <3>1, <3>2, <3>3
  <2>9. kept + left = n /\ kept \in Nat /\ left \in Nat
    BY <2>2
  <2> HIDE DEF kept, left
  <2>10. /\ p1 = p0 /\ dropped1 = dropped /\ sent1 = sent /\ done1 = done
         /\ injected' = injected /\ generated' = generated + n /\ discarded' = discarded
         /\ replaced' = replaced
    BY <1>16, <1>17, <2>1
  <2>11. injected' + generated' = p1 + f1 + discarded' + replaced' + dropped1 + h1
    <3>1. generated' = generated + (kept + left)
      BY <2>9, <2>10
    <3>2. injected + generated + (kept + left)
            = p0 + (f0 + left) + discarded + replaced + dropped + (h0 + kept)
      BY <1>15, <2>9
    <3>3. injected + generated + (kept + left) = injected + (generated + (kept + left))
      BY <1>15, <2>9
    <3>4. QED
      BY <2>6, <2>8, <2>10, <3>1, <3>2, <3>3
  <2>12. injected' + done1 = sent1 + dropped1 + discarded' + p1
    BY <1>15, <2>10
  <2>13. phase' = "stepping" => pending_events' = <<>>
    BY <1>2, <2>1
  <2>14. QED
    BY <2>11, <2>12, <2>13
<1>27. ASSUME NEW s \in TickSubs, NEW output \in Seq(Event), Tick(s, output)
       PROVE  Even
  <2>1. /\ s \in running /\ outgoing' = [outgoing EXCEPT ![s] = outgoing[s] \o output]
        /\ generated' = generated + Len(output)
        /\ UNCHANGED <<order, pending_events, phase, stats, injected, discarded, replaced, inbox, buffered>>
    BY <1>27 DEF Tick
  <2>2. s \in Members /\ Len(output) \in Nat
    BY <2>1 DEF Placed
  <2> DEFINE k == Len(output)
  <2>3. f1 = f0 + k /\ h1 = h0
    BY <1>9, <1>12, <2>1, <2>2 DEF f0, f1, h0, h1
  <2>4. /\ p1 = p0 /\ dropped1 = dropped /\ sent1 = sent /\ done1 = done
        /\ generated' = generated + k /\ k \in Nat
        /\ injected' = injected /\ discarded' = discarded /\ replaced' = replaced
    BY <1>16, <1>17, <2>1, <2>2
  <2> HIDE DEF k
  <2>5. injected' + generated' = p1 + f1 + discarded' + replaced' + dropped1 + h1
    BY <1>15, <2>3, <2>4
  <2>6. injected' + done1 = sent1 + dropped1 + discarded' + p1
    BY <1>15, <2>4
  <2>7. phase' = "stepping" => pending_events' = <<>>
    BY <1>2, <2>1
  <2>8. QED
    BY <2>5, <2>6, <2>7
<1>28. ASSUME EndStep
       PROVE  Even
  <2>1. /\ phase = "stepping" /\ phase' = "looping"
        /\ pending_events' = [i \in DOMAIN Collected |-> Deliver(Collected[i])]
        /\ outgoing' = [s \in Subs |-> <<>>]
        /\ stats' = [stats EXCEPT !.steps = stats.steps + 1, !.processed = stats.processed + f0]
        /\ UNCHANGED <<order, injected, generated, discarded, replaced, inbox, buffered>>
    BY <1>28 DEF EndStep, flow, f0
  <2>2. p1 = f0 /\ p0 = 0
    <3>1. Collected \in Seq(Event)
      BY CollectedType
    <3>2. pending_events' \in Seq(Message)
      BY <1>1 DEF TypeOK
    <3>3. DOMAIN pending_events' = DOMAIN Collected
      BY <2>1
    <3>4. Len(<<>>) = 0
      OBVIOUS
    <3>5. QED
      BY <1>2, <2>1, <3>1, <3>2, <3>3, <3>4 DEF flow, f0, p0, p1
  <2>3. f1 = 0 /\ h1 = h0
    BY <1>7, <1>9, <2>1 DEF f1, h0, h1
  <2>4. done1 = done + f0 /\ dropped1 = dropped /\ sent1 = sent
    <3> DEFINE x == stats.steps + 1
               y == stats.processed + f0
    <3>1. stats' = [stats EXCEPT !.steps = x, !.processed = y]
      BY <2>1
    <3>2. stats \in [steps : Nat, processed : Nat, dispatched : Nat, dropped : Nat]
      BY DEF TypeOK
    <3> HIDE DEF x, y
    <3>3. stats'.processed = y /\ stats'.dropped = stats.dropped /\ stats'.dispatched = stats.dispatched
      BY <3>1, <3>2
    <3>4. QED
      BY <3>3 DEF y, sent, sent1, dropped, dropped1, done, done1
  <2>5. /\ injected' = injected /\ generated' = generated /\ discarded' = discarded
        /\ replaced' = replaced
    BY <2>1
  <2>6. injected' + generated' = p1 + f1 + discarded' + replaced' + dropped1 + h1
    BY <1>15, <2>2, <2>3, <2>4, <2>5
  <2>7. injected' + done1 = sent1 + dropped1 + discarded' + p1
    BY <1>15, <2>2, <2>4, <2>5
  <2>8. QED
    BY <2>1, <2>6, <2>7
<1>29. QED
  BY <1>21, <1>22, <1>23, <1>24, <1>25, <1>26, <1>27, <1>28, StepCases

\* No event is lost or duplicated between the engine and its executors, and the
\* statistics agree: every event injected or generated is in exactly one of the
\* places Conserved lists, for any subgraphs, channels and numbers of events, and
\* with workers in parallel too.  Balanced is the inductive invariant: a round has
\* to begin with everything dispatched, for only then nothing is counted twice
\* when it ends.
THEOREM NothingIsLost == Spec \/ ParallelSpec => []Conserved
<1>1. ASSUME Init  PROVE Balanced
  <2>1. /\ injected = 0 /\ generated = 0 /\ discarded = 0 /\ replaced = 0 /\ stats = NoStats
        /\ pending_events = <<>> /\ phase = "idle" /\ outgoing = [s \in Subs |-> <<>>]
        /\ inbox = [s \in EventSubs |-> EmptyQueue] /\ buffered = [s \in TickSubs |-> 0]
    BY <1>1 DEF Init
  <2>2. TypeOK /\ Placed
    BY <1>1, TypeInit, EngineAssumption
  <2>3. Len(Collected) = 0
    <3>1. order \in Seq(Subs)
      BY <2>2, OrderType, EngineAssumption
    <3>2. outgoing \in [Subs -> Seq(Event)] /\ \A s \in Subs : outgoing[s] = <<>>
      BY <2>1, <2>2 DEF TypeOK
    <3>3. Collected = FlattenSeq(Parts(order, outgoing))
      BY DEF Collected, Parts
    <3>4. QED
      BY <3>1, <3>2, <3>3, CollectedNone
  <2>4. SumFunctionOnSet(Held, Subs) = 0
    <3>1. \A s \in Subs : Held[s] = 0
      BY <2>1 DEF Held, Stored, Subs, EmptyQueue
    <3>2. QED
      BY <3>1, SumZero, EngineAssumption DEF EngineAssumption
  <2>5. Len(pending_events) = 0 /\ stats.dropped = 0 /\ stats.processed = 0 /\ stats.dispatched = 0
    BY <2>1 DEF NoStats
  <2>6. QED
    BY <2>1, <2>2, <2>3, <2>4, <2>5, Accounts, EngineAssumption
<1>2. Balanced => Conserved
  BY DEF Balanced
<1>3. QED
  BY <1>1, <1>2, BalancedStep, Foundation, StepOfBoth, EngineAssumption, WidthAssumption, PTL DEF Spec, ParallelSpec

-------------------------------------------------------------------------------
\* Only AddSubgraph changes which subgraphs there are.
LEMMA MembersStay ==
  ASSUME EngineAssumption, TypeOK, LateSubs = {}, [Step]_vars
  PROVE  Members' = Members
<1>1. order' = order
  <2>1. CASE UNCHANGED vars
    BY <2>1 DEF vars, network
  <2>2. CASE Step
    BY <2>2, StepCases
       DEF network, InitEngine, InitParallel, AddChannel, InjectEvent, StartRun, BeginStep,
           StartWorker, ProcessEvent, Tick, LeaveSubgraph, EndStep, ReturnFromRun
  <2>3. QED
    BY <2>1, <2>2
<1>2. QED
  BY <1>1 DEF Members

\* A round begins with BeginStep only.
LEMMA RoundBegins ==
  ASSUME EngineAssumption, TypeOK, [Step]_vars, phase = "looping", phase' = "stepping"
  PROVE  BeginStep
<1>1. CASE UNCHANGED vars
  BY <1>1 DEF vars
<1>2. CASE Step
  BY <1>2, StepCases
     DEF InitEngine, InitParallel, AddSubgraph, AddChannel, InjectEvent, StartRun,
         StartWorker, ProcessEvent, Tick, LeaveSubgraph, EndStep, ReturnFromRun
<1>3. QED
  BY <1>1, <1>2

\* Every subgraph is handed its group of the pending events.
LEMMA HandedOver ==
  ASSUME EngineAssumption, TypeOK, BeginStep, NEW s \in Subs
  PROVE  Stored(s)' = Stored(s) + Len(For(s))
<1>1. /\ inbox' = [q \in EventSubs |-> PushAll(inbox[q], For(q))]
      /\ buffered' = [q \in TickSubs |-> buffered[q] + Len(For(q))]
  BY DEF BeginStep
<1>2. CASE s \in EventSubs
  BY <1>1, <1>2 DEF Stored, PushAll
<1>3. CASE s \notin EventSubs
  <2>1. s \in TickSubs
    BY <1>3 DEF Subs
  <2>2. QED
    BY <1>1, <1>3, <2>1 DEF Stored
<1>4. QED
  BY <1>2, <1>3

\* With ids that follow the convention and no subgraph missing, both engines hand
\* each subgraph the events for its own nodes and no others (engine.rs:216).
THEOREM EventsFindTheirSubgraph ==
  ASSUME IdsByPrefix, LateSubs = {}
  PROVE  Spec \/ ParallelSpec => EachToItsSubgraph
<1> DEFINE Mine(s) == {i \in DOMAIN pending_events :
                         pending_events[i].dst # Custom /\ Home[pending_events[i].dst] = s}
           Handed == phase = "looping" /\ phase' = "stepping" =>
                       \A s \in Subs : Stored(s)' - Stored(s) = Cardinality(Mine(s))
<1>1. Init => Members = Subs
  <2> SUFFICES ASSUME Init  PROVE Members = Subs
    OBVIOUS
  <2>1. order \in SetToSeqs(Subs) /\ IsFiniteSet(Subs)
    BY EngineAssumption DEF Init, EngineAssumption
  <2>2. QED
    BY <2>1, OrderOfSet DEF Members
<1>2. TypeOK /\ Members = Subs /\ [Step]_vars => (Members = Subs)'
  BY EngineAssumption, MembersStay DEF Subs
<1>3. TypeOK /\ Placed /\ Members = Subs /\ [Step]_vars => [Handed]_vars
  <2> SUFFICES ASSUME TypeOK, Placed, Members = Subs, [Step]_vars, phase = "looping", phase' = "stepping",
                      NEW s \in Subs
               PROVE  Stored(s)' - Stored(s) = Cardinality(Mine(s))
    OBVIOUS
  <2> DEFINE I == {i \in DOMAIN pending_events :
                     pending_events[i].dst # Custom /\ FindSubgraph(pending_events[i].dst) = s}
  <2>1. Stored(s)' = Stored(s) + Len(For(s)) /\ Stored(s) \in Nat
    BY EngineAssumption, RoundBegins, HandedOver, StoredType
  <2>2. pending_events \in Seq(Message) /\ DOMAIN pending_events = 1..Len(pending_events)
    BY DEF TypeOK
  <2>3. Len(For(s)) = Cardinality(I \cap (1..Len(pending_events)))
    <3>1. For(s) = Kept(pending_events, I)
      BY DEF For
    <3> HIDE DEF I
    <3>2. QED
      BY <2>2, <3>1, KeptLength
  <2>4. I \cap (1..Len(pending_events)) = Mine(s)
    <3>1. \A i \in DOMAIN pending_events : pending_events[i].dst # Custom =>
            FindSubgraph(pending_events[i].dst) = Home[pending_events[i].dst]
      <4> SUFFICES ASSUME NEW i \in DOMAIN pending_events, pending_events[i].dst # Custom
                   PROVE  FindSubgraph(pending_events[i].dst) = Home[pending_events[i].dst]
        OBVIOUS
      <4>1. pending_events[i] \in Message
        BY <2>2
      <4>2. pending_events[i].dst \in Nodes
        BY <4>1 DEF Message
      <4>3. QED
        BY <4>2, EngineAssumption, HomeIsFound
    <3>2. QED
      BY <2>2, <3>1
  <2> HIDE DEF I, Mine
  <2>5. Len(For(s)) = Cardinality(Mine(s))
    BY <2>3, <2>4, Zenon
  <2>6. Len(For(s)) \in Nat
    <3>1. For(s) \in Seq(Message)
      BY EngineAssumption, ForType
    <3>2. QED
      BY <3>1
  <2>7. Stored(s)' - Stored(s) = Len(For(s))
    BY <2>1, <2>6
  <2>8. QED
    BY <2>5, <2>7, Zenon
<1>4. QED
  BY <1>1, <1>2, <1>3, Foundation, StepOfBoth, PTL DEF Spec, ParallelSpec, EachToItsSubgraph
===============================================================================

------------------------------ MODULE BuiltInNodes ------------------------------
(***************************************************************************)
(* The event-driven nodes of src/nodes as operators on their values: what  *)
(* new and the builders make, what init resets, and what on_event does.    *)
(*                                                                         *)
(* A handler's result is the node's next value and the Vec it returns.     *)
(* Where the code draws from its generator, the handler has one result for *)
(* every value the draw can have; seeds are not kept.                      *)
(*                                                                         *)
(* Of a payload three things are kept: whether it has the key and value    *)
(* that MatchKey looks for, the sequence number written into it last and   *)
(* by whom, and, as history, which item it is and when that was sent.      *)
(* Only messages are modelled: an executor finds no destination for a      *)
(* Custom event and hands it to no node.                                   *)
(***************************************************************************)
EXTENDS Naturals, Sequences, FiniteSets

CONSTANTS
  Nobody,     \* forward_to: None
  MaxSample   \* bound: samples of a distribution without an upper end

\* Ids: the nodes there may be.
Data(Ids) == [item : Nat, sent : Nat, matches : BOOLEAN,
              number : Seq([by : Ids, seq : Nat])]

Message(time, src, dst, data) == [time |-> time, src |-> src, dst |-> dst, data |-> data]

Result(n, out) == [node |-> n, out |-> out]

\* Smaller and larger of an Option, a sequence of at most one value, and a value.
OptMin(opt, x) == IF opt # <<>> /\ opt[1] < x THEN opt ELSE <<x>>
OptMax(opt, x) == IF opt # <<>> /\ opt[1] > x THEN opt ELSE <<x>>

-------------------------------------------------------------------------------
\* DelayNode.  Ids are the possible targets, Ds the possible delays.
DelayNode(Ids, Ds) ==
  [kind : {"delay"}, forward_to : Ids \cup {Nobody}, delay : Ds,
   processed : Nat, forwarded : Nat]

NewDelay(delay, to) ==
  [kind |-> "delay", forward_to |-> to, delay |-> delay, processed |-> 0, forwarded |-> 0]

\* Mutant: the stamp is not relative to the event's.
DelayAbsolute(id, n, ev) ==
  {Result([n EXCEPT !.processed = @ + 1, !.forwarded = @ + (IF n.forward_to = Nobody THEN 0 ELSE 1)],
          IF n.forward_to = Nobody THEN <<>>
          ELSE <<Message(n.delay, id, n.forward_to, ev.data)>>)}

DelayOnEvent(id, n, ev) ==
  LET seen == [n EXCEPT !.processed = @ + 1]
  IN  IF n.forward_to = Nobody THEN {Result(seen, <<>>)}
      ELSE {Result([seen EXCEPT !.forwarded = @ + 1],
                   <<Message(ev.time + n.delay, id, n.forward_to, ev.data)>>)}

-------------------------------------------------------------------------------
\* ProbabilisticDelayNode, with the distributions it samples.
Fixed(delay) == [law |-> "Fixed", min |-> delay, max |-> delay]
Uniform(min, max) == [law |-> "Uniform", min |-> min, max |-> max]
Normal == [law |-> "Normal", min |-> 0, max |-> MaxSample]
Exponential == [law |-> "Exponential", min |-> 0, max |-> MaxSample]

\* What sample may return.  A uniform range that is empty or turned around
\* yields its min; a negative normal or exponential value is clamped to 0.
Support(dist) == IF dist.min >= dist.max THEN {dist.min} ELSE dist.min..dist.max

Distribution(Ds) ==
  {dist \in [law : {"Fixed", "Uniform", "Normal", "Exponential"}, min : Nat, max : Nat] :
     Support(dist) \subseteq Ds}

ProbabilisticDelayNode(Ids, Ds) ==
  [kind : {"probabilistic"}, forward_to : Ids \cup {Nobody}, distribution : Distribution(Ds),
   processed : Nat, total_delay : Nat, min_delay : Seq(Nat), max_delay : Seq(Nat)]

NewProbabilistic(dist, to) ==
  [kind |-> "probabilistic", forward_to |-> to, distribution |-> dist,
   processed |-> 0, total_delay |-> 0, min_delay |-> <<>>, max_delay |-> <<>>]

\* Mutant: the minimum starts from the default 0 instead of None.
UpdateFromDefault(n, delay) ==
  [n EXCEPT !.total_delay = @ + delay,
            !.min_delay = IF @ = <<>> THEN <<0>> ELSE OptMin(@, delay),
            !.max_delay = OptMax(@, delay)]

UpdateStats(n, delay) ==
  [n EXCEPT !.total_delay = @ + delay,
            !.min_delay = OptMin(@, delay), !.max_delay = OptMax(@, delay)]

ProbabilisticOnEvent(id, n, ev) ==
  LET seen == [n EXCEPT !.processed = @ + 1]
  IN  IF n.forward_to = Nobody THEN {Result(seen, <<>>)}
      ELSE {Result(UpdateStats(seen, delay),
                   <<Message(ev.time + delay, id, n.forward_to, ev.data)>>)
              : delay \in Support(n.distribution)}

-------------------------------------------------------------------------------
\* EnhancedPassThroughNode.  Sample's rate is part of the filter.
PassAll == [mode |-> "PassAll"]
MatchKey == [mode |-> "MatchKey"]
Sample(rate) == [mode |-> "Sample", rate |-> rate]
DropRandom == [mode |-> "DropRandom"]

Transforms == {"None", "AddTimestamp", "AddSequence", "AddMetadata", "Wrap"}

FilterMode == {PassAll, MatchKey, DropRandom} \cup [mode : {"Sample"}, rate : Nat \ {0}]

EnhancedPassThroughNode(Ids) ==
  [kind : {"enhanced"}, forward_to : Ids \cup {Nobody}, filter : FilterMode,
   transform : Transforms, event_counter : Nat, sequence : Nat,
   received : Nat, passed : Nat, filtered : Nat]

NewEnhanced(filter, transform, to) ==
  [kind |-> "enhanced", forward_to |-> to, filter |-> filter, transform |-> transform,
   event_counter |-> 0, sequence |-> 0, received |-> 0, passed |-> 0, filtered |-> 0]

\* passes_filter, of the node whose event_counter on_event has advanced.
Verdicts(n, ev) ==
  CASE n.filter.mode = "PassAll"    -> {TRUE}
    [] n.filter.mode = "MatchKey"   -> {ev.data.matches}
    [] n.filter.mode = "Sample"     -> {n.event_counter % n.filter.rate = 0}
    [] n.filter.mode = "DropRandom" -> BOOLEAN

Numbers(n) == n.transform \in {"AddSequence", "AddMetadata"}

\* transform_data: stamping leaves the content, except of a payload that is no
\* object, which has no keys anyway; Wrap hides the content's keys and uses the
\* sequence number without advancing it.
Transformed(id, n, data) ==
  LET number == <<[by |-> id, seq |-> n.sequence]>>
  IN  CASE Numbers(n)           -> [data EXCEPT !.number = number]
        [] n.transform = "Wrap" -> [data EXCEPT !.number = number, !.matches = FALSE]
        [] OTHER                -> data

\* Mutant: the number advances with every event, passed or not.
EnhancedOnEventCounting(id, n, ev) ==
  LET seen == [n EXCEPT !.received = @ + 1, !.event_counter = @ + 1,
                        !.sequence = @ + (IF Numbers(n) THEN 1 ELSE 0)]
      passed == [seen EXCEPT !.passed = @ + 1]
      handle(passes) ==
        IF ~passes THEN Result([seen EXCEPT !.filtered = @ + 1], <<>>)
        ELSE IF n.forward_to = Nobody THEN Result(seen, <<>>)
        ELSE Result(passed, <<Message(ev.time, id, n.forward_to, Transformed(id, n, ev.data))>>)
  IN  {handle(passes) : passes \in Verdicts(seen, ev)}

\* An event that passes but has nowhere to go is in neither counter.
EnhancedOnEvent(id, n, ev) ==
  LET seen == [n EXCEPT !.received = @ + 1, !.event_counter = @ + 1]
      passed == [seen EXCEPT !.passed = @ + 1,
                             !.sequence = @ + (IF Numbers(n) THEN 1 ELSE 0)]
      handle(passes) ==
        IF ~passes THEN Result([seen EXCEPT !.filtered = @ + 1], <<>>)
        ELSE IF n.forward_to = Nobody THEN Result(seen, <<>>)
        ELSE Result(passed, <<Message(ev.time, id, n.forward_to, Transformed(id, n, ev.data))>>)
  IN  {handle(passes) : passes \in Verdicts(seen, ev)}

-------------------------------------------------------------------------------
\* SimplePassThrough counts what it forwards; the mock PassThroughNode always
\* has a target.
SimplePassThrough(Ids) == [kind : {"simple"}, forward_to : Ids \cup {Nobody}, count : Nat]
PassThroughNode(Ids) == [kind : {"passthrough"}, forward_to : Ids, count : Nat]
NewSimple(to) == [kind |-> "simple", forward_to |-> to, count |-> 0]
NewPassThrough(to) == [kind |-> "passthrough", forward_to |-> to, count |-> 0]

SimpleOnEvent(id, n, ev) ==
  IF n.forward_to = Nobody THEN {Result(n, <<>>)}
  ELSE {Result([n EXCEPT !.count = @ + 1],
               <<Message(ev.time, id, n.forward_to, ev.data)>>)}

PassThroughOnEvent(id, n, ev) ==
  {Result([n EXCEPT !.count = @ + 1], <<Message(ev.time, id, n.forward_to, ev.data)>>)}

-------------------------------------------------------------------------------
\* CounterNode, EchoNode, SourceNode.
CounterNode == [kind : {"counter"}, events : Nat]
EchoNode(Ds) == [kind : {"echo"}, delay : Ds, echoed : Nat]
SourceNode(Ids) == [kind : {"source"}, target : Ids, generated : Nat]
NewCounter == [kind |-> "counter", events |-> 0]
NewEcho(delay) == [kind |-> "echo", delay |-> delay, echoed |-> 0]
NewSource(to) == [kind |-> "source", target |-> to, generated |-> 0]

CounterOnEvent(n) == {Result([n EXCEPT !.events = @ + 1], <<>>)}

\* The answer goes to whoever sent the event.
EchoOnEvent(id, n, ev) ==
  {Result([n EXCEPT !.echoed = @ + 1], <<Message(ev.time + n.delay, id, ev.src, ev.data)>>)}

\* SourceNode::on_tick; its number is in the data it sends.
SourceOnTick(id, n, time, matches) ==
  LET made == [n EXCEPT !.generated = @ + 1]
      data == [item |-> made.generated, sent |-> time, matches |-> matches, number |-> <<>>]
  IN  Result(made, <<Message(time, id, n.target, data)>>)

-------------------------------------------------------------------------------
\* Any of them.
Node(Ids, Ds) ==
  DelayNode(Ids, Ds) \cup ProbabilisticDelayNode(Ids, Ds) \cup EnhancedPassThroughNode(Ids)
    \cup SimplePassThrough(Ids) \cup PassThroughNode(Ids)
    \cup CounterNode \cup EchoNode(Ds) \cup SourceNode(Ids)

\* Node::init: counters and Options as new made them, configuration kept.
Reset(n) ==
  CASE n.kind = "delay"         -> NewDelay(n.delay, n.forward_to)
    [] n.kind = "probabilistic" -> NewProbabilistic(n.distribution, n.forward_to)
    [] n.kind = "enhanced"      -> NewEnhanced(n.filter, n.transform, n.forward_to)
    [] n.kind = "simple"        -> NewSimple(n.forward_to)
    [] n.kind = "passthrough"   -> NewPassThrough(n.forward_to)
    [] n.kind = "counter"       -> NewCounter
    [] n.kind = "echo"          -> NewEcho(n.delay)
    [] n.kind = "source"        -> NewSource(n.target)

\* Node::on_event of each kind; a source has the trait's default.
OnEvent(id, n, ev) ==
  CASE n.kind = "delay"         -> DelayOnEvent(id, n, ev)
    [] n.kind = "probabilistic" -> ProbabilisticOnEvent(id, n, ev)
    [] n.kind = "enhanced"      -> EnhancedOnEvent(id, n, ev)
    [] n.kind = "simple"        -> SimpleOnEvent(id, n, ev)
    [] n.kind = "passthrough"   -> PassThroughOnEvent(id, n, ev)
    [] n.kind = "counter"       -> CounterOnEvent(n)
    [] n.kind = "echo"          -> EchoOnEvent(id, n, ev)
    [] n.kind = "source"        -> {Result(n, <<>>)}

\* A simple pass-through counts only what it forwards, and a source nothing.
CountsAll(n) == n.kind # "source" /\ (n.kind = "simple" => n.forward_to # Nobody)

\* Whatever the node forwards takes the same time.
ForwardsInOrder(n) ==
  \/ n.kind \in {"enhanced", "simple", "passthrough", "delay"}
  \/ n.kind = "probabilistic" /\ Cardinality(Support(n.distribution)) = 1

\* Events the node's statistics say it was handed, and answered.
Handled(n) ==
  CASE n.kind \in {"delay", "probabilistic"} -> n.processed
    [] n.kind = "enhanced"                   -> n.received
    [] n.kind \in {"simple", "passthrough"}  -> n.count
    [] n.kind = "counter"                    -> n.events
    [] n.kind = "echo"                       -> n.echoed
    [] n.kind = "source"                     -> 0

Answered(n) ==
  CASE n.kind = "delay"                      -> n.forwarded
    [] n.kind = "probabilistic"              -> IF n.forward_to = Nobody THEN 0 ELSE n.processed
    [] n.kind = "enhanced"                   -> n.passed
    [] n.kind \in {"simple", "passthrough"}  -> n.count
    [] n.kind = "echo"                       -> n.echoed
    [] n.kind \in {"counter", "source"}      -> 0
===============================================================================

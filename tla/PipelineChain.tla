----------------------------- MODULE PipelineChain -----------------------------
(***************************************************************************)
(* The stages that Pipeline::create_stages (src/nodes/pipeline.rs:314-374) *)
(* builds, as a chain.  Nothing in src/ sends a stage the downstream_ready *)
(* signal, and a tick executor keeps events for its nodes to itself, so    *)
(* who carries the items and the signals is the user's driver, as in       *)
(* tests/nodes_test.rs.  Either it does so in any order and with any delay,*)
(* or it is synchronous: before every tick it has delivered every item and *)
(* told each stage whether the next one can accept.                        *)
(***************************************************************************)
EXTENDS PipelineStage

CONSTANTS
  NumStages,   \* length of stage_latencies, for each driver: see synchronous
  Latencies,   \* latency_cycles that a stage may be built with
  Depths,      \* queue_depth that the stages may be built with
  MaxItems,    \* bound, by driver: items offered to the first stage between two inits
  MaxCycles    \* bound, by driver: ticks between two inits

ASSUME ChainAssumption ==
  /\ NumStages \in [BOOLEAN -> Nat \ {0}]
  /\ Latencies \subseteq Nat
  /\ Depths \subseteq Nat \cup {Unlimited}
  /\ MaxItems \in [BOOLEAN -> Nat] /\ MaxCycles \in [BOOLEAN -> Nat]

VARIABLES
  stage,        \* the nodes, in the order of the pipeline
  wire,         \* wire[i]: items on their way to stage i
  synchronous,  \* which driver it is
  offered,      \* items offered so far; an item's data is its number
  left,         \* history: what left each stage in the last step, if a tick
  done          \* history: the data of what left the last stage

vars == <<stage, wire, synchronous, offered, left, done>>

FinalStage == NumStages[synchronous]
Stages == 1..FinalStage
None == [i \in Stages |-> <<>>]
Ticks == Cycles(stage[1])

\* Pipeline::new and create_stages: one depth for all, no next after the last.
Init ==
  /\ synchronous \in BOOLEAN
  /\ \E latency \in [Stages -> Latencies], depth \in Depths :
       stage = [i \in Stages |-> NewStage(latency[i], depth, i < FinalStage)]
  /\ wire = None /\ left = None
  /\ offered = 0 /\ done = <<>>

InitNodes ==
  /\ stage' = [i \in Stages |-> InitStage(stage[i])]
  /\ wire' = None /\ left' = None
  /\ offered' = 0 /\ done' = <<>>
  /\ UNCHANGED synchronous

Offer ==
  /\ offered < MaxItems[synchronous]
  /\ stage' = [stage EXCEPT ![1] = Receive(@, offered)]
  /\ offered' = offered + 1
  /\ left' = None
  /\ UNCHANGED <<wire, synchronous, done>>

Deliver(i) ==
  /\ wire[i] # <<>>
  /\ stage' = [stage EXCEPT ![i] = Receive(@, Head(wire[i]))]
  /\ wire' = [wire EXCEPT ![i] = Tail(@)]
  /\ left' = None
  /\ UNCHANGED <<synchronous, offered, done>>

\* A synchronous driver tells the truth.
Signal(i, ready) ==
  /\ i < FinalStage
  /\ synchronous => ready = CanAccept(stage[i + 1])
  /\ stage' = [stage EXCEPT ![i] = SignalReady(@, ready)]
  /\ left' = None
  /\ UNCHANGED <<wire, synchronous, offered, done>>

UpToDate ==
  /\ wire = None
  /\ \A i \in 1..(FinalStage - 1) : stage[i].downstream_ready = CanAccept(stage[i + 1])

\* One tick of the executor that holds the nodes: on_tick of every stage, whose
\* output nobody sees before the tick is over.
TickAll ==
  LET after == [i \in Stages |-> OnTick(stage[i])]
  IN  /\ Ticks < MaxCycles[synchronous]
      /\ synchronous => UpToDate
      /\ stage' = [i \in Stages |-> after[i].stage]
      /\ left' = [i \in Stages |-> after[i].left]
      /\ wire' = [i \in Stages |->
           IF i = 1 THEN <<>> ELSE wire[i] \o Output(stage[i - 1], after[i - 1].left)]
      /\ done' = done \o DataOf(left'[FinalStage])
      /\ UNCHANGED <<synchronous, offered>>

Next ==
  \/ InitNodes
  \/ Offer
  \/ \E i \in Stages : Deliver(i)
  \/ \E i \in Stages, ready \in BOOLEAN : Signal(i, ready)
  \/ TickAll

Spec == Init /\ [][Next]_vars

-------------------------------------------------------------------------------
\* The types of the stages and of what is between them; no queue is deeper than
\* max_queue_depth, and only a stage with a next one stalls.
TypeOK ==
  /\ DOMAIN stage = Stages
  /\ \A i \in Stages : StageOK(stage[i], 0..(offered - 1))
  /\ wire \in [Stages -> Seq(0..(offered - 1))]
  /\ synchronous \in BOOLEAN
  /\ offered \in Nat

Ascending(s) == \A k, m \in DOMAIN s : k < m => s[k] < s[m]
Older(s, t) == \A k \in DOMAIN s, m \in DOMAIN t : s[k] < t[m]

\* The data of the items in stage i and on their way to it, oldest first.
Line(i) == DataOf(Contents(stage[i])) \o wire[i]

\* First in, first out, without loss: over any mix of items, signals and ticks,
\* what a stage received is dropped, has left, or is in the stage, and what left
\* it is on the wire or was received by the next one.  From end to end the items
\* are in the order in which they were offered.
Accounted ==
  /\ \A i \in Stages :
       LET s == stage[i] inside == Contents(s)
       IN  /\ s.item_counter = s.stats.received - s.stats.dropped
           /\ s.item_counter = s.stats.processed + Len(inside)
           /\ \A k \in DOMAIN inside : inside[k].id = s.stats.processed + k - 1
           /\ s.stats.received + Len(wire[i]) =
                IF i = 1 THEN offered ELSE stage[i - 1].stats.processed
  /\ Ascending(done)
  /\ \A i \in Stages :
       /\ Ascending(Line(i)) /\ Older(done, Line(i))
       /\ \A j \in Stages : i < j => Older(Line(j), Line(i))

\* The utilization that stats() reports is exact: the busy cycles are the service
\* times of the finished items, leaving or stalled, and the progress of the
\* current one, so no cycle of a stall or of a bubble is counted as work.
BusyCyclesAreWork ==
  \A i \in Stages :
    LET s == stage[i]
    IN  s.stats.busy =
          CASE s.state = "Idle"    -> s.stats.processed * Work(s)
            [] s.state = "Stalled" -> (s.stats.processed + 1) * Work(s)
            [] s.state = "Busy"    -> s.stats.processed * Work(s)
                                        + s.latency_cycles - s.current_item[1].remaining_cycles

\* An item leaves no sooner than its latency after the tick that started it, and
\* no later than it takes to serve it and what it found ahead of it, not counting
\* the ticks in which downstream was not ready: no bubbles, no lost wake-up.
OnTime ==
  \A i \in Stages : \A k \in DOMAIN left[i] :
    LET s == stage[i] item == left[i][k]
    IN  /\ Cycles(s) - item.cycle >= Work(s) + 1
        /\ s.ready_cycles - item.ready_at <= 1 + (item.ahead + 1) * Work(s)

Progressed(s, t) ==
  \/ t.stats.busy > s.stats.busy \/ t.stats.processed > s.stats.processed
  \/ s.state = "Idle" /\ t.state = "Busy"

\* The backpressure the type documents (pipeline.rs:41, 135) works under a
\* synchronous driver, although the signal a stage acts on is one tick old: an
\* item that the first stage accepted is never dropped, and as long as there is
\* an item no tick passes without work on one, so the stages never wait for each
\* other in vain.
BackpressureWorks ==
  [][synchronous =>
       /\ \A i \in 2..FinalStage : stage'[i].stats.dropped = 0
       /\ (Ticks' > Ticks /\ \E i \in Stages : Contents(stage[i]) # <<>>) =>
            \E i \in Stages : Progressed(stage[i], stage'[i])]_vars
===============================================================================

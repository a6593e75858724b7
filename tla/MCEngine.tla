-------------------------------- MODULE MCEngine --------------------------------
(***************************************************************************)
(* Instances of Engine and ParallelEngine for model checking.              *)
(***************************************************************************)
EXTENDS ParallelEngine

\* Node ids as the tests give them, 1001 in subgraph 1 and so on.
HomeByPrefix == [n \in Nodes |-> n \div 1000]

\* Node ids as in examples/mini_cache.rs: 1 in subgraph 1; 10 and 20 in 2.
HomeOfMiniCache == [n \in Nodes |-> IF n = 1 THEN 1 ELSE 2]

PeriodTwo == [s \in TickSubs |-> 2]
PeriodThree == [s \in TickSubs |-> 3]

\* One channel for every pair of subgraphs.
Links(latency, rule) ==
  SetToSeq({[src |-> s, dst |-> d, latency |-> latency, alignment |-> rule] :
              <<s, d>> \in {pair \in Subs \X Subs : pair[1] # pair[2]}})

\* A round takes TimeStep, so this is the least latency that hides a round.
SlowLinks == Links(TimeStep, "CeilToTick")
FastLinks == Links(TimeStep - 1, "CeilToTick")
StrictLinks == Links(0, "StrictTickBoundary")
NoLinks == {}

\* Only the direction to the tick-driven subgraph is connected; the other delivers
\* without latency.  Later a second channel takes the place of this one.
FloorLink == <<[src |-> 2, dst |-> 1, latency |-> 1, alignment |-> "FloorToTick"]>>
CeilLink == {[src |-> 2, dst |-> 1, latency |-> 2, alignment |-> "CeilToTick"]}
===============================================================================
